------------------------------- MODULE MCWire --------------------------------
(***************************************************************************)
(* The protocols for model checking: message channel and rpc, http over    *)
(* both versions, tls, websocket, and the helpers of the http client.  One *)
(* behaviour is about one of them; they share the variables s1 to s12.     *)
(***************************************************************************)
EXTENDS Integers, Sequences

CONSTANT Parts         \* the parts this instance checks

(* The part a behaviour is about, and room for the variables of any one part. *)
VARIABLES part, s1, s2, s3, s4, s5, s6, s7, s8, s9, s10, s11, s12

vars == <<part, s1, s2, s3, s4, s5, s6, s7, s8, s9, s10, s11, s12>>

Pair == {1, 2}
Three == {1, 2, 3}
Ends == {"a", "b"}
OneCaller == [e \in Ends |-> IF e = "a" THEN 2 ELSE 0]
RequestModes == <<{"buffered", "stream", "upload"}, {"buffered", "stream"}>>
Paths == {"plain", "tls", "tunnel"}
BodyKinds == <<{"none", "static", "provider"}, {"none"}>>
ServerScripts == {<<"simple", "close">>, <<"simple", "stream">>, <<"upload">>, <<"refused">>, <<"ws">>,
                  <<"bad">>, <<"reject", "simple">>}
StreamKinds == <<{"stream", "upload"}, {"simple"}>>
ShortFrame(op, size) == [op |-> op, ext |-> FALSE, masked |-> FALSE, size |-> size]
LongFrame(op, size) == [op |-> op, ext |-> TRUE, masked |-> TRUE, size |-> size]
FrameScripts == {<<ShortFrame("text", 1), ShortFrame("ping", 0), LongFrame("binary", 2)>>,
                 <<ShortFrame("text", 0), ShortFrame("close", 0)>>,
                 <<ShortFrame("pong", 1), ShortFrame("text", 2), ShortFrame("close", 1)>>}
Address(scheme, host, path) == [scheme |-> scheme, host |-> host, path |-> path]
StartUrls == {Address("http", "a", <<>>), Address("https", "a", <<"p">>)}
RedirectUrls == StartUrls \cup {Address("https", "s.a", <<>>), Address("http", "a", <<"p">>)}
Cookie(domain, secure, age) == [domain |-> domain, secure |-> secure, age |-> age]
Cookies == {Cookie("", FALSE, "none"), Cookie("a", TRUE, "one"), Cookie("", FALSE, "zero")}
RequestMethods == {"GET", "POST"}
RedirectCodes == {302, 307}
Versions == {"h1", "h2"}
RoutePaths == {<<"a">>, <<"a", "b">>}
RoutePatterns == {<<":x">>, <<"a", ":x">>, <<":x", "b">>}

-----------------------------------------------------------------------------
Channel == INSTANCE Ipc WITH
    HeaderSize <- 2, CompactThreshold <- 2, PayloadSizes <- {1}, MaxSends <- 2, MaxFrames <- 2,
    Ends <- Ends, IdSpace <- 3, FirstId <- 0, MaxRequests <- OneCaller, MaxStray <- 1, ch <- s1,
    rx <- s2, io <- s3, unposted <- s4, io_tasks <- s5, client_tasks <- s6, reading <- s7,
    writing <- s8, peer <- s9, sent <- s10, wire <- s11, client <- s12, ep <- s1, calls <- s2,
    net <- s3, tasks <- s4, stray <- s5
Client == INSTANCE HttpClient WITH
    Requests <- Pair, Modes <- RequestModes, Routes <- Paths, Urls <- RedirectUrls,
    ChainStarts <- StartUrls, Methods <- RequestMethods, Statuses <- RedirectCodes,
    SetCookies <- Cookies, Protocols <- Versions, MaxRedirects <- 2, MaxChains <- 1,
    MaxTime <- 1, Clients <- Three, Keys <- Pair, Limits <- Pair, IdleTimeout <- 1,
    PoolMaxTime <- 2, conn <- s1, h2 <- s2, ios <- s3, tasks <- s4, sender <- s5, mode <- s6,
    ends <- s7, raw <- s8, owner <- s9, opts <- s1, state <- s2, req <- s3, chain <- s4,
    chainConn <- s5, jar <- s6, now <- s7, hop <- s8, ended <- s9, chainGone <- s10,
    idle_clients <- s1, max_idle <- s2, client <- s3, holder <- s4, poolNow <- s5, reused <- s6
Http2Peer == INSTANCE Http2 WITH
    Streams <- Pair, Bodies <- BodyKinds, MaxChunks <- 1, MaxReaders <- 2, Kinds <- StreamKinds,
    Window <- 2, HighWater <- 1, LowWater <- 0, ses <- s1, strm <- s2,
    readers <- s3, writing <- s4, parsing <- s5, inside <- s6, posted <- s7, closes <- s8,
    broken <- s9, mux <- s1, eng <- s2, st <- s3, credit <- s4, etasks <- s5, pulls <- s6,
    freed <- s7
Tls == INSTANCE TlsSocket WITH
    MaxRecords <- 4, RecordSize <- 2, Partial <- FALSE, MaxCalls <- 1, tls <- s1, sendq <- s2,
    flight <- s3, transport <- s4, treads <- s5, ttasks <- s6, shell <- s7, records <- s8,
    wire <- s9, asked <- s10, answered <- s11, nullWrite <- s12
Server == INSTANCE HttpServer WITH
    Scripts <- ServerScripts, Chunks <- 3, HighWater <- 2, LowWater <- 1, MaxRead <- 3,
    Pipelining <- FALSE, Paths <- RoutePaths, Patterns <- RoutePatterns, MaxRegs <- 3,
    Requests <- {1}, setup <- s1, listen <- s2, http <- s3, parser <- s4, upload <- s5,
    out <- s6, ioTasks <- s7, peer <- s8, handled <- s9, told <- s10, routes <- s1,
    pattern_routes <- s2, filters <- s3, request <- s4, regs <- s5, outcome <- s6
Socket == INSTANCE WebSocket WITH
    Scripts <- FrameScripts, MaxCalls <- 2, ws <- s1, script <- s2, got <- s3, base <- s4,
    offset <- s5, fp <- s6, wsTasks <- s7, wsCalls <- s8, delivered <- s9, hand <- s10,
    wsHist <- s11

(* The room a part with k variables leaves is empty and stays so. *)
Empty12 == s12 = 0
Empty11 == s11 = 0 /\ Empty12
Empty10 == s10 = 0 /\ Empty11
Empty9 == s9 = 0 /\ Empty10
Empty8 == s8 = 0 /\ Empty9
Empty7 == s7 = 0 /\ Empty8
Empty6 == s6 = 0 /\ Empty7
After5 == <<s6, s7, s8, s9, s10, s11, s12>>
After6 == <<s7, s8, s9, s10, s11, s12>>
After7 == <<s8, s9, s10, s11, s12>>
After9 == <<s10, s11, s12>>
After10 == <<s11, s12>>
After11 == <<s12>>

Init ==
  /\ part \in Parts
  /\ \/ part = "channel" /\ Channel!Init
     \/ part = "rpc" /\ Channel!RpcInit /\ Empty6
     \/ part = "client" /\ Client!Init /\ Empty10
     \/ part = "session" /\ Http2Peer!Init /\ Empty10
     \/ part = "tls" /\ Tls!Init
     \/ part = "server" /\ Server!Init /\ Empty11
     \/ part = "engine" /\ Http2Peer!EngineInit /\ Empty8
     \/ part = "websocket" /\ Socket!Init /\ Empty12
     \/ part = "redirects" /\ Client!ChainInit /\ Empty11
     \/ part = "routes" /\ Server!RouteInit /\ Empty7
     \/ part = "pool" /\ Client!PoolInit /\ Empty7

Next ==
  /\ UNCHANGED part
  /\ \/ part = "channel" /\ Channel!Next
     \/ part = "rpc" /\ Channel!RpcNext /\ UNCHANGED After5
     \/ part = "client" /\ Client!Next /\ UNCHANGED After9
     \/ part = "session" /\ Http2Peer!Next /\ UNCHANGED After9
     \/ part = "tls" /\ Tls!Next
     \/ part = "server" /\ Server!Next /\ UNCHANGED After10
     \/ part = "engine" /\ Http2Peer!EngineNext /\ UNCHANGED After7
     \/ part = "websocket" /\ Socket!Next /\ UNCHANGED After11
     \/ part = "redirects" /\ Client!ChainNext /\ UNCHANGED After10
     \/ part = "routes" /\ Server!RouteNext /\ UNCHANGED After6
     \/ part = "pool" /\ Client!PoolNext /\ UNCHANGED After6

Spec == Init /\ [][Next]_vars

-----------------------------------------------------------------------------
(***************************************************************************)
(* Every variable of every part has its type.                              *)
(***************************************************************************)
TypesOK ==
  /\ part = "channel" => Channel!TypeOK
  /\ part = "rpc" => Channel!RpcTypeOK
  /\ part = "client" => Client!TypeOK
  /\ part = "session" => Http2Peer!TypeOK
  /\ part = "tls" => Tls!TypeOK
  /\ part = "server" => Server!TypeOK
  /\ part = "engine" => Http2Peer!EngineTypeOK
  /\ part = "websocket" => Socket!TypeOK
  /\ part = "redirects" => Client!ChainTypeOK
  /\ part = "routes" => Server!RouteTypeOK
  /\ part = "pool" => Client!PoolTypeOK

(***************************************************************************)
(* Every call gets its answer and gets it once: an rpc request, an http    *)
(* request over either version, a websocket's close, a request the server  *)
(* dispatches, a redirect chain; a connection that closes tells everyone who*)
(* waits on it, and a server that shuts down closes them all.              *)
(***************************************************************************)
CallsAnsweredOnce ==
  /\ part = "rpc" => Channel!CallbackAtMostOnce /\ Channel!AnswerIsForRequest /\ Channel!NeverForgotten
  /\ part = "client" => Client!EndsOnce /\ Client!CallbacksCome
  /\ part = "session" => Http2Peer!ClosedOnce
  /\ part = "tls" => Tls!ClosedAnswers
  /\ part = "server" => Server!EachHandledOnce /\ Server!ShutdownClosesAll
  /\ part = "engine" => Http2Peer!DrainedCloses
  /\ part = "websocket" => Socket!CloseToldOnce
  /\ part = "redirects" => Client!ChainEnds

(***************************************************************************)
(* Flow control never strands a stream: a session that has room reads on,  *)
(* deferred answers are flushed, a paused upload of http/1 goes on, and the  *)
(* credit of an http/2 upload is held back only above the marks and nowhere *)
(* forgotten.  Excepted are the cases in which the code stops: a session    *)
(* that nghttp2 terminates while it drains (TerminatedCloses), credit that  *)
(* was consumed and waits in nghttp2 for the next Pump (UploadResumes), and *)
(* credit that a stream holds when it closes (WindowStaysOpen).             *)
(***************************************************************************)
StreamsFlow ==
  /\ part = "session" => Http2Peer!KeepsReading
  /\ part = "server" => Server!AnswersFlushed /\ Server!UploadFlows
  /\ part = "engine" => Http2Peer!CreditReturns


(***************************************************************************)
(* Nothing reaches the wrong one: credentials and cookies reach no other   *)
(* host along a chain of redirects, a request reaches the handler registered*)
(* for its path, and no client is given to two callers by the pool.        *)
(***************************************************************************)
ReachesItsOwn ==
  /\ part = "redirects" => Client!CredentialsStay
  /\ part = "routes" => Server!ServedAsRegistered
  /\ part = "pool" => Client!PooledOnce
=============================================================================
