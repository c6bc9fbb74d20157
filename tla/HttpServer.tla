----------------------------- MODULE HttpServer ------------------------------
(***************************************************************************)
(* HttpServer (http_server.cpp): accepting a connection against Shutdown,  *)
(* and the state machine of one HTTP/1.1 connection - the parse loop, the  *)
(* route kinds, WebSocket frames after an upgrade, streamed responses,     *)
(* uploads with backpressure, the write queue and the two ways of closing. *)
(* The peer sends what a script says, in units: the head of a request,     *)
(* chunks of its body, its end, WebSocket frames.  llhttp is external: it  *)
(* consumes everything it is given and stops only after an upgrade.        *)
(* Everything runs on the I/O thread but Shutdown, Cancel and the peer.    *)
(***************************************************************************)
EXTENDS Integers, Sequences, FiniteSets, SequencesExt

CONSTANTS Scripts,       \* sequences of kinds of request
          Chunks,        \* body chunks of an upload
          HighWater, LowWater,
          MaxRead,       \* units a read brings
          Pipelining     \* the peer sends a request before the answer to the last

VARIABLES
  setup,    \* script, tls, and whether an upload handler reads on from its callback
  listen,   \* accepting, and Shutdown: "no", "flagged", "snapshot", "done"
  http,     \* the connection: see Init
  parser,   \* llhttp and ConnectionDelegate
  upload,   \* sr_chunks, sr_read_paused, sr_pending_read, sr_body_done
  out,      \* write_queue, the write in flight, pending_writes
  ioTasks,  \* tasks posted to the I/O thread
  peer,     \* units sent and read, answers received, end of file
  handled,  \* history: the units that went to a handler or a filter
  told      \* history: chunks given to the upload handler, and whether the end was

serverHttpVars == <<setup, listen, http, parser, upload, out, ioTasks, peer, handled, told>>

NoItem == <<0, "none">>
ResetDelegate == [req |-> 0, headers |-> FALSE, complete |-> FALSE, forward |-> FALSE]

Init ==
  /\ setup \in [script : Scripts, tls : BOOLEAN, eager : BOOLEAN]
  /\ listen = [accepting |-> TRUE, shutdown |-> "no"]
  /\ http = [phase |-> "none", mode |-> "http", closed |-> FALSE, registered |-> FALSE, reading |-> FALSE, drain |-> FALSE,
             after |-> FALSE, sock |-> "open", handle |-> FALSE, watchdog |-> FALSE, pending |-> <<>>, failed |-> FALSE]
  /\ parser = [mid |-> 0, d |-> ResetDelegate, error |-> FALSE, rest |-> <<>>]
  /\ upload = [chunks |-> 0, paused |-> FALSE, waiting |-> FALSE, done |-> FALSE]
  /\ out = [queue |-> <<>>, flight |-> NoItem, pending |-> 0]
  /\ ioTasks = <<>> /\ peer = [sent |-> 0, taken |-> 0, eof |-> FALSE, got |-> <<>>]
  /\ handled = <<>> /\ told = [chunks |-> 0, done |-> FALSE]

(* What the script puts on the wire. *)
RequestParts(kind) ==
  CASE kind = "upload" -> <<"head">> \o [k \in 1 .. Chunks |-> "body"] \o <<"end">>
    [] kind = "ws" -> <<"head", "end", "text", "ping", "close">>
    [] kind = "bad" -> <<"garbage">>
    [] OTHER -> <<"head", "end">>

UnitsOf(i) == [k \in 1 .. Len(RequestParts(setup.script[i])) |-> <<i, RequestParts(setup.script[i])[k]>>]
Wire == FlattenSeq([i \in 1 .. Len(setup.script) |-> UnitsOf(i)])
Kind(i) == setup.script[i]

----------------------------------------------------------------------------
(* A step of the I/O thread is a function of the state it found. *)
S == [http |-> http, parser |-> parser, upload |-> upload, out |-> out, handled |-> handled, told |-> told]

Becomes(s) ==
  http' = s.http /\ parser' = s.parser /\ upload' = s.upload /\ out' = s.out /\ handled' = s.handled /\ told' = s.told

(* QueueWrite and PumpWrites: one write in flight.  Nothing is queued on a     *)
(* closed connection.                                                          *)
PumpWrites(s) ==
  IF s.out.flight # NoItem \/ s.out.queue = <<>> THEN s
  ELSE [s EXCEPT !.out.flight = Head(s.out.queue), !.out.queue = Tail(@)]

QueueWrite(s, item) ==
  IF s.http.closed THEN s ELSE PumpWrites([s EXCEPT !.out.queue = Append(@, item), !.out.pending = @ + 1])

(* StartRead: one read at a time. *)
StartRead(s) ==
  IF (s.http.closed /\ ~s.http.drain) \/ s.http.reading THEN s ELSE [s EXCEPT !.http.reading = TRUE]

(* DoClose: deferred while writes are pending; a TLS connection shuts down     *)
(* its write side and drains, a TCP one is closed.                             *)
Defers(s) == s.out.pending > 0

DoClose(s) ==
  LET r == [s EXCEPT !.parser.d = ResetDelegate]
      u == [r EXCEPT !.http.registered = FALSE]
  IN IF Defers(s) THEN [r EXCEPT !.http.after = TRUE]
     ELSE IF setup.tls THEN StartRead([u EXCEPT !.http.drain = TRUE, !.http.watchdog = TRUE])
     ELSE [u EXCEPT !.http.sock = "closed"]

(* FinalTeardown *)
FinalTeardown(s) == IF s.http.drain THEN [s EXCEPT !.http.drain = FALSE, !.http.sock = "closed"] ELSE s

(* Close, on the I/O thread *)
Close(s) == IF s.http.closed THEN s ELSE DoClose([s EXCEPT !.http.closed = TRUE, !.http.handle = FALSE])

----------------------------------------------------------------------------
(* DeliverBodyChunk, DeliverBodyDone, ReadBody: an eager handler asks for the  *)
(* next chunk from inside its callback.                                        *)
DeliverBodyChunk(s) ==
  IF s.http.closed THEN s
  ELSE IF s.upload.waiting THEN [s EXCEPT !.upload.waiting = setup.eager, !.told.chunks = @ + 1]
  ELSE [s EXCEPT !.upload.chunks = @ + 1]

DeliverBodyDone(s) ==
  IF s.http.closed THEN s
  ELSE [s EXCEPT !.upload.done = TRUE, !.upload.waiting = FALSE, !.told.done = @ \/ s.upload.waiting]

(* ResumeReading, ResumeReadingIfDrained. *)
Resume(s, limit) ==
  IF s.upload.paused /\ ~s.upload.done /\ s.upload.chunks <= limit THEN StartRead([s EXCEPT !.upload.paused = FALSE]) ELSE s

ReadBody(s) ==
  LET n == IF setup.eager THEN s.upload.chunks ELSE 1
      t == [s EXCEPT !.upload.chunks = @ - n, !.told.chunks = @ + n]
      drained == IF s.upload.chunks > 0 THEN Resume(t, LowWater) ELSE s
  IN IF s.http.closed THEN [s EXCEPT !.told.done = TRUE]
     ELSE IF s.upload.chunks > 0 /\ ~setup.eager THEN drained
     ELSE IF s.upload.done THEN [drained EXCEPT !.told.done = TRUE]
     ELSE Resume([drained EXCEPT !.upload.waiting = TRUE], HighWater)

----------------------------------------------------------------------------
(* Http1Parser.Execute over the pending units; body chunks go to the delegate  *)
(* or, once it forwards, to DeliverBodyChunk.  It does not stop at the end of  *)
(* a message, so of two requests only the last is left in the delegate.        *)
Feed(s, u) ==
  IF s.parser.error THEN s
  ELSE IF s.parser.rest # <<>> \/ (s.parser.d.complete /\ Kind(s.parser.d.req) = "ws")
       THEN [s EXCEPT !.parser.rest = Append(@, u)]
  ELSE CASE u[2] = "head" -> [s EXCEPT !.parser.mid = u[1], !.parser.d.req = u[1], !.parser.d.headers = TRUE]
         [] u[2] \in {"body", "end"} /\ s.parser.mid = u[1] ->
              LET b == IF u[2] = "body" /\ s.http.mode = "upload" THEN DeliverBodyChunk(s) ELSE s
              IN IF u[2] = "body" THEN b ELSE [b EXCEPT !.parser.mid = 0, !.parser.d.complete = TRUE]
         [] OTHER -> [s EXCEPT !.parser.error = TRUE]

(* Bodies parsed along with the head, before the handler is there, are queued. *)
Execute(s) ==
  LET units == s.http.pending
      begun == FoldLeft(Feed, [s EXCEPT !.parser.error = FALSE, !.parser.rest = <<>>], units)
      queued == Len(SelectSeq(units, LAMBDA u : u[2] = "body"))
  IN [s |-> begun, queued |-> queued]

Handles(s, part) == [s EXCEPT !.handled = Append(@, <<s.parser.d.req, part>>)]

(* BeginStreamingRequestHandle: the upload handler is invoked when the head is *)
(* there.                                                                      *)
BeginStreamingRequest(s, queued) ==
  [Handles(s, "head") EXCEPT !.http.mode = "upload", !.http.handle = TRUE, !.parser.d.forward = TRUE, !.upload.chunks = queued]

(* ProcessWebSocketData: one frame. *)
WsFrame(s, u) ==
  IF s.http.closed THEN s
  ELSE CASE u[2] = "text" -> [s EXCEPT !.handled = Append(@, u)]
         [] u[2] = "ping" -> QueueWrite(s, <<u[1], "pong">>)
         [] OTHER -> Close(QueueWrite(s, <<u[1], "close">>))

ProcessWebSocketData(s) == [FoldLeft(WsFrame, s, s.http.pending) EXCEPT !.http.pending = <<>>]

(* The route of a complete request.  What was read of it stays in pending_data *)
(* unless it was an ordinary keep-alive request.                               *)
Ended(s) == IF s.parser.mid = 0 THEN "end" ELSE "cut"

Consumed(s) == [s EXCEPT !.http.pending = <<>>]

Dispatch(s0) ==
  LET i == s0.parser.d.req
      s == [Handles(s0, Ended(s0)) EXCEPT !.parser.d = ResetDelegate]
  IN CASE Kind(i) = "reject" -> QueueWrite(s, <<i, "answer">>)
       [] Kind(i) = "stream" -> [s EXCEPT !.http.mode = "streaming", !.http.handle = TRUE]
       [] Kind(i) = "ws" ->
            ProcessWebSocketData([QueueWrite(s, <<i, "answer">>) EXCEPT !.http.mode = "ws", !.http.pending = s0.parser.rest])
       [] Kind(i) = "close" -> QueueWrite(s, <<i, "answer">>)
       [] OTHER -> Consumed([QueueWrite(s, <<i, "answer">>) EXCEPT !.parser.mid = 0])

ProcessPendingData(s) ==
  LET e == Execute(s)
      begins == e.s.http.mode = "http" /\ e.s.parser.d.headers /\ Kind(e.s.parser.d.req) \in {"upload", "refused"}
      b == IF begins THEN BeginStreamingRequest(e.s, e.queued) ELSE e.s
  IN IF s.http.mode = "ws" THEN ProcessWebSocketData(s)
     ELSE IF e.s.parser.error THEN Close(QueueWrite(e.s, <<0, "bad">>))
     ELSE IF begins /\ Kind(e.s.parser.d.req) = "refused"       \* a filter refuses an upload
          THEN Close(QueueWrite(Handles(e.s, "head"), <<e.s.parser.d.req, "answer">>))
     ELSE IF b.http.mode = "upload" /\ b.parser.d.complete
          THEN [DeliverBodyDone(b) EXCEPT !.parser.d = ResetDelegate]
     ELSE IF b.parser.d.complete THEN Dispatch(b)
     ELSE Consumed(b)

----------------------------------------------------------------------------
OnIo == http.phase = "up" /\ http.sock # "gone"
Still == UNCHANGED <<setup, listen, ioTasks, peer>>

(* OnTcpAccept, OnTlsAccept: look at accepting, register, look again. *)
OnAccept ==
  /\ http.phase = "none" /\ listen.accepting /\ http' = [http EXCEPT !.phase = "checked"]
  /\ UNCHANGED <<setup, listen, parser, upload, out, ioTasks, peer, handled, told>>

RegisterConnection ==
  /\ http.phase = "checked" /\ http' = [http EXCEPT !.phase = "built", !.registered = TRUE]
  /\ UNCHANGED <<setup, listen, parser, upload, out, ioTasks, peer, handled, told>>

IsAccepting == listen.accepting

OnAccepted ==
  /\ http.phase = "built"
  /\ LET s == [S EXCEPT !.http.phase = "up"] IN Becomes(IF IsAccepting THEN StartRead(s) ELSE Close(s))
  /\ Still

(* The peer sends the next unit, or half-closes.  It waits for the answer to   *)
(* its last request, and sends none on a connection that is to be closed.      *)
MaySend(u) ==
  u[1] > 1 /\ u[2] \in {"head", "garbage"} => Kind(u[1] - 1) \in {"simple", "reject"} /\ <<u[1] - 1, "answer">> \in Range(peer.got)

PeerSends ==
  /\ ~peer.eof /\ peer.sent < Len(Wire)
  /\ Pipelining \/ MaySend(Wire[peer.sent + 1])
  /\ peer' = [peer EXCEPT !.sent = @ + 1]
  /\ UNCHANGED <<setup, listen, http, parser, upload, out, ioTasks, handled, told>>

PeerCloses ==
  /\ ~peer.eof /\ peer' = [peer EXCEPT !.eof = TRUE]
  /\ UNCHANGED <<setup, listen, http, parser, upload, out, ioTasks, handled, told>>

(* OnRead *)
Reads(s) ==
  IF s.http.closed \/ (s.http.mode = "upload" /\ s.upload.done) THEN s
  ELSE IF s.http.mode = "upload" /\ s.upload.chunks >= HighWater THEN [s EXCEPT !.upload.paused = TRUE]
  ELSE StartRead(s)

OnRead ==
  /\ OnIo /\ http.reading
  /\ \E n \in 1 .. MaxRead :
       /\ peer.taken + n <= peer.sent /\ http.sock = "open"
       /\ peer' = [peer EXCEPT !.taken = @ + n]
       /\ LET s == [S EXCEPT !.http.reading = FALSE]
              p == [s EXCEPT !.http.pending = @ \o SubSeq(Wire, peer.taken + 1, peer.taken + n)]
          IN Becomes(IF http.closed THEN (IF http.drain THEN StartRead(s) ELSE s) ELSE Reads(ProcessPendingData(p)))
  /\ UNCHANGED <<setup, listen, ioTasks>>

OnReadEnds ==
  /\ OnIo /\ http.reading /\ (http.sock = "closed" \/ (peer.eof /\ peer.taken = peer.sent))
  /\ LET s == [S EXCEPT !.http.reading = FALSE] IN Becomes(IF http.closed THEN FinalTeardown(s) ELSE Close(s))
  /\ Still

(* A write completes: OnWriteComplete, then the next. *)
OnWriteComplete ==
  /\ OnIo /\ out.flight # NoItem /\ http.sock = "open"
  /\ LET s == [S EXCEPT !.out.flight = NoItem, !.out.pending = IF @ > 0 THEN @ - 1 ELSE 0]
         c == IF s.http.after /\ s.out.pending = 0 THEN DoClose([s EXCEPT !.http.after = FALSE]) ELSE s
     IN Becomes(PumpWrites(c))
  /\ peer' = [peer EXCEPT !.got = Append(@, out.flight)]
  /\ UNCHANGED <<setup, listen, ioTasks>>

OnWriteFails ==
  /\ OnIo /\ out.flight # NoItem /\ (peer.eof \/ http.sock # "open")
  /\ Becomes(DoClose([S EXCEPT !.out.flight = NoItem, !.out.pending = 0, !.http.after = FALSE, !.http.failed = TRUE]))
  /\ Still

----------------------------------------------------------------------------
(* The handlers: respond and write, the close of a streamed response, and the  *)
(* pull of an upload.                                                          *)
Streaming == OnIo /\ http.mode \in {"streaming", "upload"}
Current == IF handled = <<>> THEN 0 ELSE Last(handled)[1]
Responded(i) == <<i, "part">> \in Range(peer.got) \cup Range(out.queue) \cup {out.flight}

Respond ==
  /\ Streaming /\ ~http.closed /\ ~Responded(Current)
  /\ Becomes(QueueWrite(S, <<Current, "part">>)) /\ Still

CloseStreaming ==
  /\ Streaming /\ ~http.closed /\ Becomes(Close(QueueWrite(S, <<Current, "answer">>))) /\ Still

PullBody ==
  /\ Streaming /\ http.mode = "upload" /\ ~upload.waiting /\ ~told.done /\ Becomes(ReadBody(S)) /\ Still

WsSends ==
  /\ OnIo /\ http.mode = "ws" /\ ~http.closed /\ Len(out.queue) = 0 /\ out.flight = NoItem
  /\ \/ <<Current, "frame">> \notin Range(peer.got) /\ Becomes(QueueWrite(S, <<Current, "frame">>))
     \/ Becomes(Close(S))
  /\ Still

(* HttpServerRequestHandle.Cancel, from any thread: posted; CancelRequest      *)
(* closes the connection of a request that is still active.                    *)
Cancel ==
  /\ http.handle /\ "cancel" \notin Range(ioTasks) /\ ioTasks' = Append(ioTasks, "cancel")
  /\ UNCHANGED <<setup, listen, http, parser, upload, out, peer, handled, told>>

RunCancel ==
  /\ OnIo /\ ioTasks # <<>> /\ Head(ioTasks) = "cancel" /\ ioTasks' = Tail(ioTasks)
  /\ Becomes(IF http.handle THEN Close(S) ELSE S) /\ UNCHANGED <<setup, listen, peer>>

(* The drain watchdog, for which 30 s is any time. *)
Watchdog ==
  /\ OnIo /\ http.watchdog /\ Becomes(FinalTeardown([S EXCEPT !.http.watchdog = FALSE])) /\ Still

----------------------------------------------------------------------------
(* Shutdown, on another thread: accepting is cleared, the connections are      *)
(* collected under the lock, then each is closed.                              *)
Shutdown ==
  /\ listen.shutdown = "no" /\ listen' = [accepting |-> FALSE, shutdown |-> "flagged"]
  /\ UNCHANGED <<setup, http, parser, upload, out, ioTasks, peer, handled, told>>

Snapshot ==
  /\ listen.shutdown = "flagged" /\ listen' = [listen EXCEPT !.shutdown = IF http.registered THEN "snapshot" ELSE "done"]
  /\ UNCHANGED <<setup, http, parser, upload, out, ioTasks, peer, handled, told>>

(* Close from another thread: closed is set at once, DoClose is posted. *)
CloseFromOutside ==
  /\ listen.shutdown = "snapshot" /\ listen' = [listen EXCEPT !.shutdown = "done"]
  /\ http' = [http EXCEPT !.closed = TRUE, !.handle = FALSE]
  /\ ioTasks' = IF http.closed THEN ioTasks ELSE Append(ioTasks, "close")
  /\ UNCHANGED <<setup, parser, upload, out, peer, handled, told>>

RunClose ==
  /\ OnIo /\ ioTasks # <<>> /\ Head(ioTasks) = "close" /\ ioTasks' = Tail(ioTasks) /\ Becomes(DoClose(S))
  /\ UNCHANGED <<setup, listen, peer>>

(* The last reference goes: with it the socket and what the watchdog points    *)
(* to.  A handler that waits for a chunk is held by the connection it holds.   *)
Released == ~http.registered /\ ~http.reading /\ out.flight = NoItem /\ ioTasks = <<>>

Destroy ==
  /\ OnIo /\ Released /\ ~upload.waiting
  /\ http' = [http EXCEPT !.sock = "gone", !.watchdog = FALSE]
  /\ UNCHANGED <<setup, listen, parser, upload, out, ioTasks, peer, handled, told>>

Next ==
  \/ OnAccept \/ RegisterConnection \/ OnAccepted \/ PeerSends \/ PeerCloses \/ OnRead \/ OnReadEnds \/ OnWriteComplete \/ OnWriteFails
  \/ Respond \/ CloseStreaming \/ PullBody \/ WsSends \/ Cancel \/ RunCancel \/ Watchdog
  \/ Shutdown \/ Snapshot \/ CloseFromOutside \/ RunClose \/ Destroy

Spec == Init /\ [][Next]_serverHttpVars

----------------------------------------------------------------------------
TypeOK ==
  /\ http.phase \in {"none", "checked", "built", "up"} /\ http.mode \in {"http", "ws", "streaming", "upload"}
  /\ http.sock \in {"open", "closed", "gone"} /\ out.pending \in Nat /\ upload.chunks \in Nat
  /\ listen.shutdown \in {"no", "flagged", "snapshot", "done"}

(* The units that must reach a handler, in the order they were sent. *)
Handleable(u) == IF Kind(u[1]) \in {"upload", "refused"} THEN u[2] = "head" ELSE u[2] \in {"end", "text"}

(* Requests and frames reach their handlers in the order the peer sent them,   *)
(* whole, none twice and none skipped, however the reads cut them - for a peer *)
(* that waits for its answers and is never refused by a filter.                *)
EachHandledOnce ==
  "reject" \notin Range(setup.script) => IsPrefix(handled, SelectSeq(Wire, Handleable))

(* A connection is closed under an answer only when a write has failed or its  *)
(* peer is gone: Close waits for what was queued before it.                    *)
AnswersFlushed == http.sock # "open" /\ ~http.failed => out.queue = <<>> /\ out.flight = NoItem

(* An upload whose handler waits for a chunk is being read: backpressure never *)
(* stops both sides.                                                           *)
UploadFlows == OnIo /\ upload.waiting /\ ~http.closed /\ ~upload.done /\ http.sock = "open" => http.reading /\ ~upload.paused

(* After Shutdown has returned, a connection that raced with it is closed: it  *)
(* is at most flushing what it had queued, or draining.                        *)
ShutdownClosesAll ==
  listen.shutdown = "done" /\ OnIo /\ ioTasks = <<>> =>
    http.sock # "open" \/ http.after \/ http.drain

(* Violated: a request that a filter refused is done with - "The connection    *)
(* stays alive unless the filter's response asked to close" - and the next one *)
(* is handled whole.                                                           *)
RefusedIsConsumed == IsPrefix(handled, SelectSeq(Wire, Handleable))

(* Violated: "|cb| is invoked with done=true ... after the final chunk": the   *)
(* handler that waits for a chunk when the connection closes is never told.    *)
WaitingIsTold == OnIo /\ Released => ~upload.waiting

-----------------------------------------------------------------------------
(***************************************************************************)
(* The route table that HTTP/1.1 and HTTP/2 connections share              *)
(* (HttpSharedState in http_engine_internal.h) and the two dispatchers     *)
(* that read it: routes and filters are registered from any thread while   *)
(* requests arrive, once when their headers are complete and once when     *)
(* their body is.  A path is its segments; ":x" is a placeholder.  A       *)
(* handler is named by the number of its registration.                     *)
(***************************************************************************)
CONSTANTS Paths, Patterns, MaxRegs, Requests

VARIABLES
  routes,          \* per kind of handler: path -> handler, as a set of [path, h]
  pattern_routes,  \* [segments, h] in order of registration
  filters,         \* verdicts in order of registration
  request,         \* request -> [st, proto, path]
  regs,            \* history: every registration
  outcome          \* history: request -> [h, by, params, at] what became of it

routeVars == <<routes, pattern_routes, filters, request, regs, outcome>>

Kinds == {"upload", "upload_handle", "stream", "stream_handle", "simple", "ws"}
NotFound == 0

RouteInit ==
  /\ routes = [k \in Kinds |-> {}] /\ pattern_routes = <<>> /\ filters = <<>>
  /\ request \in [Requests -> [st : {"new"}, proto : {"h1", "h2"}, path : Paths]]
  /\ regs = <<>> /\ outcome = [r \in Requests |-> <<>>]

----------------------------------------------------------------------------
(* Registration: the last handler of an exact path is the one that serves. *)
Registers(reg) == Len(regs) < MaxRegs /\ regs' = Append(regs, reg) /\ UNCHANGED <<request, outcome>>

AddExact(kind, path) ==
  /\ Registers([kind |-> kind, path |-> path])
  /\ routes' = [routes EXCEPT ![kind] = {e \in @ : e.path # path} \cup {[path |-> path, h |-> Len(regs) + 1]}]
  /\ UNCHANGED <<pattern_routes, filters>>
AddPattern(segments) ==
  /\ Registers([kind |-> "pattern", path |-> segments])
  /\ pattern_routes' = Append(pattern_routes, [segments |-> segments, h |-> Len(regs) + 1]) /\ UNCHANGED <<routes, filters>>
AddFilter(allows) ==
  /\ Registers([kind |-> "filter", path |-> <<>>]) /\ filters' = Append(filters, [allows |-> allows, h |-> Len(regs) + 1])
  /\ UNCHANGED <<routes, pattern_routes>>

----------------------------------------------------------------------------
(* MatchPattern: as many segments, each equal, a placeholder or empty. *)
SegmentMatches(ps, s) == ps = "" \/ ps = ":x" \/ ps = s
MatchPattern(segments, path) == Len(path) = Len(segments) /\ \A i \in DOMAIN segments : SegmentMatches(segments[i], path[i])
Params(segments, path) == {path[i] : i \in {j \in DOMAIN segments : segments[j] = ":x"}}

Find(kind, path) == IF \E e \in routes[kind] : e.path = path THEN (CHOOSE e \in routes[kind] : e.path = path).h ELSE NotFound

(* RunFilters: the first that says no, 0 if none does. *)
RunFilters == IF \E i \in DOMAIN filters : ~filters[i].allows THEN filters[SelectInSeq(filters, LAMBDA f : ~f.allows)].h ELSE 0

(* Dispatch and the end of Lookup: an exact path, else the first pattern. *)
MatchIn(path) == SelectInSeq(pattern_routes, LAMBDA p : MatchPattern(p.segments, path))
ByPattern(path) == Find("simple", path) = NotFound /\ MatchIn(path) # 0
Simple(path) == IF ByPattern(path) THEN pattern_routes[MatchIn(path)].h ELSE Find("simple", path)

Ends(r, h, by, path) ==
  /\ request' = [request EXCEPT ![r].st = "done"]
  /\ outcome' = [outcome EXCEPT ![r] = [h |-> h, by |-> by, at |-> Len(regs),
                                         params |-> IF by = "simple" /\ ByPattern(path) THEN Params(pattern_routes[MatchIn(path)].segments, path) ELSE {}]]

(* A streaming-request route takes a request by its headers.  HTTP/1.1 prefers *)
(* the handler with a handle, HTTP/2 the one without.                          *)
UploadRoute(proto, path) ==
  LET plain == Find("upload", path)  routeHandled == Find("upload_handle", path)
  IN IF proto = "h1" THEN (IF routeHandled # NotFound THEN routeHandled ELSE plain) ELSE (IF plain # NotFound THEN plain ELSE routeHandled)
StreamRoute(proto, path) ==
  LET plain == Find("stream", path)  routeHandled == Find("stream_handle", path)
  IN IF proto = "h1" THEN (IF routeHandled # NotFound THEN routeHandled ELSE plain) ELSE (IF plain # NotFound THEN plain ELSE routeHandled)

(* OnRequestHeadersComplete; the same test of ProcessPendingData. *)
HeadersComplete(r) ==
  LET q == request[r]  routeUpload == UploadRoute(q.proto, q.path)
  IN /\ q.st = "new"
     /\ IF routeUpload = NotFound THEN request' = [request EXCEPT ![r].st = "headers"] /\ UNCHANGED outcome
        ELSE IF RunFilters # 0 THEN Ends(r, RunFilters, "filter", q.path) ELSE Ends(r, routeUpload, "upload", q.path)
     /\ UNCHANGED <<routes, pattern_routes, filters, regs>>

(* More of the body.  HTTP/1.1 looks again for a streaming-request route.      *)
BodyArrives(r) ==
  LET q == request[r]  routeUpload == UploadRoute(q.proto, q.path)
  IN /\ q.st = "headers" /\ q.proto = "h1" /\ routeUpload # NotFound
     /\ IF RunFilters # 0 THEN Ends(r, RunFilters, "filter", q.path) ELSE Ends(r, routeUpload, "upload", q.path)
     /\ UNCHANGED <<routes, pattern_routes, filters, regs>>

(* DispatchBuffered; the end of ProcessPendingData.  An upgrade is answered by *)
(* a simple handler; then the WebSocket route is looked up.                    *)
Buffered(r, upgrade) ==
  LET q == request[r]  stream == StreamRoute(q.proto, q.path)
  IN /\ q.st = "headers" /\ (q.proto = "h1" => UploadRoute("h1", q.path) = NotFound)
     /\ (upgrade => q.proto = "h1" /\ RunFilters = 0 /\ stream = NotFound /\ Simple(q.path) # NotFound)
     /\ IF RunFilters # 0 THEN Ends(r, RunFilters, "filter", q.path)
        ELSE IF stream # NotFound THEN Ends(r, stream, "stream", q.path)
        ELSE IF upgrade THEN Ends(r, Find("ws", q.path), "ws", q.path) ELSE Ends(r, Simple(q.path), "simple", q.path)
     /\ UNCHANGED <<routes, pattern_routes, filters, regs>>

RouteNext ==
  \/ \E k \in Kinds, p \in Paths : AddExact(k, p)
  \/ \E p \in Patterns : AddPattern(p)
  \/ \E allows \in BOOLEAN : AddFilter(allows)
  \/ \E r \in Requests : HeadersComplete(r) \/ BodyArrives(r) \/ \E upgrade \in BOOLEAN : Buffered(r, upgrade)

RouteSpec == RouteInit /\ [][RouteNext]_routeVars

----------------------------------------------------------------------------
RouteTypeOK == \A k \in Kinds : routes[k] \subseteq [path : Paths, h : 1..MaxRegs]

(* What the registrations so far ask for, from their order alone: of an exact  *)
(* path the last one, of the patterns the first that fits, and no pattern      *)
(* where an exact path is registered.                                          *)
Latest(kind, path, n) == {i \in 1..n : regs[i].kind = kind /\ regs[i].path = path /\ \A j \in i + 1..n : regs[j] # regs[i]}
Fits(segments, path) == Len(segments) = Len(path) /\ \A i \in DOMAIN path : segments[i] \in {path[i], ":x"}
Earliest(path, n) == {i \in 1..n : regs[i].kind = "pattern" /\ Fits(regs[i].path, path)
                                    /\ \A j \in 1..i - 1 : regs[j].kind = "pattern" => ~Fits(regs[j].path, path)}
WantedSimple(path, n) == IF Latest("simple", path, n) # {} THEN Latest("simple", path, n) ELSE Earliest(path, n)

(* Every request is settled by the registrations made before it was: a simple  *)
(* one goes to the exact route, else to the first pattern that fits, else it   *)
(* is not found; a streaming one to a route of that kind; and one that a       *)
(* filter refuses reaches no handler.                                          *)
ServedAsRegistered ==
  \A r \in Requests : request[r].st = "done" =>
    LET o == outcome[r]  p == request[r].path
        wanted == CASE o.by = "simple" -> WantedSimple(p, o.at)
                    [] o.by = "ws" -> Latest("ws", p, o.at)
                    [] o.by = "upload" -> Latest("upload", p, o.at) \cup Latest("upload_handle", p, o.at)
                    [] o.by = "stream" -> Latest("stream", p, o.at) \cup Latest("stream_handle", p, o.at)
                    [] o.by = "filter" -> {o.h}
    IN IF o.h = NotFound THEN wanted = {} ELSE o.h \in wanted

(* Violated: "route registration protocol-transparent (a handler registered    *)
(* once serves both HTTP/1.1 and HTTP/2 connections)": with a plain and a      *)
(* handle-aware handler on one path each protocol takes another.               *)
SameHandler ==
  \A r, s \in Requests : request[r].st = "done" /\ request[s].st = "done" /\ request[r].path = request[s].path =>
    LET a == outcome[r]  b == outcome[s] IN a.at = b.at /\ {a.by, b.by} \subseteq {"upload", "stream"} /\ a.by = b.by => a.h = b.h
=============================================================================
