----------------------------- MODULE HttpClient ------------------------------
(***************************************************************************)
(* HttpClient (http_client.cpp) and the handles of its requests            *)
(* (http_request_handle.cpp): the HTTP/1.1 state machine - connect,        *)
(* CONNECT tunnel, TLS, write, streamed upload, read, backpressure - and   *)
(* the requests multiplexed over an HTTP/2 session.  One thread sends, the *)
(* I/O thread runs the completions and the posted tasks.  Wire formats,    *)
(* cookies and compression are left out: a read brings more body, the end  *)
(* of the response, or an error.                                           *)
(***************************************************************************)
EXTENDS Integers, Sequences, FiniteSets, SequencesExt, FiniteSetsExt

CONSTANTS Requests,   \* 1, 2, ... in the order they are sent
          Modes,      \* per request: "buffered" (Send), "stream" (SendStreaming), "upload" (SendBody)
          Routes      \* "plain", "tls", "tunnel": HTTPS through an HTTP proxy

VARIABLES
  conn,     \* the members of Impl that belong to the connection
  h2,       \* h2_pending, one record per request
  ios,      \* completions the I/O thread will be given; each holds a reference to the client
  tasks,    \* tasks posted to the I/O thread, in order
  sender,   \* the request StartRequest is working on, or 0
  mode,     \* how each request was sent; "none" before
  ends,     \* how often each request was told that it is over: its callback, or on_body with done
  raw,      \* streams of a session that was closed with streams on it: they still call into Impl
  owner     \* "held", "dropped", "destroyed"; "used" when Impl is called after its destruction

httpVars == <<conn, h2, ios, tasks, sender, mode, ends, raw, owner>>

NoStream == [phase |-> "none", callback |-> FALSE, hooks |-> 0, paused |-> FALSE, buffered |-> FALSE, heldDone |-> FALSE,
             heldClose |-> FALSE, bodyDone |-> FALSE]

Init ==
  /\ conn \in [state : {"idle"}, proto : {"h1"}, sock : {FALSE}, session : {"none"}, route : Routes, callback : {0}, hooks : {0},
               streaming : {FALSE}, upload : {FALSE}, uploadDone : {FALSE}, chunked : {FALSE}, inflight : {0}, active : {{}},
               cancelled : {{}}, paused : {FALSE}, buffered : {FALSE}, heldDone : {FALSE}, crashed : {FALSE}]
  /\ h2 = [r \in Requests |-> NoStream] /\ ios = {} /\ tasks = <<>> /\ sender = 0
  /\ mode = [r \in Requests |-> "none"] /\ ends = [r \in Requests |-> 0] /\ raw = {} /\ owner = "held"

----------------------------------------------------------------------------
(* What a handler does to the client is a function of W, the state it found.   *)
W == [conn |-> conn, h2 |-> h2, ios |-> ios, ends |-> ends, raw |-> raw]

Becomes(w) == conn' = w.conn /\ h2' = w.h2 /\ ios' = w.ios /\ ends' = w.ends /\ raw' = w.raw

Told(w, r) == IF r = 0 THEN w ELSE [w EXCEPT !.ends[r] = @ + 1]

Starts(w, io) == [w EXCEPT !.ios = @ \cup {io}]

Open(w) == {r \in Requests : w.h2[r].phase = "open"}

(* One entry of h2_pending when Finish tears the client down. *)
Failed(w, r) == LET p == w.h2[r] IN Told(Told(w, IF p.bodyDone THEN 0 ELSE p.hooks), IF p.callback THEN r ELSE 0)

(* callback is moved out and called. *)
CallsBack(w) == [Told(w, w.conn.callback) EXCEPT !.conn.callback = 0]

(* Finish of an HTTP/2 client: the session is closed and every request failed. *)
FinishH2(w) ==
  LET failed == FoldSet(LAMBDA r, v : Failed(v, r), w, Open(w))
  IN IF w.conn.state = "closed" THEN w
     ELSE CallsBack([failed EXCEPT !.conn.state = "closed", !.conn.session = "none", !.conn.paused = FALSE,
                                   !.conn.active = @ \ (Open(w) \cup {w.conn.inflight}), !.conn.cancelled = {},
                                   !.h2 = [r \in Requests |-> IF r \in Open(w) THEN NoStream ELSE w.h2[r]],
                                   !.raw = IF w.conn.session = "up" THEN @ \cup Open(w) ELSE @])

(* Finish of an HTTP/1.1 client: without a response that keeps the connection  *)
(* alive the sockets are closed and the state is terminal.                     *)
FinishH1(w, keep_alive) ==
  LET v == [w EXCEPT !.conn.active = @ \ {w.conn.inflight}]
  IN IF w.conn.state = "closed" THEN v
     ELSE IF keep_alive THEN CallsBack([v EXCEPT !.conn.state = "idle"])
     ELSE CallsBack([v EXCEPT !.conn.state = "closed", !.conn.sock = FALSE])

Finish(w, keep_alive) == IF w.conn.proto = "h2" THEN FinishH2(w) ELSE FinishH1(w, keep_alive)

(* DoWriteRequest dereferences whichever socket is there. *)
DoWriteRequest(w) ==
  LET v == [w EXCEPT !.conn.state = "writing"]
  IN IF w.conn.sock THEN Starts(v, "write") ELSE [v EXCEPT !.conn.crashed = TRUE]

Quietly == UNCHANGED <<tasks, sender, mode, owner>>

Running == ~conn.crashed /\ owner \notin {"destroyed", "used"}

----------------------------------------------------------------------------
(* The sending thread.  Send, SendStreaming and SendBody set the mode of the   *)
(* client before StartRequest has decided anything.                            *)
Mode(m, r, chunked) ==
  [conn EXCEPT !.streaming = m = "stream", !.hooks = IF m = "stream" THEN r ELSE 0, !.upload = m = "upload", !.chunked = chunked]

(* StartRequest up to the point where the request is staged.                   *)
StartRequest(r, m, chunked) ==
  /\ Running /\ owner = "held" /\ sender = 0 /\ mode[r] = "none" /\ \A q \in Requests : q < r => mode[q] # "none"
  /\ mode' = [mode EXCEPT ![r] = m]
  /\ LET c == Mode(m, r, chunked)
         cb == IF m = "stream" THEN 0 ELSE r
     IN \/ /\ conn.state = "closed" /\ Becomes(Told([W EXCEPT !.conn = c], cb)) /\ UNCHANGED <<tasks, sender>>
        \/ /\ conn.state # "closed" /\ conn.proto = "h2" /\ conn.session = "up"      \* PostH2Submit
           /\ conn' = [c EXCEPT !.active = @ \cup {r}]
           /\ h2' = [h2 EXCEPT ![r] = [NoStream EXCEPT !.phase = "queued", !.callback = cb = r]]
           /\ tasks' = Append(tasks, [task |-> "submit", r |-> r]) /\ UNCHANGED <<sender, ios, ends, raw>>
        \/ /\ conn.state \notin {"closed", "idle"} /\ ~(conn.proto = "h2" /\ conn.session = "up")
           /\ Becomes(Told([W EXCEPT !.conn = c], cb)) /\ UNCHANGED <<tasks, sender>>
        \/ /\ conn.state = "idle" /\ ~(conn.proto = "h2" /\ conn.session = "up")
           /\ conn' = [c EXCEPT !.callback = cb, !.inflight = r, !.active = @ \cup {r}, !.uploadDone = FALSE]
           /\ sender' = r /\ UNCHANGED <<h2, ios, ends, raw, tasks>>
  /\ UNCHANGED owner

(* The rest of StartRequest: the connection is reused when it goes to the same *)
(* peer, otherwise a new one is opened.  Nothing looks at the state again.     *)
StartsIo ==
  /\ sender # 0 /\ Running /\ sender' = 0
  /\ \E samePeer, connects \in BOOLEAN :
       Becomes(IF conn.sock /\ samePeer THEN DoWriteRequest(W)
               ELSE LET w == [W EXCEPT !.conn.state = "connecting", !.conn.sock = TRUE]
                    IN IF connects \/ conn.route = "tls" THEN Starts(w, "connect") ELSE Finish(w, FALSE))
  /\ UNCHANGED <<tasks, mode, owner>>

(* Close, HttpRequestHandle::Cancel and Resume post to the I/O thread.         *)
Post(task, r) == tasks' = Append(tasks, [task |-> task, r |-> r])

Posted(task, r) == \E i \in DOMAIN tasks : tasks[i] = [task |-> task, r |-> r]

Close ==
  /\ Running /\ owner = "held" /\ ~Posted("finish", 0) /\ Post("finish", 0)
  /\ UNCHANGED <<conn, h2, ios, sender, mode, ends, raw, owner>>

Cancel(r) ==
  /\ Running /\ mode[r] # "none" /\ r \in conn.active /\ sender = 0 /\ ~Posted("cancel", r) /\ Post("cancel", r)
  /\ UNCHANGED <<conn, h2, ios, sender, mode, ends, raw, owner>>

Resume(r) ==
  /\ Running /\ r \in conn.active /\ (conn.paused \/ h2[r].paused) /\ ~Posted("resume", r) /\ Post("resume", r)
  /\ UNCHANGED <<conn, h2, ios, sender, mode, ends, raw, owner>>

(* The user drops the reference; the destructor runs when nothing else holds   *)
(* one: completions, submits, closes and a pause do, an open stream does not.  *)
Drop ==
  /\ owner = "held" /\ sender = 0 /\ owner' = "dropped" /\ UNCHANGED <<conn, h2, ios, tasks, sender, mode, ends, raw>>

Referenced == ios # {} \/ (\E i \in DOMAIN tasks : tasks[i].task \in {"submit", "finish"}) \/ conn.paused \/ (\E r \in Requests : h2[r].paused)

Destroy ==
  /\ owner = "dropped" /\ Running /\ ~Referenced /\ owner' = "destroyed" /\ Becomes(Finish(W, FALSE))
  /\ UNCHANGED <<tasks, sender, mode>>

----------------------------------------------------------------------------
(* The completions, on the I/O thread. *)
Completes(io) == Running /\ io \in ios
Without(io) == [W EXCEPT !.ios = @ \ {io}]

(* SubmitViaH2: the request takes the mode the client has now, and the hooks   *)
(* that are there now.                                                         *)
SubmitViaH2(w, r, callback, accepted) ==
  LET cb == IF callback THEN r ELSE 0
      hooks == IF w.conn.streaming THEN w.conn.hooks ELSE 0
      taken == [w EXCEPT !.conn.hooks = IF w.conn.streaming THEN 0 ELSE @]
      refused(v) == [Told(v, cb) EXCEPT !.conn.active = @ \ {r}, !.conn.cancelled = @ \ {r}, !.h2[r] = NoStream]
  IN IF w.conn.session # "up" \/ r \in w.conn.cancelled THEN refused(w)
     ELSE IF ~accepted THEN Told(refused(taken), hooks)
     ELSE [taken EXCEPT !.h2[r] = [NoStream EXCEPT !.phase = "open", !.callback = callback, !.hooks = hooks]]

(* OnH2Ready: the session is up at once, the staged request goes onto it. *)
OnH2Ready(w, accepted) ==
  LET c == w.conn
      up == [w EXCEPT !.conn.proto = "h2", !.conn.session = "up", !.conn.sock = FALSE, !.conn.state = "idle", !.conn.inflight = 0, !.conn.callback = 0]
  IN IF c.state = "closed" THEN [w EXCEPT !.conn.proto = "h2", !.conn.session = "up", !.conn.sock = FALSE]
     ELSE SubmitViaH2(up, c.inflight, c.callback # 0, accepted)

(* OnTunnelOrDirectReady: ALPN decides.  A session adopts the TLS socket. *)
Ready(w, alpn) ==
  IF w.conn.sock /\ w.conn.route # "plain" /\ alpn \in {"h2", "h2full"} THEN OnH2Ready(w, alpn = "h2")
  ELSE IF w.conn.sock /\ w.conn.route # "plain" /\ alpn = "strict" THEN Finish(w, FALSE)
  ELSE DoWriteRequest(w)

(* "h2full": the session takes no request; "strict": the client does not speak HTTP/1.1. *)
Alpn == {"h1", "h2", "h2full", "strict"}

OnConnectComplete ==
  /\ Completes("connect")
  /\ \E ok \in BOOLEAN, alpn \in Alpn :
       LET w == Without("connect")
       IN Becomes(IF conn.state # "connecting" THEN w
                  ELSE IF ~ok THEN Finish(w, FALSE)
                  ELSE IF conn.route = "tunnel" THEN Starts([w EXCEPT !.conn.state = "proxying"], "connectWrite")
                  ELSE Ready(w, alpn))
  /\ Quietly

OnConnectWriteComplete ==
  /\ Completes("connectWrite")
  /\ \E ok \in BOOLEAN :
       LET w == Without("connectWrite")
       IN Becomes(IF ~ok THEN Finish(w, FALSE) ELSE IF conn.state = "proxying" THEN Starts(w, "read") ELSE w)
  /\ Quietly

(* The handshake inside the tunnel: its completion looks at no state. *)
OnTunnelHandshake ==
  /\ Completes("handshake")
  /\ \E ok \in BOOLEAN, alpn \in Alpn :
       LET w == Without("handshake") IN Becomes(IF ok THEN Ready(w, alpn) ELSE Finish(w, FALSE))
  /\ Quietly

OnWriteComplete ==
  /\ Completes("write")
  /\ \E ok \in BOOLEAN :
       LET w == Without("write")
       IN Becomes(IF conn.state # "writing" THEN w
                  ELSE IF ~ok THEN Finish(w, FALSE)
                  ELSE IF conn.upload THEN Starts([w EXCEPT !.conn.state = "uploading"], "provider")
                  ELSE Starts([w EXCEPT !.conn.state = "reading"], "read"))
  /\ Quietly

(* PumpUploadWrites with nothing left to write. *)
Uploaded(w) == IF w.conn.state = "uploading" /\ w.conn.uploadDone THEN Starts([w EXCEPT !.conn.uploadDone = FALSE, !.conn.state = "reading"], "read") ELSE w

(* OnUploadChunk: the provider brings a chunk or the end of the body. *)
OnUploadChunk ==
  /\ Completes("provider")
  /\ \E done \in BOOLEAN :
       LET w == Without("provider")
           d == [w EXCEPT !.conn.uploadDone = TRUE]
       IN Becomes(IF conn.state # "uploading" THEN w
                  ELSE IF ~done THEN Starts(w, "bodyWrite")
                  ELSE IF conn.chunked THEN Starts(d, "bodyWrite") ELSE Uploaded(d))
  /\ Quietly

OnBodyWritten ==
  /\ Completes("bodyWrite")
  /\ \E ok \in BOOLEAN :
       LET w == Without("bodyWrite")
       IN Becomes(IF ~ok THEN Finish(w, FALSE) ELSE IF conn.uploadDone THEN Uploaded(w) ELSE Starts(w, "provider"))
  /\ Quietly

(* HandleConnectResponse: the rest of the head is still to come, the tunnel is *)
(* open, or it was refused.                                                    *)
HandleConnectResponse ==
  /\ Completes("read") /\ conn.state = "proxying"
  /\ \E got \in {"more", "open", "refused"} :
       LET w == Without("read")
       IN Becomes(CASE got = "more" -> Starts(w, "read") [] got = "open" -> Starts(w, "handshake") [] OTHER -> Finish(w, FALSE))
  /\ Quietly

(* OnReadComplete, ProcessPendingData.  on_body is told of the end by the      *)
(* parser, or when the peer closes a body that has no length.                  *)
Ended(w) == Told(w, w.conn.hooks)

OnReadEnds ==
  /\ Completes("read") /\ conn.state # "proxying"
  /\ LET w == Without("read")
     IN Becomes(IF conn.state # "reading" THEN w ELSE Finish(IF conn.streaming THEN Ended(w) ELSE w, FALSE))
  /\ Quietly

OnReadParses ==
  /\ Completes("read") /\ conn.state = "reading"
  /\ \/ Becomes(W)                                                                  \* more body, the next read
     \/ Becomes(Finish(Without("read"), FALSE))                                      \* parse error
     \/ \E keep \in BOOLEAN : Becomes(Finish(Ended(Without("read")), keep))          \* complete
  /\ Quietly

(* on_body returned false: what the parser still finds in the same bytes is    *)
(* held back, the end of the response too.                                     *)
OnReadPauses ==
  /\ Completes("read") /\ conn.state = "reading" /\ conn.hooks # 0
  /\ \E more, done \in BOOLEAN :
       Becomes([Without("read") EXCEPT !.conn.paused = TRUE, !.conn.buffered = more, !.conn.heldDone = done])
  /\ Quietly

----------------------------------------------------------------------------
(* HTTP/2. *)
(* FinishH2Stream: a paused stream keeps its end for Resume. *)
FinishH2Stream(w, r, clean) ==
  LET p == w.h2[r]
      gone == [w EXCEPT !.h2[r] = NoStream, !.conn.active = @ \ {r}]
  IN IF p.paused THEN [w EXCEPT !.h2[r].heldClose = TRUE]
     ELSE IF p.callback THEN Told(gone, r)
     ELSE IF ~clean /\ ~p.bodyDone THEN Told(gone, p.hooks) ELSE gone

(* The session hands on what came for an open stream: on_body_fn, on_close.    *)
StreamBody(r) ==
  /\ Running /\ conn.session = "up" /\ h2[r].phase = "open" /\ h2[r].hooks # 0 /\ ~h2[r].bodyDone /\ ~h2[r].heldClose
  /\ \/ h2[r].paused /\ Becomes([W EXCEPT !.h2[r].buffered = TRUE])
     \/ h2[r].paused /\ Becomes([W EXCEPT !.h2[r].heldDone = TRUE])
     \/ ~h2[r].paused /\ Becomes([W EXCEPT !.h2[r].paused = TRUE])
     \/ ~h2[r].paused /\ Becomes(Told([W EXCEPT !.h2[r].bodyDone = TRUE], h2[r].hooks))
  /\ Quietly

(* A clean end comes after the end of the body, for a stream with hooks. *)
StreamCloses(r) ==
  /\ Running /\ conn.session = "up" /\ h2[r].phase = "open" /\ ~h2[r].heldClose
  /\ \E clean \in BOOLEAN :
       /\ clean => h2[r].hooks = 0 \/ h2[r].bodyDone \/ h2[r].heldDone
       /\ Becomes(FinishH2Stream(W, r, clean))
  /\ Quietly

SessionFails ==
  /\ Running /\ conn.session = "up"
  /\ Becomes([FoldSet(LAMBDA r, w : FinishH2Stream(w, r, FALSE), W, {r \in Open(W) : ~h2[r].heldClose}) EXCEPT !.conn.session = "down"])
  /\ Quietly

(* A session closed with streams on it drains: what comes for them still calls *)
(* the lambdas that captured Impl, whether or not the client is there.         *)
SessionDrains(r) ==
  /\ r \in raw /\ raw' = raw \ {r} /\ owner' = IF owner = "destroyed" THEN "used" ELSE owner
  /\ UNCHANGED <<conn, h2, ios, tasks, sender, mode, ends>>

----------------------------------------------------------------------------
(* The posted tasks. *)
Runs(task) == tasks # <<>> /\ Head(tasks).task = task /\ tasks' = Tail(tasks) /\ ~conn.crashed

RunSubmit ==
  /\ Runs("submit") /\ (\E accepted \in BOOLEAN : Becomes(SubmitViaH2(W, Head(tasks).r, h2[Head(tasks).r].callback, accepted)))
  /\ UNCHANGED <<sender, mode, owner>>

RunFinish == Runs("finish") /\ Becomes(Finish(W, FALSE)) /\ UNCHANGED <<sender, mode, owner>>

(* CancelGeneration: an HTTP/2 stream is reset, a request not yet submitted is *)
(* remembered, an HTTP/1.1 request takes its connection with it.  A handle     *)
(* does nothing once its request is not active or the client is gone.          *)
CancelGeneration(r) ==
  IF r \notin conn.active \/ owner \in {"destroyed", "used"} \/ conn.state = "closed" THEN W
  ELSE IF conn.proto = "h2"
       THEN IF h2[r].phase = "open" /\ conn.session = "up" /\ ~h2[r].heldClose THEN FinishH2Stream(W, r, FALSE)
            ELSE IF h2[r].phase = "open" THEN W ELSE [W EXCEPT !.conn.cancelled = @ \cup {r}]
       ELSE IF conn.inflight = r /\ conn.state # "idle" THEN Finish(W, FALSE) ELSE W

RunCancel == Runs("cancel") /\ Becomes(CancelGeneration(Head(tasks).r)) /\ UNCHANGED <<sender, mode, owner>>

(* A handle used on the I/O thread does not post: it runs before a submit that waits. *)
CancelInline ==
  /\ Running /\ \E r \in conn.active : sender = 0 /\ Becomes(CancelGeneration(r))
  /\ Quietly

(* ResumeGeneration: what was held back is delivered - on_body may pause       *)
(* again - then the end, if it was held back; otherwise reading goes on.       *)
ResumeH2(r, again) ==
  LET p == h2[r]
      drained == [W EXCEPT !.h2[r].paused = FALSE, !.h2[r].buffered = FALSE, !.h2[r].heldDone = FALSE,
                           !.h2[r].bodyDone = @ \/ p.heldDone, !.h2[r].heldClose = FALSE]
      told == IF p.heldDone THEN Told(drained, p.hooks) ELSE drained
  IN IF ~p.paused THEN W
     ELSE IF p.buffered /\ again THEN [W EXCEPT !.h2[r].buffered = FALSE]
     ELSE IF p.heldClose THEN FinishH2Stream(told, r, p.heldDone) ELSE told

ResumeH1(again, keep) ==
  LET drained == [W EXCEPT !.conn.paused = FALSE, !.conn.buffered = FALSE, !.conn.heldDone = FALSE]
  IN IF ~(conn.state = "reading" /\ conn.paused) THEN W
     ELSE IF conn.buffered /\ again /\ conn.hooks # 0 THEN [W EXCEPT !.conn.buffered = FALSE]
     ELSE IF conn.heldDone THEN Finish(Ended(drained), keep) ELSE Starts(drained, "read")

RunResume ==
  /\ Runs("resume")
  /\ \E again, keep \in BOOLEAN :
       LET r == Head(tasks).r
       IN Becomes(IF r \notin conn.active \/ owner \in {"destroyed", "used"} \/ conn.state = "closed" THEN W
                  ELSE IF conn.proto = "h2" THEN ResumeH2(r, again) ELSE ResumeH1(again, keep))
  /\ UNCHANGED <<sender, mode, owner>>

Next ==
  \/ \E r \in Requests : Cancel(r) \/ Resume(r) \/ StreamBody(r) \/ StreamCloses(r) \/ SessionDrains(r)
  \/ \E r \in Requests : \E m \in Modes[r], chunked \in BOOLEAN : (chunked => m = "upload") /\ StartRequest(r, m, chunked)
  \/ StartsIo \/ Close \/ Drop \/ Destroy
  \/ OnConnectComplete \/ OnConnectWriteComplete \/ OnTunnelHandshake \/ OnWriteComplete
  \/ OnUploadChunk \/ OnBodyWritten \/ HandleConnectResponse \/ OnReadEnds \/ OnReadParses \/ OnReadPauses
  \/ CancelInline \/ SessionFails \/ RunSubmit \/ RunFinish \/ RunCancel \/ RunResume

Spec == Init /\ [][Next]_httpVars

----------------------------------------------------------------------------
TypeOK ==
  /\ conn.state \in {"idle", "connecting", "proxying", "writing", "uploading", "reading", "closed"}
  /\ conn.proto \in {"h1", "h2"} /\ conn.session \in {"none", "up", "down"}
  /\ conn.callback \in Requests \cup {0} /\ conn.active \subseteq Requests /\ sender \in Requests \cup {0}
  /\ ios \subseteq {"connect", "connectWrite", "handshake", "write", "provider", "bodyWrite", "read"}
  /\ \A r \in Requests : ends[r] \in 0 .. 2 /\ h2[r].phase \in {"none", "queued", "open"}
  /\ raw \subseteq Requests /\ owner \in {"held", "dropped", "destroyed", "used"}

(* No request is told twice that it is over, whatever closes, cancels, pauses, *)
(* resumes and fails in between.                                               *)
EndsOnce == \A r \in Requests : ends[r] <= 1

(* When nothing is left to happen, every request with a response callback has  *)
(* had it: also the one that shared the client with others, was cancelled      *)
(* before it was submitted, or lost its connection.                            *)
Quiet == ios = {} /\ tasks = <<>> /\ sender = 0 /\ ~conn.paused /\ Open(W) = {} /\ ~conn.crashed

CallbacksCome == Quiet => \A r \in Requests : mode[r] \in {"buffered", "upload"} => ends[r] = 1

(* Violated: a streamed response "finishes with (nullptr, 0, true)".           *)
StreamsEnd == Quiet => \A r \in Requests : mode[r] = "stream" => ends[r] = 1

(* Violated: "Close the underlying connection and put the client in a terminal *)
(* state."                                                                     *)
ClosedIsTerminal == [][conn.state = "closed" => conn'.state = "closed"]_httpVars

(* Violated: "Destruction: any thread, any time - safe while a request is in   *)
(* flight."                                                                    *)
DestructionIsSafe == owner # "used"

-----------------------------------------------------------------------------
(***************************************************************************)
(* HttpClient::SendRedirecting, the decision of redirect_handler.cpp, and  *)
(* the cookie jar (cookie.cpp) that every hop reads and writes.  A chain   *)
(* of hops, one request in flight at a time, on one client whose           *)
(* connection is kept from hop to hop; the servers answer with anything.   *)
(* A URL is scheme, host and path; the port is the scheme's.  A path is    *)
(* its segments.  "s.a" is a subdomain of "a".  A TLS context is named by  *)
(* the host it verifies.                                                   *)
(***************************************************************************)
CONSTANTS Urls, ChainStarts, Methods, Statuses, SetCookies, Protocols, MaxRedirects, MaxChains, MaxTime

VARIABLES
  opts,     \* RedirectOptions: is there a resolver, an ssl_context_provider; the protocol TLS negotiates
  state,    \* "idle", "flight", "resolving", "done"
  req,      \* the hop's request: [url, method, body, auth, ctx]
  chain,    \* FollowState: [hops_left, seen], and the first URL and the requests sent
  chainConn,     \* the client's connection: [up, peer, ctx, proto, last_url]
  jar,      \* cookies_
  now,
  hop,      \* history: the last request as the server saw it
  ended,    \* history: chains begun and calls of final_cb
  chainGone      \* history: cookies whose last Set-Cookie said Max-Age=0

redirectVars == <<opts, state, req, chain, chainConn, jar, now, hop, ended, chainGone>>

None == <<>>
Origin(u) == <<u.scheme, u.host>>
NoConn(last) == [up |-> FALSE, peer |-> <<>>, ctx |-> "none", proto |-> "h1", last_url |-> last]

ChainInit ==
  /\ opts \in [resolver : BOOLEAN, provider : BOOLEAN, proto : Protocols]
  /\ state = "idle" /\ req = None /\ chain = None /\ chainConn = NoConn(None)
  /\ jar = <<>> /\ now = 0 /\ hop = None /\ ended = [begun |-> 0, told |-> 0] /\ chainGone = {}

----------------------------------------------------------------------------
(* The jar. *)
DomainMatches(host, domain) == host = domain \/ (host = "s.a" /\ domain = "a")
PathMatches(path, cookie_path) == IsPrefix(cookie_path, path)
DefaultPath(path) == IF path = <<>> THEN <<>> ELSE Front(path)
IsExpired(c) == c.expires # 0 /\ c.expires <= now

(* Cookie::Matches.  The mutant lets a host-only cookie go to subdomains. *)
HostMatchesDomain(c, host) == DomainMatches(host, c.domain)
HostMatches(c, host) == IF c.host_only THEN host = c.domain ELSE DomainMatches(host, c.domain)
Matches(c, url) == ~IsExpired(c) /\ (c.secure => url.scheme = "https") /\ HostMatches(c, url.host) /\ PathMatches(url.path, c.path)
GetCookieHeader(cookies, url) == SelectSeq(cookies, LAMBDA c : Matches(c, url))

(* Cookie::Parse: a Domain that does not cover the host refuses the cookie.    *)
(* Max-Age 0 has expired at once.                                              *)
Parses(sc, url) == sc.domain # "" => DomainMatches(url.host, sc.domain)
Parsed(sc, url, by) ==
  [domain |-> IF sc.domain = "" THEN url.host ELSE sc.domain, host_only |-> sc.domain = "", secure |-> sc.secure,
   path |-> DefaultPath(url.path), expires |-> IF sc.age = "zero" THEN -1 ELSE IF sc.age = "one" THEN now + 1 ELSE 0, by |-> by]
Expired(c) == c.expires = -1 \/ IsExpired(c)

(* CookieJar::SetCookie. *)
SetCookie(c) ==
  LET same == {i \in DOMAIN jar : jar[i].domain = c.domain /\ jar[i].path = c.path}
  IN IF Expired(c) THEN jar ELSE IF same = {} THEN Append(jar, c) ELSE [i \in DOMAIN jar |-> IF i \in same THEN c ELSE jar[i]]

(* CollectResponseCookies, for the URL the client remembers; by is the host    *)
(* that answered.                                                              *)
Set(sc) == Parsed(sc, chainConn.last_url, req.url.host)
CollectResponseCookies(sc) == IF sc # None /\ Parses(sc, chainConn.last_url) THEN SetCookie(Set(sc)) ELSE jar
Collects(sc) ==
  /\ jar' = CollectResponseCookies(sc)
  /\ chainGone' = IF sc = None \/ ~Parses(sc, chainConn.last_url) THEN chainGone
             ELSE LET key == {<<Set(sc).domain, Set(sc).path>>} IN IF Expired(Set(sc)) THEN chainGone \cup key ELSE chainGone \ key

----------------------------------------------------------------------------
(* Send: an established h2 session takes every request; else the connection    *)
(* stays if its endpoint is the target's.                                      *)
Reuses(r) == chainConn.up /\ (chainConn.proto = "h2" \/ chainConn.peer = Origin(r.url))

Send(r, cookies) ==
  LET opened == [up |-> TRUE, peer |-> Origin(r.url), ctx |-> r.ctx, proto |-> IF r.ctx = "none" THEN "h1" ELSE opts.proto, last_url |-> r.url]
      used == IF Reuses(r) THEN [chainConn EXCEPT !.last_url = IF chainConn.proto = "h2" THEN @ ELSE r.url] ELSE opened
  IN /\ chainConn' = used /\ req' = r /\ state' = "flight"
     /\ hop' = [url |-> r.url, method |-> r.method, body |-> r.body, auth |-> r.auth, peer |-> used.peer, ctx |-> used.ctx,
                cookies |-> IF r.auth THEN <<>> ELSE GetCookieHeader(cookies, r.url)]

(* The caller's request carries Authorization and a Cookie header of its own,  *)
(* or neither.                                                                 *)
SendRedirecting(url, method, auth) ==
  /\ state \in {"idle", "done"} /\ ended.begun < MaxChains /\ ended' = [ended EXCEPT !.begun = @ + 1]
  /\ chain' = [hops_left |-> MaxRedirects, seen |-> {}, first |-> url, sent |-> 1]
  /\ Send([url |-> url, method |-> method, body |-> method = "POST", auth |-> auth, ctx |-> IF url.scheme = "https" THEN url.host ELSE "none"], jar)
  /\ UNCHANGED <<opts, jar, now, chainGone>>

Deliver == ended' = [ended EXCEPT !.told = @ + 1] /\ state' = "done" /\ UNCHANGED <<req, hop>>

----------------------------------------------------------------------------
(* ComputeRedirect, and the loop guard before it. *)
Follows(code, location) == req.url \notin chain.seen /\ chain.hops_left > 0 /\ code \in {302, 307} /\ location # None
MethodChanges(code) == code = 302 /\ req.method = "POST"

(* The next request is made from the one just answered. *)
Credentials(same) == req.auth /\ same
NextRequest(code, target) ==
  [req EXCEPT !.url = target, !.method = IF MethodChanges(code) THEN "GET" ELSE @, !.body = IF MethodChanges(code) THEN FALSE ELSE @,
              !.auth = Credentials(Origin(req.url) = Origin(target))]

HopSpent == chain.hops_left - 1
Advances == chain' = [chain EXCEPT !.seen = @ \cup {req.url}, !.hops_left = HopSpent, !.sent = @ + 1]

Answered(sc) == state = "flight" /\ Collects(sc) /\ UNCHANGED <<opts, now>>

OnFinalResponse(code, location, sc) ==
  Answered(sc) /\ ~Follows(code, location) /\ Deliver /\ UNCHANGED <<chain, chainConn>>

OnRedirectHome(code, location, sc) ==
  /\ Answered(sc) /\ Follows(code, location) /\ Origin(location) = Origin(req.url)
  /\ Advances /\ Send(NextRequest(code, location), CollectResponseCookies(sc)) /\ UNCHANGED ended

OnRedirectAway(code, location, sc) ==
  /\ Answered(sc) /\ Follows(code, location) /\ Origin(location) # Origin(req.url)
  /\ IF opts.resolver THEN Advances /\ state' = "resolving" /\ req' = NextRequest(code, location) /\ UNCHANGED <<hop, ended>>
     ELSE Deliver /\ UNCHANGED chain
  /\ UNCHANGED chainConn

(* The connection broke: the response is null. *)
OnFailure ==
  /\ state = "flight" /\ Deliver /\ chainConn' = NoConn(chainConn.last_url)
  /\ UNCHANGED <<opts, chain, jar, now, chainGone>>

(* The resolver's answer.  A provider gives a context for the https targets;   *)
(* null, or no provider, keeps the one at hand.                                *)
NextContext == IF opts.provider /\ req.url.scheme = "https" THEN req.url.host ELSE req.ctx
OnResolved(found) ==
  /\ state = "resolving"
  /\ IF found THEN Send([req EXCEPT !.ctx = NextContext], jar) /\ UNCHANGED ended ELSE Deliver /\ UNCHANGED chainConn
  /\ UNCHANGED <<opts, chain, jar, now, chainGone>>

Tick == now < MaxTime /\ now' = now + 1 /\ UNCHANGED <<opts, state, req, chain, chainConn, jar, hop, ended, chainGone>>

ChainNext ==
  \/ \E u \in ChainStarts, m \in Methods, a \in BOOLEAN : SendRedirecting(u, m, a)
  \/ \E code \in Statuses, sc \in SetCookies \cup {None}, l \in Urls \cup {None} :
       OnFinalResponse(code, l, sc) \/ OnRedirectHome(code, l, sc) \/ OnRedirectAway(code, l, sc)
  \/ OnFailure \/ Tick
  \/ \E found \in BOOLEAN : OnResolved(found)

ChainSpec == ChainInit /\ [][ChainNext]_redirectVars

----------------------------------------------------------------------------
ChainTypeOK == state \in {"idle", "flight", "resolving", "done"} /\ ended.told <= ended.begun /\ Len(jar) <= 4

(* Every chain ends in exactly one call of the callback, after at most         *)
(* max_redirects hops more than the first request.                             *)
ChainEnds ==
  /\ ended.told = ended.begun - IF state \in {"idle", "done"} THEN 0 ELSE 1
  /\ ended.begun > 0 => chain.sent <= MaxRedirects + 1

(* What the caller put in the request to prove who it is never goes to another *)
(* origin, nor comes back when the chain does; the body goes only with POST.   *)
(* A cookie goes only where the host that set it allows: a host-only cookie to *)
(* that host, a secure one over https, none that expired.  (Over an h2         *)
(* session the client does not know who set it.)                               *)
GoesToWhomItMay(c) == (c.host_only => hop.url.host = c.by) /\ DomainMatches(hop.url.host, c.domain) /\ (c.secure => hop.url.scheme = "https")
CredentialsStay ==
  hop # None => /\ hop.auth => Origin(hop.url) = Origin(chain.first)
                /\ hop.body => hop.method = "POST"
                /\ opts.proto = "h1" => \A i \in DOMAIN hop.cookies : GoesToWhomItMay(hop.cookies[i])

(* Violated on h2: "using the most recent request URL": a request on an        *)
(* established session does not renew last_request_url_.                       *)
CookieKnowsItsHost == hop # None => \A i \in DOMAIN hop.cookies : GoesToWhomItMay(hop.cookies[i])

(* Violated on h2: "Reuse is only valid when the peer endpoint matches - a     *)
(* different endpoint (e.g. a cross-host redirect hop) must tear down the old  *)
(* connection and reconnect."                                                  *)
RightPeer == hop # None => hop.peer = Origin(hop.url)

(* Violated: an https target of an http request without a provider is asked in *)
(* plain text, an http target of an https request over TLS.                    *)
TlsAsScheme == hop # None /\ opts.proto = "h1" => (hop.ctx # "none") = (hop.url.scheme = "https")

(* Violated: "never revisit the same origin+path+query": it is visited once    *)
(* more before the guard looks.                                                *)
NeverRevisits == state = "flight" => req.url \notin chain.seen

(* Violated: a cookie that the server takes back (Max-Age=0) stays in the jar. *)
TakenBack == \A i \in DOMAIN jar : <<jar[i].domain, jar[i].path>> \notin chainGone

-----------------------------------------------------------------------------
(***************************************************************************)
(* The pool of keep-alive clients (http_client_pool.cpp): idle clients in  *)
(* one queue per key - endpoint and TLS context - Acquire from the front   *)
(* after a look at each one's age and connection, Release at the back,     *)
(* Flush.  The callers release a client they acquired, once, after their   *)
(* request.                                                                *)
(***************************************************************************)
CONSTANTS Clients, Keys, Limits, IdleTimeout, PoolMaxTime

VARIABLES
  idle_clients,   \* key -> queue of [c, at]
  max_idle,       \* max_idle_per_endpoint
  client,         \* client -> [conn, key]: "none" (not made), "new", "open", "dropped" (by the peer), "closed"
  holder,         \* client -> "nobody", "caller", "returning" (Release, before the lock)
  poolNow,
  reused          \* history: clients handed out with a connection that was closed or too old

poolVars == <<idle_clients, max_idle, client, holder, poolNow, reused>>

PoolInit ==
  /\ idle_clients = [k \in Keys |-> <<>>] /\ max_idle \in Limits
  /\ client = [c \in Clients |-> [conn |-> "none", key |-> 0]] /\ holder = [c \in Clients |-> "nobody"]
  /\ poolNow = 0 /\ reused = {}

(* is_connected and Peek: the probe sees a connection the peer dropped. *)
is_connected(c) == client[c].conn \in {"open", "dropped"}
Peek(c) == client[c].conn = "open"
Closed(cs) == [c \in Clients |-> IF c \in cs THEN [client[c] EXCEPT !.conn = "closed"] ELSE client[c]]

----------------------------------------------------------------------------
(* Acquire under the lock: the clients in front of the first usable one are    *)
(* closed.                                                                     *)
PoolExpired(e) == IdleTimeout > 0 /\ poolNow - e.at >= IdleTimeout
Usable(e) == is_connected(e.c) /\ ~PoolExpired(e) /\ Peek(e.c)
Acquire(k) ==
  LET q == idle_clients[k]
      good == {i \in DOMAIN q : Usable(q[i])}
      first == CHOOSE i \in good : \A j \in good : i <= j
      passed == {q[i].c : i \in IF good = {} THEN DOMAIN q ELSE 1..(first - 1)}
  IN /\ IF good = {}
        THEN \E c \in Clients :
               /\ client[c].conn = "none" /\ holder' = [holder EXCEPT ![c] = "caller"]
               /\ client' = [Closed(passed) EXCEPT ![c] = [conn |-> "new", key |-> k]]
               /\ idle_clients' = [idle_clients EXCEPT ![k] = <<>>] /\ UNCHANGED reused
        ELSE /\ holder' = [holder EXCEPT ![q[first].c] = "caller"] /\ client' = Closed(passed)
             /\ idle_clients' = [idle_clients EXCEPT ![k] = SubSeq(q, first + 1, Len(q))]
             /\ reused' = IF client[q[first].c].conn # "open" \/ client[q[first].c].key # k \/ (IdleTimeout > 0 /\ poolNow - q[first].at >= IdleTimeout)
                          THEN reused \cup {q[first].c} ELSE reused
     /\ UNCHANGED <<max_idle, poolNow>>

(* The caller's request: it connects, or finds the connection gone. *)
Use(c, poolEnds) ==
  /\ holder[c] = "caller" /\ client[c].conn \in {"new", "open", "dropped"} /\ (client[c].conn = "dropped" => poolEnds = "closed")
  /\ client' = [client EXCEPT ![c].conn = poolEnds] /\ UNCHANGED <<idle_clients, max_idle, holder, poolNow, reused>>

(* Release: the connection is looked at before the lock is taken. *)
Release(c) ==
  /\ holder[c] = "caller" /\ client[c].conn # "new"
  /\ holder' = [holder EXCEPT ![c] = IF is_connected(c) THEN "returning" ELSE "nobody"]
  /\ UNCHANGED <<idle_clients, max_idle, client, poolNow, reused>>
ClosesDropped(c) == Closed({c})
Return(c) ==
  /\ holder[c] = "returning" /\ holder' = [holder EXCEPT ![c] = "nobody"]
  /\ LET k == client[c].key IN
     IF Len(idle_clients[k]) >= max_idle THEN client' = ClosesDropped(c) /\ UNCHANGED idle_clients
     ELSE idle_clients' = [idle_clients EXCEPT ![k] = Append(@, [c |-> c, at |-> poolNow])] /\ UNCHANGED client
  /\ UNCHANGED <<max_idle, poolNow, reused>>

Flush ==
  /\ \E k \in Keys : idle_clients[k] # <<>>
  /\ client' = Closed(UNION {{e.c : e \in Range(idle_clients[k])} : k \in Keys}) /\ idle_clients' = [k \in Keys |-> <<>>]
  /\ UNCHANGED <<max_idle, holder, poolNow, reused>>
SetMaxIdlePerEndpoint(n) == n # max_idle /\ max_idle' = n /\ UNCHANGED <<idle_clients, client, holder, poolNow, reused>>

PeerDrops(c) == client[c].conn = "open" /\ client' = [client EXCEPT ![c].conn = "dropped"] /\ UNCHANGED <<idle_clients, max_idle, holder, poolNow, reused>>
PoolTick == poolNow < PoolMaxTime /\ poolNow' = poolNow + 1 /\ UNCHANGED <<idle_clients, max_idle, client, holder, reused>>

PoolNext ==
  \/ Flush \/ PoolTick
  \/ \E n \in Limits : SetMaxIdlePerEndpoint(n)
  \/ \E k \in Keys : Acquire(k)
  \/ \E c \in Clients : \/ Release(c) \/ Return(c) \/ PeerDrops(c)
                        \/ \E poolEnds \in {"open", "closed"} : Use(c, poolEnds)

PoolSpec == PoolInit /\ [][PoolNext]_poolVars

----------------------------------------------------------------------------
PoolTypeOK == max_idle \in Limits /\ reused \subseteq Clients /\ holder \in [Clients -> {"nobody", "caller", "returning"}]

(* However acquires, releases, flushes and the peers cross: a client is idle   *)
(* once and never while a caller has it, no connection is left open that       *)
(* neither a caller nor the pool has, and none is handed out for another key,  *)
(* past its idle time or known to be gone.                                     *)
Idle(k) == {e.c : e \in Range(idle_clients[k])}
PooledOnce ==
  /\ reused = {} /\ \A k \in Keys : IsInjective([i \in DOMAIN idle_clients[k] |-> idle_clients[k][i].c])
  /\ \A k, l \in Keys : k # l => Idle(k) \cap Idle(l) = {}
  /\ \A c \in Clients :
       /\ (\E k \in Keys : c \in Idle(k)) => holder[c] = "nobody" /\ client[c].conn # "closed"
       /\ client[c].conn \in {"open", "dropped"} /\ holder[c] = "nobody" => \E k \in Keys : c \in Idle(k)
=============================================================================
