-------------------------------- MODULE Http2 --------------------------------
(***************************************************************************)
(* HTTP/2 (src/neixx/net/http2): the client's session and the server's     *)
(* engine, both over nghttp2.                                              *)
(***************************************************************************)
EXTENDS Integers, Sequences, FiniteSets, SequencesExt

-----------------------------------------------------------------------------
(***************************************************************************)
(* Http2ClientSession (http2_client_session.cpp): one connection, its      *)
(* streams, the upload of request bodies, GOAWAY, read backpressure and    *)
(* the teardown.  nghttp2 is external: while it parses a read it calls     *)
(* into the session, and the session into the user, who may call back -    *)
(* close the session, pause, resume, submit.  Everything runs on the I/O   *)
(* thread; other threads post.                                             *)
(***************************************************************************)
CONSTANTS Streams,     \* 1, 2, ... in the order they are submitted
          Bodies,      \* per stream: "none", "static" (request.body), "provider"
          MaxChunks,   \* chunks a body provider brings
          MaxReaders   \* reads in flight beyond which nobody pauses

VARIABLES
  ses,       \* state, session (nghttp2's), paused, closing, goaway; dead: nghttp2 terminated it with streams open
  strm,      \* streams_: one StreamContext per stream
  readers,   \* reads given to the TLS socket that have not completed
  writing,   \* 0: nothing in flight, 1: a write, 2: a write and more in send_buffer
  parsing,   \* nghttp2 is inside nghttp2_session_mem_recv
  inside,    \* the user callback nghttp2's caller is in: "none", "body", "close"
  posted,    \* tasks posted to the I/O thread
  closes,    \* calls of on_close per stream
  broken     \* "freed": nghttp2 goes on with a session that was deleted under it

http2Vars == <<ses, strm, readers, writing, parsing, inside, posted, closes, broken>>

NoContext == [phase |-> "none", body |-> "none", chunks |-> 0, brought |-> 0, upload_done |-> FALSE, awaiting |-> FALSE, deferred |-> FALSE,
              end_sent |-> FALSE, ended |-> FALSE, reset |-> FALSE]

Init ==
  /\ ses = [state |-> "idle", session |-> FALSE, paused |-> FALSE, closing |-> FALSE, goaway |-> FALSE, dead |-> FALSE]
  /\ strm = [s \in Streams |-> NoContext] /\ readers = 0 /\ writing = 0 /\ parsing = FALSE /\ inside = "none"
  /\ posted = <<>> /\ closes = [s \in Streams |-> 0] /\ broken = "no"

Open == {s \in Streams : strm[s].phase = "open"}

----------------------------------------------------------------------------
(* PumpSession for one stream: what is queued is sent, the provider is asked   *)
(* for more, and DataReadCallback answers EOF or DEFERRED when nothing is      *)
(* queued.  PullUpload asks nobody for a static body.                          *)
Pumped(p) ==
  IF p.phase # "open" \/ p.body = "none" \/ p.deferred \/ p.end_sent THEN p
  ELSE [p EXCEPT !.chunks = 0, !.awaiting = ~p.upload_done, !.deferred = ~p.upload_done, !.end_sent = p.upload_done]

(* FlushPendingWrites: one write at a time. *)
Flushed == IF writing = 0 THEN 1 ELSE 2

(* DoCloseTransport: the socket is closed - its reads and writes complete and  *)
(* find a closed session -, nghttp2 freed, and every stream finished.          *)
Teardown ==
  /\ ses' = [ses EXCEPT !.state = "closed", !.session = FALSE]
  /\ strm' = [s \in Streams |-> IF s \in Open THEN [strm[s] EXCEPT !.phase = "gone", !.ended = TRUE] ELSE strm[s]]
  /\ closes' = [s \in Streams |-> IF s \in Open THEN closes[s] + 1 ELSE closes[s]]
  /\ broken' = IF inside # "none" THEN "freed" ELSE broken

(* FailSession *)
FailSession ==
  IF ses.state = "closed" THEN UNCHANGED <<ses, strm, closes, broken>> ELSE Teardown

(* The callbacks run while nghttp2 parses; what is outside waits for them. *)
OnThread == broken = "no" /\ ~parsing /\ inside = "none"

----------------------------------------------------------------------------
(* DoConnect or DoAdopt, OnTlsHandshake: SETTINGS are submitted, the read loop *)
(* starts.                                                                     *)
Connect ==
  /\ OnThread /\ ses.state = "idle" /\ ses' = [ses EXCEPT !.state = "connecting"]
  /\ UNCHANGED <<strm, readers, writing, parsing, inside, posted, closes, broken>>

OnTlsHandshake ==
  /\ OnThread /\ ses.state = "connecting"
  /\ \/ /\ ses' = [ses EXCEPT !.state = "connected", !.session = TRUE] /\ readers' = 1 /\ writing' = Flushed
     \/ ses' = [ses EXCEPT !.state = "closed"] /\ UNCHANGED <<readers, writing>>      \* FinishConnect
  /\ UNCHANGED <<strm, parsing, inside, posted, closes, broken>>

(* SubmitRequest, SubmitRequestWithBody: also from inside a callback.  The     *)
(* static body is queued, nothing says that it is all.                         *)
StaticDone == FALSE

Submitted(b) ==
  [NoContext EXCEPT !.phase = "open", !.body = b, !.chunks = IF b = "static" THEN 1 ELSE 0, !.upload_done = b = "static" /\ StaticDone]

SubmitRequest(s, b) ==
  /\ broken = "no" /\ strm[s].phase = "none" /\ \A t \in Streams : t < s => strm[t].phase # "none"
  /\ ses.state = "connected" /\ ~ses.closing /\ ~ses.goaway
  /\ strm' = [strm EXCEPT ![s] = IF parsing THEN Submitted(b) ELSE Pumped(Submitted(b))] /\ writing' = Flushed
  /\ UNCHANGED <<ses, readers, parsing, inside, posted, closes, broken>>

(* OnUploadChunk: the provider of s brings a chunk or the end of the body. *)
OnUploadChunk(s) ==
  /\ OnThread /\ ses.state = "connected" /\ strm[s].phase = "open" /\ strm[s].body = "provider" /\ strm[s].awaiting
  /\ \E done \in BOOLEAN :
       /\ done \/ strm[s].brought < MaxChunks
       /\ strm' = [strm EXCEPT ![s] = Pumped([@ EXCEPT !.awaiting = FALSE, !.deferred = FALSE, !.upload_done = done,
                                                       !.chunks = IF done THEN 0 ELSE 1, !.brought = @ + IF done THEN 0 ELSE 1])]
  /\ writing' = Flushed
  /\ UNCHANGED <<ses, readers, parsing, inside, posted, closes, broken>>

----------------------------------------------------------------------------
(* OnReadComplete: end of file and errors fail the session; otherwise nghttp2  *)
(* parses the bytes, frame by frame.                                           *)
OnReadFails ==
  /\ OnThread /\ readers > 0 /\ readers' = readers - 1
  /\ IF ses.state # "connected" THEN UNCHANGED <<ses, strm, closes, broken>> ELSE Teardown
  /\ UNCHANGED <<writing, parsing, inside, posted>>

OnReadComplete ==
  /\ OnThread /\ readers > 0 /\ ses.state = "connected" /\ readers' = readers - 1 /\ parsing' = TRUE
  /\ UNCHANGED <<ses, strm, writing, inside, posted, closes, broken>>

(* OnFrameRecvCallback, OnDataChunkRecvCallback: on_body, at most once with    *)
(* the end of the stream.                                                      *)
OnData(s) ==
  /\ parsing /\ inside = "none" /\ broken = "no" /\ strm[s].phase = "open" /\ ~strm[s].ended
  /\ \E end \in BOOLEAN : strm' = [strm EXCEPT ![s].ended = end]
  /\ inside' = "body"
  /\ UNCHANGED <<ses, readers, writing, parsing, posted, closes, broken>>

(* MaybeCloseAfterDrain posts the teardown: nghttp2 is still on the stack. *)
DrainedBy(open) == ses.state = "connected" /\ (ses.closing \/ ses.goaway) /\ open = {}

DrainTask(open) == posted' = IF DrainedBy(open) THEN Append(posted, "drain") ELSE posted

(* OnStreamCloseCallback: the context leaves streams_, then on_close is        *)
(* called.                                                                     *)
Leaves(p) == [p EXCEPT !.phase = "gone", !.ended = TRUE]

CloseStream(s) ==
  /\ strm' = [strm EXCEPT ![s] = Leaves(@)] /\ closes' = [closes EXCEPT ![s] = @ + 1] /\ inside' = "close"

(* nghttp2 reports the close of a stream when both sides have ended it, or     *)
(* when the peer resets it.                                                    *)
OnStreamClose(s) ==
  /\ parsing /\ inside = "none" /\ broken = "no" /\ strm[s].phase = "open"
  /\ CloseStream(s) /\ UNCHANGED <<ses, readers, writing, parsing, posted, broken>>

OnGoAway ==
  /\ parsing /\ inside = "none" /\ broken = "no" /\ ~ses.goaway /\ ses' = [ses EXCEPT !.goaway = TRUE]
  /\ posted' = IF ses.state = "connected" /\ Open = {} THEN Append(posted, "drain") ELSE posted
  /\ UNCHANGED <<strm, readers, writing, parsing, inside, closes, broken>>

(* The user callback returns; after on_close the session looks whether it has  *)
(* drained.                                                                    *)
CallbackReturns ==
  /\ inside # "none" /\ broken = "no" /\ inside' = "none"
  /\ IF inside = "close" THEN DrainTask(Open) ELSE UNCHANGED posted
  /\ UNCHANGED <<ses, strm, readers, writing, parsing, closes, broken>>

(* The rest of OnReadComplete: PumpSession, then the next read unless paused.  *)
ReadsOn == ses.state = "connected" /\ ~ses.paused

ReadReturns ==
  /\ parsing /\ inside = "none" /\ broken = "no" /\ parsing' = FALSE
  /\ ~DrainedBy(Open)
  /\ strm' = [s \in Streams |-> Pumped(strm[s])] /\ writing' = Flushed
  /\ readers' = IF ReadsOn THEN readers + 1 ELSE readers
  /\ UNCHANGED <<ses, inside, posted, closes, broken>>

(* nghttp2 wants neither to read nor to write: it has terminated the session,  *)
(* or the GOAWAY of a side is out and no stream is open.  There is no other    *)
(* read; only a session that neither closes nor drains is failed.              *)
ReadReturnsLast ==
  /\ parsing /\ inside = "none" /\ broken = "no" /\ parsing' = FALSE /\ writing' = Flushed
  /\ IF ses.closing \/ ses.goaway
     THEN /\ strm' = [s \in Streams |-> Pumped(strm[s])] /\ DrainTask(Open)
          /\ ses' = [ses EXCEPT !.dead = Open # {}] /\ UNCHANGED <<closes, broken>>
     ELSE FailSession /\ UNCHANGED posted
  /\ UNCHANGED <<readers, inside>>

(* A protocol error, after the frames that were good. *)
ParseFails ==
  /\ parsing /\ inside = "none" /\ broken = "no" /\ parsing' = FALSE
  /\ FailSession /\ UNCHANGED <<readers, writing, inside, posted>>

OnWritten ==
  /\ OnThread /\ writing > 0
  /\ \/ writing' = (IF writing = 2 /\ ses.state = "connected" THEN 1 ELSE 0) /\ UNCHANGED <<ses, strm, closes, broken>>
     \/ writing' = 0 /\ FailSession
  /\ UNCHANGED <<readers, parsing, inside, posted>>

----------------------------------------------------------------------------
(* What the user does, from a callback or from a task of the I/O thread.       *)
PauseRead ==
  /\ broken = "no" /\ inside = "body" /\ ~ses.paused /\ readers < MaxReaders /\ ses' = [ses EXCEPT !.paused = TRUE]
  /\ UNCHANGED <<strm, readers, writing, parsing, inside, posted, closes, broken>>

(* ResumeRead starts a read whether or not the caller's own read loop is       *)
(* about to start the next.                                                    *)
Resumes == IF ses.state = "connected" /\ ~ses.closing THEN readers + 1 ELSE readers

ResumeRead ==
  /\ broken = "no" /\ ses.paused /\ (OnThread \/ inside = "body")
  /\ ses' = [ses EXCEPT !.paused = FALSE]
  /\ readers' = Resumes
  /\ UNCHANGED <<strm, writing, parsing, inside, posted, closes, broken>>

(* CancelStreamImpl: RST_STREAM goes out and nghttp2 closes the stream. *)
CancelStream(s) ==
  /\ OnThread /\ ses.state = "connected" /\ strm[s].phase = "open"
  /\ strm' = [strm EXCEPT ![s] = [Leaves(@) EXCEPT !.reset = TRUE]] /\ closes' = [closes EXCEPT ![s] = @ + 1]
  /\ inside' = "close" /\ writing' = Flushed
  /\ UNCHANGED <<ses, readers, parsing, posted, broken>>

(* StartClose: an idle or connecting session is closed at once; streams that   *)
(* are open may finish.                                                        *)
CloseConnected ==
  \/ /\ ses.state = "connected" /\ Open = {} /\ Teardown /\ UNCHANGED writing
  \/ /\ ses.state = "connected" /\ Open # {} /\ ses' = [ses EXCEPT !.closing = TRUE] /\ writing' = Flushed
     /\ UNCHANGED <<strm, closes, broken>>

CloseInCallback ==
  /\ broken = "no" /\ inside # "none" /\ ~ses.closing /\ CloseConnected /\ UNCHANGED <<readers, parsing, inside, posted>>

Close ==
  /\ broken = "no" /\ "close" \notin {posted[i] : i \in DOMAIN posted} /\ ~ses.closing /\ ses.state # "closed"
  /\ posted' = Append(posted, "close")
  /\ UNCHANGED <<ses, strm, readers, writing, parsing, inside, closes, broken>>

RunClose ==
  /\ OnThread /\ posted # <<>> /\ Head(posted) = "close" /\ posted' = Tail(posted)
  /\ \/ ses.state = "closed" /\ UNCHANGED <<ses, strm, closes, broken, writing>>
     \/ ses.state \in {"idle", "connecting"} /\ ses' = [ses EXCEPT !.state = "closed"] /\ UNCHANGED <<strm, closes, broken, writing>>
     \/ CloseConnected
  /\ UNCHANGED <<readers, parsing, inside>>

RunDrain ==
  /\ OnThread /\ posted # <<>> /\ Head(posted) = "drain" /\ posted' = Tail(posted) /\ FailSession
  /\ UNCHANGED <<readers, writing, parsing, inside>>

Next ==
  \/ Connect \/ OnTlsHandshake \/ OnReadFails \/ OnReadComplete \/ OnGoAway \/ CallbackReturns \/ ReadReturns \/ ReadReturnsLast \/ ParseFails
  \/ OnWritten \/ PauseRead \/ ResumeRead \/ CloseInCallback \/ Close \/ RunClose \/ RunDrain
  \/ \E s \in Streams : OnUploadChunk(s) \/ OnData(s) \/ OnStreamClose(s) \/ CancelStream(s)
  \/ \E s \in Streams : \E b \in Bodies[s] : SubmitRequest(s, b)

Spec == Init /\ [][Next]_http2Vars

----------------------------------------------------------------------------
TypeOK ==
  /\ ses.state \in {"idle", "connecting", "connected", "closed"} /\ readers \in Nat /\ writing \in 0 .. 2
  /\ inside \in {"none", "body", "close"} /\ broken \in {"no", "freed"}
  /\ \A s \in Streams : strm[s].phase \in {"none", "open", "gone"} /\ closes[s] \in Nat

(* on_close is called exactly once for a stream that is no longer open,        *)
(* whoever ended it, and a closed session has no stream left.                  *)
ClosedOnce ==
  /\ \A s \in Streams : closes[s] = IF strm[s].phase = "gone" THEN 1 ELSE 0
  /\ ses.state = "closed" => Open = {}

(* A session that is neither paused nor closing has a read in flight, is       *)
(* handling one or is about to be torn down: a pause and its resumption never  *)
(* lose the read loop.  Excepted is a session that nghttp2 terminates while it *)
(* drains (TerminatedCloses).                                                  *)
KeepsReading ==
  ses.state = "connected" /\ ~ses.paused /\ ~ses.closing /\ ~ses.dead /\ broken = "no" => readers > 0 \/ parsing \/ Contains(posted, "drain")

(* Violated: "destroying the session synchronously here would double-destroy   *)
(* the stream being closed": Close from on_close does it.                      *)
NotFreedInCallback == broken # "freed"

(* Violated: "a terminated session stops wanting reads and writes": after the  *)
(* peer's GOAWAY it is looked at as one that drains, and nobody reads on,      *)
(* fails it or closes its streams.                                             *)
TerminatedCloses == ses.dead => ses.state = "closed"

(* Violated: one read at a time, as the TLS socket expects. *)
OneRead == readers <= 1

(* Violated: a static body ends with END_STREAM - "the EOF path fires once it  *)
(* drains".                                                                    *)
StaticBodyEnds == \A s \in Streams : ~(strm[s].phase = "open" /\ strm[s].body = "static" /\ strm[s].deferred)

(* Violated: "streams drain, then transport closes" - not when reading was     *)
(* paused.                                                                     *)
ClosingReads == ses.closing /\ ses.state = "connected" /\ OnThread => readers > 0 \/ posted # <<>> \/ ses.paused

-----------------------------------------------------------------------------
(***************************************************************************)
(* Http2Connection (http2_engine.cpp), the server's side of HTTP/2: the    *)
(* adoption of a TLS connection against Shutdown, the dispatch of streams, *)
(* the body an upload handler pulls and the flow-control credit it holds   *)
(* back, responses through nghttp2's data provider, and the close that     *)
(* waits for the writes, half-closes and drains.  nghttp2 is external: it  *)
(* closes a stream when both sides have ended it or one has reset it -     *)
(* inside nghttp2_session_send when the server's end is the last one.  The *)
(* connection's window, which the engine leaves at 64 KiB, is the one that *)
(* limits a peer; the windows of the streams, of 16 MiB, are left out.     *)
(***************************************************************************)
CONSTANTS Kinds,         \* per stream its routes: "simple", "stream", "upload"
          Window,        \* the connection's window: units of body the peer may send without credit
          HighWater, LowWater

VARIABLES
  mux,      \* accepting, and Shutdown: "no", "flagged", "done"
  eng,      \* the connection's own state: see Init
  st,       \* streams_: one StreamState per stream
  credit,   \* of the Window: the peer's, consumed, in a WINDOW_UPDATE nghttp2 has not sent, lost with closed streams (history)
  etasks,   \* tasks posted to the I/O thread
  pulls,    \* history per stream: the calls of read_body not yet answered
  freed     \* a StreamState was used after the stream had closed

engineVars == <<mux, eng, st, credit, etasks, pulls, freed>>

NoStream == [phase |-> "none", kind |-> "none", ended |-> FALSE, chunks |-> 0, held |-> 0, pull |-> FALSE,
             started |-> FALSE, blocks |-> 0, closing |-> FALSE, deferred |-> FALSE, eof |-> FALSE, handle |-> FALSE]

Whole == [peer |-> Window, consumed |-> 0, queued |-> 0, lost |-> 0]

EngineInit ==
  /\ mux = [accepting |-> TRUE, shutdown |-> "no"]
  /\ eng = [phase |-> "none", registered |-> FALSE, closing |-> FALSE, goaway |-> FALSE, closed |-> FALSE, pending |-> FALSE, afterFlush |-> FALSE,
            graceful |-> FALSE, reading |-> FALSE, flight |-> FALSE, sendbuf |-> FALSE, tls |-> TRUE, watchdog |-> FALSE, failed |-> FALSE]
  /\ st = [s \in Streams |-> NoStream] /\ credit = Whole /\ etasks = <<>>
  /\ pulls = [s \in Streams |-> 0] /\ freed = FALSE

Gone(p) == [NoStream EXCEPT !.phase = "gone", !.kind = p.kind]

EngineOpen(streams) == {s \in Streams : streams[s].phase = "open"}

----------------------------------------------------------------------------
(* A step of the I/O thread is a function of the state it found. *)
S == [eng |-> eng, st |-> st, credit |-> credit, etasks |-> etasks, pulls |-> pulls, freed |-> freed]

Becomes(s) ==
  eng' = s.eng /\ st' = s.st /\ credit' = s.credit /\ etasks' = s.etasks /\ pulls' = s.pulls /\ freed' = s.freed

(* RequestClose: posted, once. *)
RequestClose(s, graceful) ==
  IF s.eng.pending THEN s
  ELSE [s EXCEPT !.eng.pending = TRUE, !.eng.graceful = graceful, !.etasks = Append(@, <<"close", 0>>)]

Drained(s) == (s.eng.closing \/ s.eng.goaway) /\ EngineOpen(s.st) = {}

MaybeCloseAfterDrain(s) == IF ~s.eng.closed /\ Drained(s) THEN RequestClose(s, TRUE) ELSE s

FailConnection(s) == IF s.eng.closed THEN s ELSE RequestClose(s, FALSE)

(* OnStreamCloseCallback: the StreamState is freed; a pull that waits in it    *)
(* goes with it, and so does the credit it holds back.                         *)
StreamCloses(s, k) ==
  MaybeCloseAfterDrain([s EXCEPT !.st[k] = Gone(@), !.credit.lost = @ + s.st[k].held])

(* nghttp2_session_consume: a WINDOW_UPDATE is queued when half of the window  *)
(* is consumed; nghttp2_session_send sends it.                                 *)
Consume(s, n) ==
  LET all == s.credit.consumed + n
  IN IF 2 * all >= Window THEN [s EXCEPT !.credit.queued = @ + all, !.credit.consumed = 0] ELSE [s EXCEPT !.credit.consumed = all]
Credited(c) == [c EXCEPT !.peer = @ + c.queued, !.queued = 0]

(* Pump: nghttp2 asks ResponseDataReadCallback for what is queued, which       *)
(* answers EOF or DEFERRED when nothing is; Flush keeps one write in flight.   *)
Provided(p) ==
  IF p.phase # "open" \/ ~p.started \/ p.eof \/ p.deferred THEN p
  ELSE [p EXCEPT !.blocks = 0, !.eof = p.closing, !.deferred = ~p.closing]

Flush(s) ==
  IF s.eng.closed \/ s.eng.flight \/ ~s.eng.sendbuf THEN s ELSE [s EXCEPT !.eng.flight = TRUE, !.eng.sendbuf = FALSE]

Sends(s) ==
  IF s.eng.closed THEN s ELSE Flush([s EXCEPT !.st = [k \in Streams |-> Provided(s.st[k])], !.eng.sendbuf = TRUE, !.credit = Credited(@)])

(* Outside nghttp2_session_mem_recv a stream that has ended both ways closes   *)
(* before Pump returns.                                                        *)
Pump(s) ==
  LET sent == Sends(s)
      over == {k \in EngineOpen(sent.st) : sent.st[k].eof /\ sent.st[k].ended}
  IN FoldLeft(StreamCloses, sent, SetToSeq(over))

----------------------------------------------------------------------------
(* OnRespond, OnWrite, OnWriteIo, OnCloseStream *)
OnRespond(s, k) ==
  IF s.eng.closed \/ s.st[k].phase # "open" \/ s.st[k].started THEN s ELSE [s EXCEPT !.st[k].started = TRUE]

OnWrite(s, k) ==
  IF s.eng.closed \/ s.st[k].phase # "open" THEN s
  ELSE [OnRespond(s, k) EXCEPT !.st[k].blocks = 1, !.st[k].deferred = FALSE]

OnCloseStream(s, k) ==
  IF s.eng.closed \/ s.st[k].phase # "open" THEN s
  ELSE [OnRespond(s, k) EXCEPT !.st[k].closing = TRUE, !.st[k].deferred = FALSE]

(* DeliverBody, with what the handler does in its callback: it asks for more   *)
(* until the end, and at the end it may answer and close.  The credit that was *)
(* held back is consumed below the low-water mark, and nothing is sent.  The   *)
(* mutant keeps it.                                                            *)
ReplenishNot(s, k) == s
Replenish(s, k) ==
  IF s.st[k].held > 0 /\ s.st[k].chunks <= LowWater THEN Consume([s EXCEPT !.st[k].held = 0], s.st[k].held) ELSE s

Answered(s, k) == [s EXCEPT !.pulls[k] = @ - 1]
Asked(s, k) == [s EXCEPT !.pulls[k] = @ + 1]

DeliverBody(s, k, more, close, inRecv) ==
  LET got == IF s.st[k].chunks > 0 /\ s.st[k].pull
             THEN [s EXCEPT !.st[k].chunks = IF more THEN 0 ELSE @ - 1, !.st[k].pull = more, !.pulls[k] = IF more THEN @ ELSE @ - 1]
             ELSE s
      ends == got.st[k].pull /\ got.st[k].ended
      done == IF ends THEN Answered([got EXCEPT !.st[k].pull = FALSE], k) ELSE got
      left == IF ends /\ close THEN (IF inRecv THEN Sends(OnCloseStream(done, k)) ELSE Pump(OnCloseStream(done, k))) ELSE done
  IN IF left.st[k].phase # "open" THEN [left EXCEPT !.freed = TRUE] ELSE Replenish(left, k)

(* OnReadBody *)
OnReadBody(s, k, more, close) ==
  IF s.eng.closed \/ s.st[k].phase # "open" THEN Answered(Asked(s, k), k)
  ELSE DeliverBody([Asked(s, k) EXCEPT !.st[k].pull = TRUE], k, more, close, FALSE)

(* SubmitSimpleResponse *)
SubmitSimpleResponse(s, k) ==
  IF s.eng.closed THEN s ELSE Sends([s EXCEPT !.st[k].started = TRUE, !.st[k].blocks = 1, !.st[k].closing = TRUE])

(* DispatchBuffered: the streaming routes get the whole request as well. *)
DispatchBuffered(s, k) ==
  IF s.st[k].kind = "simple" THEN SubmitSimpleResponse(s, k) ELSE [s EXCEPT !.st[k].handle = TRUE]

----------------------------------------------------------------------------
OnIo == eng.phase = "up"
Receives == OnIo /\ eng.reading /\ ~eng.closed

(* OnTlsAcceptMux looks at accepting; AdoptHttp2Connection sets it, then       *)
(* RegisterHttp2 looks again under the lock.                                   *)
OnTlsAcceptMux ==
  /\ eng.phase = "none" /\ mux.accepting /\ eng' = [eng EXCEPT !.phase = "checked"]
  /\ UNCHANGED <<mux, st, credit, etasks, pulls, freed>>

AdoptHttp2Connection ==
  /\ eng.phase = "checked" /\ eng' = [eng EXCEPT !.phase = "adopting"] /\ mux' = [mux EXCEPT !.accepting = TRUE]
  /\ UNCHANGED <<st, credit, etasks, pulls, freed>>

RegisterHttp2 ==
  /\ eng.phase = "adopting"
  /\ \/ mux.accepting /\ eng' = [eng EXCEPT !.phase = "up", !.registered = TRUE, !.reading = TRUE, !.flight = TRUE]  \* Start
     \/ ~mux.accepting /\ eng' = [eng EXCEPT !.phase = "dropped", !.tls = FALSE]
  /\ UNCHANGED <<mux, st, credit, etasks, pulls, freed>>

(* Frames, each a whole OnReadComplete: OnFrameRecvCallback,                   *)
(* OnDataChunkRecvCallback, then Pump.                                         *)
Headers(k, kind, end) ==
  /\ Receives /\ st[k].phase = "none" /\ \A j \in Streams : j < k => st[j].phase # "none"
  /\ LET s == [S EXCEPT !.st[k] = [NoStream EXCEPT !.phase = "open", !.kind = kind, !.ended = end]]
     IN \/ kind = "upload" /\ Becomes(Sends([s EXCEPT !.st[k].handle = TRUE]))
        \/ kind = "upload" /\ Becomes(SubmitSimpleResponse([s EXCEPT !.st[k].kind = "simple"], k))          \* a filter refuses it
        \/ kind # "upload" /\ Becomes(IF end THEN DispatchBuffered(s, k) ELSE Sends(s))
  /\ UNCHANGED mux

(* What the handler chooses in a callback, if it is called. *)
IfAsked(called) == IF called THEN BOOLEAN ELSE {FALSE}

Data(k) ==
  /\ Receives /\ st[k].phase = "open" /\ ~st[k].ended /\ credit.peer > 0
  /\ LET got == [S EXCEPT !.credit.peer = @ - 1]
         more == IF st[k].kind = "upload" THEN [got EXCEPT !.st[k].chunks = @ + 1] ELSE got
     IN \E again \in IfAsked(more.st[k].pull) :
          LET given == IF more.st[k].pull THEN DeliverBody(more, k, again, FALSE, TRUE) ELSE more
          IN Becomes(Sends(IF given.st[k].chunks <= HighWater THEN Consume(given, 1) ELSE [given EXCEPT !.st[k].held = @ + 1]))
  /\ UNCHANGED mux

EndStream(k) ==
  /\ Receives /\ st[k].phase = "open" /\ ~st[k].ended
  /\ LET s == [S EXCEPT !.st[k].ended = TRUE]
     IN \E close \in IfAsked(st[k].pull) :
          Becomes(IF st[k].kind # "upload" THEN (IF st[k].started THEN Sends(s) ELSE DispatchBuffered(s, k))
                  ELSE IF st[k].pull THEN Sends(DeliverBody(s, k, FALSE, close, TRUE)) ELSE Sends(s))
  /\ UNCHANGED mux

(* nghttp2 closes a stream: both sides have ended, or the peer resets it. *)
EngineOnStreamClose(k) ==
  /\ Receives /\ st[k].phase = "open" /\ Becomes(Sends(StreamCloses(S, k))) /\ UNCHANGED mux

EngineOnGoAway ==
  /\ Receives /\ ~eng.goaway /\ Becomes(Sends(MaybeCloseAfterDrain([S EXCEPT !.eng.goaway = TRUE]))) /\ UNCHANGED mux

(* OnReadComplete at the end of the stream, or a protocol error; the end of    *)
(* the drain.                                                                  *)
FinalTeardown(s) == IF s.eng.tls THEN [s EXCEPT !.eng.tls = FALSE, !.eng.registered = FALSE] ELSE s

EngineOnReadFails ==
  /\ OnIo /\ eng.reading
  /\ LET s == [S EXCEPT !.eng.reading = FALSE]
     IN \/ ~eng.closed /\ Becomes(FailConnection(s))
        \/ eng.closed /\ Becomes(IF eng.graceful THEN FinalTeardown(s) ELSE s)
  /\ UNCHANGED mux

(* nghttp2 has terminated the session: no other read.                          *)
EngineTerminated ==
  /\ Receives
  /\ LET s == Sends([S EXCEPT !.eng.reading = FALSE])
     IN Becomes(IF eng.closing \/ eng.goaway THEN MaybeCloseAfterDrain(s) ELSE FailConnection(s))
  /\ UNCHANGED mux

(* Flush's completion. *)
ProcessClose(s) ==
  IF s.eng.closed THEN s
  ELSE IF s.eng.flight \/ s.eng.sendbuf THEN [s EXCEPT !.eng.afterFlush = TRUE]
  ELSE LET c == [s EXCEPT !.eng.closed = TRUE,
                          !.pulls = [k \in Streams |-> @[k] - IF s.st[k].phase = "open" /\ s.st[k].pull THEN 1 ELSE 0],
                          !.st = [k \in Streams |-> IF @[k].phase = "open" THEN Gone(@[k]) ELSE @[k]], !.credit = Whole]
       IN IF s.eng.graceful THEN [c EXCEPT !.eng.reading = TRUE, !.eng.watchdog = TRUE] ELSE FinalTeardown(c)

EngineOnWritten ==
  /\ OnIo /\ eng.flight
  /\ LET s == Flush([S EXCEPT !.eng.flight = FALSE])
     IN Becomes(IF s.eng.afterFlush /\ ~s.eng.flight THEN ProcessClose(s) ELSE s)
  /\ UNCHANGED mux

OnWriteFails ==
  /\ OnIo /\ eng.flight
  /\ LET s == [S EXCEPT !.eng.flight = FALSE, !.eng.failed = TRUE]
     IN Becomes(IF s.eng.afterFlush THEN ProcessClose(s) ELSE FailConnection(s))
  /\ UNCHANGED mux

----------------------------------------------------------------------------
(* The handlers of streamed responses and uploads, on the I/O thread. *)
Handler(k) == OnIo /\ st[k].phase # "none" /\ st[k].kind \in {"stream", "upload"} /\ (st[k].kind = "stream" => st[k].ended)

Responds(k) ==
  /\ Handler(k) /\ st[k].phase = "open" /\ ~st[k].closing
  /\ \/ ~st[k].started /\ Becomes(Pump(OnRespond(S, k)))
     \/ st[k].blocks = 0 /\ Becomes(Pump(OnWrite(S, k)))
     \/ Becomes(Pump(OnCloseStream(S, k)))
  /\ UNCHANGED mux

Pulls(k) ==
  /\ Handler(k) /\ st[k].kind = "upload" /\ ~st[k].pull /\ ~st[k].closing
  /\ \E more \in IfAsked(st[k].chunks > 0), close \in IfAsked(st[k].ended) : Becomes(OnReadBody(S, k, more, close))
  /\ UNCHANGED mux

(* HttpServerRequestHandle.Cancel, posted: RST_STREAM - not on a connection    *)
(* that is closing.                                                            *)
Cancel(k) ==
  /\ st[k].handle /\ <<"cancel", k>> \notin Range(etasks) /\ etasks' = Append(etasks, <<"cancel", k>>)
  /\ UNCHANGED <<mux, eng, st, credit, pulls, freed>>

EngineCancelStream(s, k) ==
  IF s.eng.closed \/ s.eng.closing \/ s.st[k].phase # "open" \/ ~s.st[k].handle THEN s ELSE Pump(StreamCloses(s, k))

(* StartClose *)
StartClose(s) ==
  IF s.eng.closed \/ s.eng.closing THEN s
  ELSE IF EngineOpen(s.st) = {} THEN RequestClose([s EXCEPT !.eng.closing = TRUE], TRUE)
  ELSE Pump([s EXCEPT !.eng.closing = TRUE])

RunTask ==
  /\ OnIo /\ etasks # <<>>
  /\ LET s == [S EXCEPT !.etasks = Tail(@)]
         t == Head(etasks)
     IN Becomes(CASE t[1] = "close" -> ProcessClose(s) [] t[1] = "cancel" -> EngineCancelStream(s, t[2]) [] OTHER -> StartClose(s))
  /\ UNCHANGED mux

Watchdog ==
  /\ OnIo /\ eng.watchdog /\ Becomes(FinalTeardown([S EXCEPT !.eng.watchdog = FALSE])) /\ UNCHANGED mux

(* HttpServer.Shutdown, on another thread; StartCloseAllHttp2 posts StartClose *)
(* to the connections that are registered.                                     *)
Shutdown ==
  /\ mux.shutdown = "no" /\ mux' = [accepting |-> FALSE, shutdown |-> "flagged"]
  /\ UNCHANGED <<eng, st, credit, etasks, pulls, freed>>

StartCloseAllHttp2 ==
  /\ mux.shutdown = "flagged" /\ mux' = [mux EXCEPT !.shutdown = "done"]
  /\ etasks' = IF eng.registered THEN Append(etasks, <<"start", 0>>) ELSE etasks
  /\ UNCHANGED <<eng, st, credit, pulls, freed>>

EngineNext ==
  \/ OnTlsAcceptMux \/ AdoptHttp2Connection \/ RegisterHttp2 \/ EngineOnGoAway \/ EngineTerminated \/ EngineOnReadFails \/ EngineOnWritten \/ OnWriteFails
  \/ RunTask \/ Watchdog \/ Shutdown \/ StartCloseAllHttp2
  \/ \E k \in Streams : Data(k) \/ EndStream(k) \/ EngineOnStreamClose(k) \/ Responds(k) \/ Pulls(k) \/ Cancel(k)
  \/ \E k \in Streams, end \in BOOLEAN : \E kind \in Kinds[k] : Headers(k, kind, end)

EngineSpec == EngineInit /\ [][EngineNext]_engineVars

----------------------------------------------------------------------------
EngineTypeOK ==
  /\ eng.phase \in {"none", "checked", "adopting", "up", "dropped"} /\ mux.shutdown \in {"no", "flagged", "done"}
  /\ \A k \in Streams : st[k].phase \in {"none", "open", "gone"} /\ st[k].chunks \in Nat
  /\ credit \in [{"peer", "consumed", "queued", "lost"} -> 0..Window]

(* Whoever asked for the close - Shutdown or the peer's GOAWAY - a connection  *)
(* whose last stream is over is torn down or on its way: nothing that is       *)
(* finished stays, unless a write has failed.                                  *)
DrainedCloses ==
  OnIo /\ (eng.closing \/ eng.goaway) /\ EngineOpen(st) = {} /\ ~eng.failed => eng.closed \/ eng.flight \/ etasks # <<>>

(* Flow control: every unit of the window is the peer's, consumed, on its way  *)
(* back, held back for a stream above the high-water mark or lost with one     *)
(* that closed; and for a stream whose handler waits none is held back.        *)
CreditReturns ==
  /\ \A k \in Streams : st[k].phase = "open" /\ st[k].pull => st[k].held = 0
  /\ \A k \in Streams : st[k].held > 0 => st[k].chunks > LowWater
  /\ FoldFunction(LAMBDA p, n : p.held + n, 0, st) + credit.peer + credit.consumed + credit.queued + credit.lost = Window

(* Violated: "the server pauses reading and resumes automatically when the     *)
(* handler drains it" (http_server.h): DeliverBody out of OnReadBody consumes  *)
(* the credit, and the WINDOW_UPDATE waits in nghttp2 for a Pump that only     *)
(* another frame or answer brings.                                             *)
UploadResumes ==
  \A k \in Streams : OnIo /\ ~eng.closed /\ st[k].phase = "open" /\ st[k].pull /\ ~st[k].ended => credit.peer > 0 \/ credit.queued = 0

(* Violated: "keep the window open" (OnDataChunkRecvCallback): what a stream   *)
(* held back when it closed is never consumed, and the connection's window     *)
(* stays smaller by it.                                                        *)
WindowStaysOpen == credit.lost = 0

(* Violated: "a connection registered after Shutdown's snapshot would never be *)
(* StartClose'd - drop it instead": AdoptHttp2Connection turns accepting on    *)
(* again.                                                                      *)
ShutdownReaches == mux.shutdown = "done" /\ OnIo /\ eng.registered => eng.closing \/ etasks # <<>> \/ eng.pending

(* Violated: "lookup by id - safe after stream close": DeliverBody uses the    *)
(* StreamState after the callback in which the handler closed the stream.      *)
NotUsedAfterClose == ~freed

(* Violated: a connection whose write failed is torn down: what is left in     *)
(* send_buf keeps ProcessClose waiting for a flush nobody starts.              *)
FailedIsTornDown ==
  OnIo /\ eng.failed /\ ~eng.flight /\ etasks = <<>> /\ ~eng.reading => ~eng.tls

(* Violated: a connection that nobody reads any more is torn down: not when    *)
(* nghttp2 terminated it while it drains with streams open.                    *)
UnreadIsTornDown == OnIo /\ ~eng.reading => eng.closed \/ eng.pending

(* Violated: "|cb| is invoked with done=true": a pull that waits when the peer *)
(* resets the stream is dropped.                                               *)
PullsAnswered == \A k \in Streams : st[k].phase = "gone" => pulls[k] = 0
=============================================================================
