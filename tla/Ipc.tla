--------------------------------- MODULE Ipc ---------------------------------
(***************************************************************************)
(* The ipc layer (src/neixx/ipc): a channel that frames messages over two  *)
(* streams, and the endpoint that exchanges requests over it.              *)
(***************************************************************************)
EXTENDS Integers, Sequences, SequencesExt

-----------------------------------------------------------------------------
(***************************************************************************)
(* MessageChannel (src/neixx/ipc): length-prefixed messages over a pair of *)
(* asynchronous byte streams.  StartReading, Send and Close come from any  *)
(* thread; the framing runs as tasks of io_task_runner_, user callbacks as *)
(* tasks of client_task_runner_.  lock_ is released between the phases of  *)
(* OnDataReceived, and a post made after unlocking is a step of its own.   *)
(*                                                                         *)
(* Bytes are units <<m, k>>, the k-th unit of frame m: the first HeaderSize*)
(* units are its header.  A frame whose header fails the magic or length   *)
(* check has ok = FALSE.                                                   *)
(***************************************************************************)
CONSTANTS
  HeaderSize,        \* kHeaderSize, in units
  CompactThreshold,  \* kReceiveBufferCompactThreshold, in units
  PayloadSizes,      \* payload sizes that are sent
  MaxSends,          \* bound: messages sent
  MaxFrames          \* bound: frames the peer sends

VARIABLES
  ch,        \* the fields lock_ protects
  rx,        \* receive_buffer_, consume_offset_, read_state_, current_message_size_, read_in_flight_
  io,        \* what the I/O thread is doing in OnDataReceived, and its locals
  unposted,  \* posts of user threads that have left the critical section
  io_tasks, client_tasks,   \* the runners' queues
  reading,   \* a ReadAsync is outstanding
  writing,   \* units of the outstanding WriteAsync
  peer,      \* frames the peer has sent, units not yet read, end of stream
  sent,      \* history: sizes of the messages Send accepted
  wire,      \* history: units the write stream took
  client     \* history: what the client's callbacks saw

channelVars == <<ch, rx, io, unposted, io_tasks, client_tasks, reading, writing, peer, sent, wire, client>>

Frames == [len : PayloadSizes, ok : BOOLEAN]

Units(m, len) == [k \in 1..(HeaderSize + len) |-> <<m, k>>]
Payload(m, len) == [k \in 1..len |-> <<m, HeaderSize + k>>]

Init ==
  /\ ch = [started |-> FALSE, closing |-> FALSE, error |-> FALSE, on_message |-> FALSE, on_error |-> FALSE,
           pending |-> <<>>, current |-> FALSE, offset |-> 0, write_in_flight |-> FALSE]
  /\ rx = [buffer |-> <<>>, offset |-> 0, state |-> "header", size |-> 0, in_flight |-> FALSE]
  /\ io = [pc |-> "idle", messages |-> <<>>, bad |-> FALSE]
  /\ unposted = {} /\ io_tasks = <<>> /\ client_tasks = <<>>
  /\ reading = FALSE /\ writing = <<>>
  /\ peer = [frames |-> <<>>, units |-> <<>>, eof |-> FALSE]
  /\ sent = <<>> /\ wire = <<>>
  /\ client = [messages |-> <<>>, errors |-> 0, swallowed |-> FALSE, cut |-> FALSE, failed |-> FALSE]

----------------------------------------------------------------------------
(* Calls from any thread. *)

StartReading ==
  /\ ~ch.started /\ ~ch.error
  /\ ch' = [ch EXCEPT !.started = TRUE, !.on_message = TRUE, !.on_error = TRUE]
  /\ unposted' = unposted \cup {"BeginRead"}
  /\ UNCHANGED <<rx, io, io_tasks, client_tasks, reading, writing, peer, sent, wire, client>>

Send(len) ==
  /\ Len(sent) < MaxSends /\ ~ch.error /\ ~ch.closing
  /\ sent' = Append(sent, len)
  /\ ch' = [ch EXCEPT !.pending = Append(@, Units(Len(sent) + 1, len)), !.write_in_flight = TRUE]
  /\ unposted' = IF ch.write_in_flight THEN unposted ELSE unposted \cup {"IssueNextWrite"}
  /\ UNCHANGED <<rx, io, io_tasks, client_tasks, reading, writing, peer, wire, client>>

(* Nothing is queued or being written.  The state after Close when nothing     *)
(* is.                                                                         *)
Drained == ~ch.write_in_flight /\ ch.pending = <<>>
Closed == [ch EXCEPT !.closing = TRUE, !.error = TRUE, !.on_message = FALSE, !.on_error = FALSE]

Close ==
  /\ ~ch.error
  /\ ch' = IF Drained THEN Closed ELSE [ch EXCEPT !.closing = TRUE]
  /\ unposted' = IF Drained /\ ch.on_error THEN unposted \cup {"Error"} ELSE unposted
  /\ UNCHANGED <<rx, io, io_tasks, client_tasks, reading, writing, peer, sent, wire, client>>

(* BindPostTask(...).Run() after the lock is released. *)
Post(task) ==
  /\ task \in unposted
  /\ unposted' = unposted \ {task}
  /\ IF task = "Error"
     THEN client_tasks' = Append(client_tasks, [kind |-> "Error"]) /\ UNCHANGED io_tasks
     ELSE io_tasks' = Append(io_tasks, [kind |-> task]) /\ UNCHANGED client_tasks
  /\ UNCHANGED <<ch, rx, io, reading, writing, peer, sent, wire, client>>

----------------------------------------------------------------------------
(* Read path. *)

(* PostErrorToClient with the error callback moved out of c, if it is there. *)
Signalled(c) == [c EXCEPT !.error = TRUE, !.on_message = FALSE]
TakeErrorCallback(c) ==
  /\ ch' = [c EXCEPT !.on_error = FALSE]
  /\ client_tasks' = IF c.on_error THEN Append(client_tasks, [kind |-> "Error"]) ELSE client_tasks

(* BeginRead, as a task (next = "idle") and at the end of OnDataReceived. *)
BeginRead(next) ==
  /\ IF ch.error \/ ch.closing \/ rx.in_flight
     THEN UNCHANGED <<rx, reading>>
     ELSE rx' = [rx EXCEPT !.in_flight = TRUE] /\ reading' = TRUE
  /\ io' = [io EXCEPT !.pc = next]
  /\ UNCHANGED <<ch, unposted, client_tasks, writing, peer, sent, wire, client>>

(* TryParseFrames from offset o: what is left to parse and the messages cut   *)
(* out.  A header is decoded by its first unit.                               *)
Decode(u) == IF u[2] = 1 THEN peer.frames[u[1]] ELSE [len |-> 0, ok |-> FALSE]
TryParseFrames(buffer, offset, state, size) ==
  LET N == 0..Len(buffer)
      parse[o \in N, s \in {"header", "payload"}, n \in PayloadSizes \cup {0}] ==
        LET f == Decode(buffer[o + 1])
            rest == parse[o + n, "header", 0]
        IN  IF s = "header"
            THEN IF Len(buffer) - o < HeaderSize THEN [offset |-> o, state |-> s, size |-> n, out |-> <<>>, bad |-> FALSE]
                 ELSE IF ~f.ok THEN [offset |-> o, state |-> s, size |-> n, out |-> <<>>, bad |-> TRUE]
                 ELSE parse[o + HeaderSize, "payload", f.len]
            ELSE IF Len(buffer) - o < n THEN [offset |-> o, state |-> s, size |-> n, out |-> <<>>, bad |-> FALSE]
                 ELSE [rest EXCEPT !.out = <<SubSeq(buffer, o + 1, o + n)>> \o @]
  IN  parse[offset, state, size]

CompactReceiveBuffer(r) ==
  CASE r.offset >= Len(r.buffer) -> [r EXCEPT !.buffer = <<>>, !.offset = 0]
    [] r.offset < Len(r.buffer) /\ r.offset > 0 /\ r.offset >= CompactThreshold ->
         [r EXCEPT !.buffer = SubSeq(@, r.offset + 1, Len(@)), !.offset = 0]
    [] OTHER -> r

(* Phase 1 of OnDataReceived, under the lock. *)
OnDataReceived(units) ==
  LET buffer == rx.buffer \o units
      p      == TryParseFrames(buffer, rx.offset, rx.state, rx.size)
      parsed == [buffer |-> buffer, offset |-> p.offset, state |-> p.state, size |-> p.size, in_flight |-> FALSE]
      next   == CASE p.out # <<>> -> "deliver" [] p.out = <<>> /\ p.bad -> "error" [] OTHER -> "resume"
  IN  /\ CASE ch.error -> /\ rx' = [rx EXCEPT !.in_flight = FALSE]
                          /\ io' = [io EXCEPT !.pc = "idle"]
                          /\ UNCHANGED ch
           [] ~ch.error /\ units = <<>> -> /\ rx' = [rx EXCEPT !.in_flight = FALSE]
                                           /\ ch' = Signalled(ch)
                                           /\ io' = [io EXCEPT !.pc = "error"]
           [] OTHER -> /\ rx' = IF p.bad THEN parsed ELSE CompactReceiveBuffer(parsed)
                       /\ ch' = IF p.bad THEN Signalled(ch) ELSE ch
                       /\ io' = [pc |-> next, messages |-> p.out, bad |-> p.bad]
      /\ UNCHANGED <<unposted, client_tasks, reading, writing, peer, sent, wire, client>>

(* Phase 2: the callback is copied under the lock, the messages are posted     *)
(* after it.  A chunk with both complete messages and a bad frame ends here:   *)
(* neither the messages nor the error are posted.                              *)
Deliver ==
  /\ io.pc = "deliver"
  /\ io' = [io EXCEPT !.pc = IF ch.error THEN "idle" ELSE "post"]
  /\ client' = [client EXCEPT !.swallowed = @ \/ (io.bad /\ ch.on_error)]
  /\ UNCHANGED <<ch, rx, unposted, io_tasks, client_tasks, reading, writing, peer, sent, wire>>

PostMessages ==
  /\ io.pc = "post"
  /\ client_tasks' = Append(client_tasks, [kind |-> "Messages", messages |-> io.messages])
  /\ io' = [io EXCEPT !.pc = "resume"]
  /\ UNCHANGED <<ch, rx, unposted, io_tasks, reading, writing, peer, sent, wire, client>>

DeliverError ==
  /\ io.pc = "error"
  /\ TakeErrorCallback(ch)
  /\ io' = [io EXCEPT !.pc = "idle"]
  /\ UNCHANGED <<rx, unposted, io_tasks, reading, writing, peer, sent, wire, client>>

(* Phase 3.  Input that arrives while a Close is draining ends the channel,    *)
(* with what is still queued for writing.                                      *)
Resume ==
  /\ io.pc = "resume"
  /\ ch' = IF ch.closing /\ ~ch.error THEN Signalled(ch) ELSE ch
  /\ io' = [io EXCEPT !.pc = IF ~ch.error /\ ~ch.closing THEN "begin" ELSE "last"]
  /\ client' = [client EXCEPT !.cut = @ \/ (ch.closing /\ ~ch.error /\ ch.pending # <<>>)]
  /\ UNCHANGED <<rx, unposted, io_tasks, client_tasks, reading, writing, peer, sent, wire>>

ReadAgain ==
  /\ io.pc = "begin"
  /\ BeginRead("last")
  /\ UNCHANGED io_tasks

LastCheck ==
  /\ io.pc = "last"
  /\ IF ch.error THEN TakeErrorCallback(ch) ELSE UNCHANGED <<ch, client_tasks>>
  /\ io' = [io EXCEPT !.pc = "idle"]
  /\ UNCHANGED <<rx, unposted, io_tasks, reading, writing, peer, sent, wire, client>>

----------------------------------------------------------------------------
(* Write path. *)

(* IssueNextWrite in the state c: what is left of the current frame, a new     *)
(* frame from the front of the queue, or nothing: idle, or closed.             *)
IssueNextWrite(c) ==
  CASE c.error -> /\ ch' = c /\ UNCHANGED <<writing, client_tasks>>
    [] ~c.error /\ c.current -> /\ ch' = c
                                /\ writing' = SubSeq(c.pending[1], c.offset + 1, Len(c.pending[1]))
                                /\ UNCHANGED client_tasks
    [] ~c.error /\ ~c.current /\ c.pending = <<>> ->
         /\ IF c.closing THEN TakeErrorCallback([Signalled(c) EXCEPT !.write_in_flight = FALSE])
                         ELSE ch' = [c EXCEPT !.write_in_flight = FALSE] /\ UNCHANGED client_tasks
         /\ UNCHANGED writing
    [] OTHER -> /\ ch' = [c EXCEPT !.current = TRUE, !.offset = 0]
                /\ writing' = c.pending[1]
                /\ UNCHANGED client_tasks

(* A write of n units finishes the current frame. *)
WroteAll(n) == ch.offset + n >= Len(ch.pending[1])

(* n units were written, 0 for a failure. *)
OnWriteComplete(n) ==
  /\ LET popped == [ch EXCEPT !.pending = Tail(@), !.current = FALSE, !.offset = 0]
         whole  == WroteAll(n)
     IN  CASE ch.error -> UNCHANGED <<ch, writing, client_tasks>>
           [] ~ch.error /\ (n = 0 \/ (whole /\ Len(ch.pending) = 1 /\ ch.closing)) ->
                TakeErrorCallback(Signalled(popped)) /\ UNCHANGED writing
           [] ~ch.error /\ n > 0 /\ whole /\ Len(ch.pending) = 1 /\ ~ch.closing ->
                ch' = [popped EXCEPT !.write_in_flight = FALSE] /\ UNCHANGED <<writing, client_tasks>>
           [] ~ch.error /\ n > 0 /\ whole /\ Len(ch.pending) > 1 -> IssueNextWrite(popped)
           [] OTHER -> IssueNextWrite([ch EXCEPT !.offset = @ + n])
  /\ UNCHANGED <<rx, io, unposted, reading, peer, sent, wire, client>>

----------------------------------------------------------------------------
(* The I/O runner takes its next task when it is between two tasks. *)
RunIoTask ==
  /\ io.pc = "idle" /\ io_tasks # <<>>
  /\ io_tasks' = Tail(io_tasks)
  /\ LET t == Head(io_tasks)
     IN  \/ t.kind = "BeginRead" /\ BeginRead("idle")
         \/ t.kind = "Data" /\ OnDataReceived(t.units)
         \/ /\ t.kind = "IssueNextWrite"
            /\ IssueNextWrite(ch)
            /\ UNCHANGED <<rx, io, unposted, reading, peer, sent, wire, client>>
         \/ t.kind = "Written" /\ OnWriteComplete(t.n)

RunClientTask ==
  /\ client_tasks # <<>>
  /\ client_tasks' = Tail(client_tasks)
  /\ LET t == Head(client_tasks)
     IN  client' = IF t.kind = "Error" THEN [client EXCEPT !.errors = @ + 1]
                   ELSE [client EXCEPT !.messages = @ \o t.messages]
  /\ UNCHANGED <<ch, rx, io, unposted, io_tasks, reading, writing, peer, sent, wire>>

(* The streams: a read returns some of what has arrived, or the end of the     *)
(* stream; a write takes some of its units, or fails.                          *)
ReadCompletes ==
  /\ reading
  /\ \E n \in 0..Len(peer.units) :
       /\ n = 0 => peer.eof /\ peer.units = <<>>
       /\ io_tasks' = Append(io_tasks, [kind |-> "Data", units |-> SubSeq(peer.units, 1, n)])
       /\ peer' = [peer EXCEPT !.units = SubSeq(@, n + 1, Len(@))]
  /\ reading' = FALSE
  /\ UNCHANGED <<ch, rx, io, unposted, client_tasks, writing, sent, wire, client>>

WriteCompletes ==
  /\ writing # <<>>
  /\ \E n \in 0..Len(writing) :
       /\ io_tasks' = Append(io_tasks, [kind |-> "Written", n |-> n])
       /\ wire' = wire \o SubSeq(writing, 1, n)
       /\ client' = [client EXCEPT !.failed = @ \/ n = 0]
  /\ writing' = <<>>
  /\ UNCHANGED <<ch, rx, io, unposted, client_tasks, reading, peer, sent>>

PeerSends(f) ==
  /\ ~peer.eof /\ Len(peer.frames) < MaxFrames
  /\ peer' = [peer EXCEPT !.frames = Append(@, f), !.units = @ \o Units(Len(peer.frames) + 1, f.len)]
  /\ UNCHANGED <<ch, rx, io, unposted, io_tasks, client_tasks, reading, writing, sent, wire, client>>

PeerCloses ==
  /\ ~peer.eof
  /\ peer' = [peer EXCEPT !.eof = TRUE]
  /\ UNCHANGED <<ch, rx, io, unposted, io_tasks, client_tasks, reading, writing, sent, wire, client>>

IoStep == RunIoTask \/ Deliver \/ PostMessages \/ DeliverError \/ Resume \/ ReadAgain \/ LastCheck

Next ==
  \/ StartReading \/ Close
  \/ \E len \in PayloadSizes : Send(len)
  \/ \E task \in unposted : Post(task)
  \/ IoStep \/ RunClientTask
  \/ ReadCompletes \/ WriteCompletes
  \/ \E f \in Frames : PeerSends(f)
  \/ PeerCloses

(* Runners run their tasks, posting threads go on, streams complete.  The      *)
(* peer and the user owe nothing.                                              *)
Fairness ==
  /\ WF_channelVars(IoStep) /\ WF_channelVars(RunClientTask)
  /\ WF_channelVars(\E task \in unposted : Post(task))
  /\ WF_channelVars(ReadCompletes) /\ WF_channelVars(WriteCompletes)

Spec == Init /\ [][Next]_channelVars /\ Fairness

----------------------------------------------------------------------------
TypeOK ==
  /\ ch.pending \in Seq(Seq(Nat \X Nat)) /\ ch.offset \in Nat
  /\ rx.offset \in 0..Len(rx.buffer) /\ rx.state \in {"header", "payload"}
  /\ io.pc \in {"idle", "deliver", "post", "error", "resume", "begin", "last"}
  /\ unposted \subseteq {"BeginRead", "IssueNextWrite", "Error"}
  /\ client.errors \in 0..1

(* However the stream is cut into chunks, the client sees the payloads of the  *)
(* peer's frames in order, each once, and none from a bad frame on             *)
(* (TryParseFrames, CompactReceiveBuffer).                                     *)
MessagesAreFrames ==
  LET n == Len(client.messages)
  IN  /\ n <= Len(peer.frames)
      /\ \A i \in 1..n : peer.frames[i].ok /\ client.messages[i] = Payload(i, peer.frames[i].len)

(* What goes out is the accepted messages, framed, in order and without holes, *)
(* whatever part of a frame each write took (current_write_offset_).           *)
WireIsFrames ==
  LET all == FlattenSeq([i \in 1..Len(sent) |-> Units(i, sent[i])])
  IN  wire = SubSeq(all, 1, Len(wire))

(* "Pending writes are drained before the ErrorCallback is invoked"            *)
(* (message_channel.h): true unless a write failed, the peer ended the stream  *)
(* or broke the protocol, or input arrived while Close was draining.           *)
CloseDrains ==
  client.errors > 0 /\ ~client.failed /\ ~client.cut /\ ~peer.eof /\ ~io.bad => ch.pending = <<>>

(* The error callback is moved out once, so it is posted at most once, by      *)
(* whichever thread takes it.                                                  *)
ErrorAtMostOnce ==
  client.errors + Cardinality({i \in DOMAIN client_tasks : client_tasks[i].kind = "Error"})
    + (IF "Error" \in unposted THEN 1 ELSE 0) + (IF ch.on_error THEN 1 ELSE 0) <= 1

(* Once the channel has signalled an error, a client that started reading is   *)
(* told, except when the error was found behind complete messages of the same  *)
(* chunk (the return in phase 2).                                              *)
ErrorReported == (ch.error /\ ch.started) ~> (client.errors = 1 \/ client.swallowed)

-----------------------------------------------------------------------------
(***************************************************************************)
(* RpcEndpoint (src/neixx/ipc): requests and responses over a              *)
(* MessageChannel, an endpoint at each end.  SendRequest comes from any    *)
(* thread; messages, timeouts and the channel's error are handled on the   *)
(* endpoint's client sequence.  The channel keeps order, drops what is     *)
(* sent after an error or Close, and reports the error as a task of the    *)
(* client sequence (see MessageChannel).                                   *)
(***************************************************************************)
CONSTANTS
  Ends,         \* the two endpoints
  IdSpace,      \* request ids are taken modulo this (2^64 in the code)
  FirstId,      \* next_request_id_ where the behaviour begins
  MaxRequests,  \* bound: endpoint -> its requests
  MaxStray      \* bound: frames that are one-way, malformed or repeated replies

VARIABLES
  ep,      \* endpoint -> its fields
  calls,   \* endpoint -> its SendRequest calls: where each is, and what its callback was given
  net,     \* endpoint -> frames on the way to it
  tasks,   \* endpoint -> its client sequence
  stray    \* frames counted against MaxStray

rpcVars == <<ep, calls, net, tasks, stray>>

Other(e) == CHOOSE f \in Ends : f # e

RpcInit ==
  /\ ep = [e \in Ends |-> [handler |-> FALSE, reading |-> FALSE, open |-> TRUE, next_id |-> FirstId,
                           pending |-> {}, serving |-> {}]]
  /\ calls = [e \in Ends |-> <<>>]
  /\ net = [e \in Ends |-> <<>>]
  /\ tasks = [e \in Ends |-> <<>>]
  /\ stray = 0

(* A pending request: its id, the call whose callback it holds, its timer.     *)
Find(e, id) == {p \in ep[e].pending : p.id = id}

(* channel_->Send. *)
SendFrame(e, frame) ==
  net' = IF ep[e].open THEN [net EXCEPT ![Other(e)] = Append(@, frame)] ELSE net

(* channel_->Close, or a failure of the stream: OnChannelError is posted once. *)
CloseChannel(e, fields, queue) ==
  /\ ep' = [ep EXCEPT ![e] = [fields EXCEPT !.open = FALSE]]
  /\ tasks' = [tasks EXCEPT ![e] = IF fields.open /\ fields.reading THEN Append(queue, [kind |-> "error"]) ELSE queue]

(* The callbacks of the calls in R run with |answer|, <<>> for the null buffer. *)
Run(c, answer) == [c EXCEPT !.fired = @ + 1, !.answer = answer]
Fire(e, R, answer) ==
  calls' = [calls EXCEPT ![e] = [r \in DOMAIN @ |-> IF r \in R THEN Run(@[r], answer) ELSE @[r]]]

----------------------------------------------------------------------------
SetRequestHandler(e) ==
  /\ ~ep[e].handler
  /\ ep' = [ep EXCEPT ![e].handler = TRUE]
  /\ UNCHANGED <<calls, net, tasks, stray>>

(* Start does not begin to read without a handler; StartReading ignores a      *)
(* channel that is closed.                                                     *)
Start(e) ==
  /\ ep[e].handler /\ ~ep[e].reading /\ ep[e].open
  /\ ep' = [ep EXCEPT ![e].reading = TRUE]
  /\ UNCHANGED <<calls, net, tasks, stray>>

(* next_request_id_.fetch_add(1), in the width of the counter, and the id that *)
(* a request makes of what it got.  The mutant lets the counter outgrow its    *)
(* width.                                                                      *)
IncrementUnbounded(n) == n + 1
Increment(n) == (n + 1) % IdSpace
RequestId(n) == IF n = 0 THEN 1 ELSE n

(* SendRequest: the id is allocated, 0 is skipped by a second fetch_add, the   *)
(* entry is made under lock_ before the frame is sent, and the timer's task    *)
(* is posted last.  Other threads run between any two of these: a request that *)
(* allocates between the two fetch_adds gets the id 1 as well.                 *)
AllocateId(e) ==
  /\ Len(calls[e]) < MaxRequests[e]
  /\ LET n == ep[e].next_id
     IN  calls' = [calls EXCEPT ![e] = Append(@, [id |-> RequestId(n), pc |-> IF n = 0 THEN "skip" ELSE "insert",
                                                  fired |-> 0, answer |-> <<>>])]
  /\ ep' = [ep EXCEPT ![e].next_id = Increment(@)]
  /\ UNCHANGED <<net, tasks, stray>>

SkipZero(e, r) ==
  /\ calls[e][r].pc = "skip"
  /\ ep' = [ep EXCEPT ![e].next_id = Increment(@)]
  /\ calls' = [calls EXCEPT ![e][r].pc = "insert"]
  /\ UNCHANGED <<net, tasks, stray>>

(* pending_requests_[request_id] = ...: an entry of that id is replaced, and   *)
(* its callback and timer are destroyed.                                       *)
InsertRequest(e, r) ==
  /\ calls[e][r].pc = "insert"
  /\ LET id == calls[e][r].id
     IN  ep' = [ep EXCEPT ![e].pending = (@ \ Find(e, id)) \cup {[id |-> id, call |-> r, timer |-> FALSE]}]
  /\ calls' = [calls EXCEPT ![e][r].pc = "send"]
  /\ UNCHANGED <<net, tasks, stray>>

SendRequestFrame(e, r) ==
  /\ calls[e][r].pc = "send"
  /\ SendFrame(e, [type |-> "request", id |-> calls[e][r].id, body |-> r])
  /\ calls' = [calls EXCEPT ![e][r].pc = "post"]
  /\ UNCHANGED <<ep, tasks, stray>>

PostInstall(e, r) ==
  /\ calls[e][r].pc = "post"
  /\ tasks' = [tasks EXCEPT ![e] = Append(@, [kind |-> "install", id |-> calls[e][r].id])]
  /\ calls' = [calls EXCEPT ![e][r].pc = "done"]
  /\ UNCHANGED <<ep, net, stray>>

SendOneWay(e) ==
  /\ stray < MaxStray /\ stray' = stray + 1
  /\ SendFrame(e, [type |-> "oneway", id |-> 0, body |-> 0])
  /\ UNCHANGED <<ep, calls, tasks>>

(* TearDown, and the stream ending or failing. *)
TearDown(e) ==
  /\ ep[e].open
  /\ CloseChannel(e, ep[e], tasks[e])
  /\ UNCHANGED <<calls, net, stray>>

(* The channel hands the next frame to the client sequence. *)
Receive(e) ==
  /\ net[e] # <<>> /\ ep[e].reading /\ ep[e].open
  /\ tasks' = [tasks EXCEPT ![e] = Append(@, [kind |-> "frame", frame |-> Head(net[e])])]
  /\ net' = [net EXCEPT ![e] = Tail(@)]
  /\ UNCHANGED <<ep, calls, stray>>

(* A frame too short for the header, or of an unknown type. *)
Malformed(e) ==
  /\ stray < MaxStray /\ stray' = stray + 1
  /\ net' = [net EXCEPT ![e] = Append(@, [type |-> "malformed", id |-> 0, body |-> 0])]
  /\ UNCHANGED <<ep, calls, tasks>>

----------------------------------------------------------------------------
(* Tasks of the client sequence. *)

OnRequest(e, f) ==
  /\ f.type = "request"
  /\ ep' = [ep EXCEPT ![e].serving = @ \cup {[id |-> f.id, body |-> f.body, replies |-> 0]}]
  /\ tasks' = [tasks EXCEPT ![e] = Tail(@)]
  /\ UNCHANGED <<calls, net, stray>>

(* Which entry a response answers. *)
Answered(e, id) == Find(e, id)

OnResponse(e, f) ==
  /\ f.type = "response"
  /\ ep' = [ep EXCEPT ![e].pending = @ \ Answered(e, f.id)]
  /\ Fire(e, {p.call : p \in Answered(e, f.id)}, <<f.body>>)
  /\ tasks' = [tasks EXCEPT ![e] = Tail(@)]
  /\ UNCHANGED <<net, stray>>

OnOneWay(e, f) ==
  /\ f.type = "oneway"
  /\ tasks' = [tasks EXCEPT ![e] = Tail(@)]
  /\ UNCHANGED <<ep, calls, net, stray>>

SignalError(e, f) ==
  /\ f.type = "malformed"
  /\ CloseChannel(e, ep[e], Tail(tasks[e]))
  /\ UNCHANGED <<calls, net, stray>>

OnMessageReceived(e) ==
  /\ tasks[e] # <<>> /\ Head(tasks[e]).kind = "frame"
  /\ LET f == Head(tasks[e]).frame
     IN  OnRequest(e, f) \/ OnResponse(e, f) \/ OnOneWay(e, f) \/ SignalError(e, f)

OnChannelError(e) ==
  /\ tasks[e] # <<>> /\ Head(tasks[e]).kind = "error"
  /\ tasks' = [tasks EXCEPT ![e] = Tail(@)]
  /\ Fire(e, {p.call : p \in ep[e].pending}, <<>>)
  /\ ep' = [ep EXCEPT ![e].pending = {}]
  /\ UNCHANGED <<net, stray>>

(* A request that was answered before this task ran has no entry any more; the *)
(* mutant arms no timer once the channel is closed.                            *)
ToArmIfOpen(e, id) == IF ep[e].open THEN Find(e, id) ELSE {}
ToArm(e, id) == Find(e, id)

InstallTimeoutTimer(e) ==
  /\ tasks[e] # <<>> /\ Head(tasks[e]).kind = "install"
  /\ tasks' = [tasks EXCEPT ![e] = Tail(@)]
  /\ LET found == ToArm(e, Head(tasks[e]).id)
     IN  ep' = [ep EXCEPT ![e].pending = (@ \ found) \cup {[p EXCEPT !.timer = TRUE] : p \in found}]
  /\ UNCHANGED <<calls, net, stray>>

(* Erasing an entry destroys its timer, so only the timer of a pending         *)
(* request can fire.                                                           *)

OnRequestTimeout(e, p) ==
  /\ p.timer
  /\ ep' = [ep EXCEPT ![e].pending = @ \ {p}]
  /\ Fire(e, {p.call}, <<>>)
  /\ UNCHANGED <<net, tasks, stray>>

(* The handler's ReplyCallback, called when it likes and as often as it likes. *)
Reply(e, s) ==
  /\ s.replies = 1 => stray < MaxStray
  /\ s.replies < 2
  /\ stray' = stray + s.replies
  /\ ep' = [ep EXCEPT ![e].serving = (@ \ {s}) \cup {[s EXCEPT !.replies = s.replies + 1]}]
  /\ SendFrame(e, [type |-> "response", id |-> s.id, body |-> s.body])
  /\ UNCHANGED <<calls, tasks>>

ClientStep(e) == OnMessageReceived(e) \/ OnChannelError(e) \/ InstallTimeoutTimer(e)
CallStep(e) ==
  \E r \in DOMAIN calls[e] :
    SkipZero(e, r) \/ InsertRequest(e, r) \/ SendRequestFrame(e, r) \/ PostInstall(e, r)
Timeout(e) == \E p \in ep[e].pending : OnRequestTimeout(e, p)

RpcNext ==
  \E e \in Ends :
    \/ SetRequestHandler(e) \/ Start(e) \/ AllocateId(e) \/ CallStep(e)
    \/ SendOneWay(e) \/ TearDown(e) \/ Receive(e) \/ Malformed(e)
    \/ ClientStep(e) \/ Timeout(e)
    \/ \E s \in ep[e].serving : Reply(e, s)

RpcSpec == RpcInit /\ [][RpcNext]_rpcVars

----------------------------------------------------------------------------
RpcTypeOK ==
  \A e \in Ends :
    /\ ep[e].next_id \in 0..(IdSpace - 1)
    /\ \A p \in ep[e].pending : p.id \in 1..(IdSpace - 1) /\ p.call \in DOMAIN calls[e]

(* A response, a timeout and the channel's error race for the same request:    *)
(* its callback runs at most once (the entry is erased under lock_ by whoever  *)
(* takes the callback).                                                        *)
CallbackAtMostOnce == \A e \in Ends : \A r \in DOMAIN calls[e] : calls[e][r].fired <= 1

(* No other request of this endpoint has the id of the request r.              *)
Unshared(e, r) == \A s \in DOMAIN calls[e] : calls[e][s].id = calls[e][r].id => s = r

(* A response given to a callback is the peer's reply to that very request,    *)
(* also when the counter wraps or the handler replies twice, unless another    *)
(* request has the same id.                                                    *)
AnswerIsForRequest ==
  \A e \in Ends : \A r \in DOMAIN calls[e] :
    calls[e][r].answer # <<>> /\ Unshared(e, r) => calls[e][r].answer = <<r>>

(* A request whose callback has not run is never forgotten, whatever happens   *)
(* to the channel and whenever, unless another request has the same id: it is  *)
(* still to make its entry, or it has one and its call has still to post the   *)
(* timer's task, or the task is queued, or the timer is armed.  Timers expire, *)
(* so every call returns.                                                      *)
NeverForgotten ==
  \A e \in Ends : \A r \in DOMAIN calls[e] :
    calls[e][r].fired = 0 /\ Unshared(e, r) =>
      \/ calls[e][r].pc \in {"skip", "insert"}
      \/ \E p \in ep[e].pending :
           /\ p.call = r
           /\ \/ calls[e][r].pc # "done" \/ p.timer
              \/ \E i \in DOMAIN tasks[e] : tasks[e][i].kind = "install" /\ tasks[e][i].id = p.id

(* Requests have different ids.  The code does not keep it when the counter    *)
(* wraps: a request that allocates between the two fetch_adds of the one that  *)
(* skips 0 ("skip if wraparound hits it", rpc_endpoint.cpp:161) has its id.    *)
(* The entry of one replaces that of the other, whose callback never runs.     *)
IdsAreDistinct == \A e \in Ends : \A r \in DOMAIN calls[e] : Unshared(e, r)
=============================================================================
