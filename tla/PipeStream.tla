----------------------------- MODULE PipeStream ------------------------------
(***************************************************************************)
(* PipeInputStream and PipeOutputStream over a non-blocking pipe           *)
(* (pipe_stream_posix.cpp, pipe_stream.cpp): requests are drained on the   *)
(* I/O thread under a one-shot epoll watch, at most DrainLimit bytes at a  *)
(* time, and answered directly from a pump event or by a posted task.  The *)
(* two classes are one text but for what dir tells apart: writes queue     *)
(* behind each other, a second read is refused, only a read sees the end.  *)
(* All calls are made on the I/O thread, some from inside a callback.      *)
(***************************************************************************)
EXTENDS Integers, Sequences, FiniteSets, SequencesExt

CONSTANTS Directions,   \* "read", "write"
          Requests,     \* requests, in the order they are made: 1, 2, ...
          Length,       \* bytes of a request
          DrainLimit,   \* kMaxBytesPerDrain
          MaxMoved      \* bytes the other end supplies or takes

VARIABLES
  dir,         \* which of the two streams
  pipe,        \* the stream's fields
  pipeQueue,   \* write_queue_
  room,        \* bytes that can be moved before EAGAIN, and the state of the other end
  armed,       \* epoll reports the descriptor
  ioTasks,     \* tasks posted to the I/O thread
  ioThread,    \* where the I/O thread is in the stream's code, and how many callbacks deep
  made,        \* requests made so far
  answered,    \* callbacks that have run, in order, with what they were told
  overtook     \* a write that was made in a callback went ahead of queued ones

pipeVars == <<dir, pipe, pipeQueue, room, armed, ioTasks, ioThread, made, answered, overtook>>

Init ==
  /\ dir \in Directions
  /\ pipe = [fd |-> TRUE, closed |-> FALSE, deleted |-> FALSE, cb |-> 0, moved |-> 0, from_pump |-> FALSE]
  /\ pipeQueue = <<>> /\ room = [bytes |-> 0, supplied |-> 0, end |-> "open"]
  /\ armed = FALSE /\ ioTasks = <<>> /\ ioThread = [pc |-> "idle", depth |-> 0]
  /\ made = 0 /\ answered = <<>> /\ overtook = FALSE

in_flight == pipe.cb # 0

(* Tasks: the answer of a request, a continued drain, the destruction. *)
Result(r, ok) == [task |-> "result", request |-> r, ok |-> ok]
Continue == [task |-> "drain", request |-> 0, ok |-> FALSE]
Destroy == [task |-> "destroy", request |-> 0, ok |-> FALSE]

(* The I/O thread leaves the stream's code, into the callback around it if any. *)
Return == ioThread' = [ioThread EXCEPT !.pc = IF @ = "idle" \/ ioThread.depth = 0 THEN "idle" ELSE "callback"]

----------------------------------------------------------------------------
(* DeliverReadResult, DeliverWriteResult: directly under a pump event, else as *)
(* a task; a write then looks for the next one.                                *)
Deliver(p, q, ok) ==
  /\ pipe' = [p EXCEPT !.cb = 0]
  /\ IF p.from_pump
     THEN /\ answered' = Append(answered, [request |-> p.cb, ok |-> ok])
          /\ ioThread' = [pc |-> "callback", depth |-> ioThread.depth + 1] /\ UNCHANGED ioTasks
     ELSE /\ ioTasks' = Append(ioTasks, Result(p.cb, ok)) /\ UNCHANGED answered
          /\ IF dir = "write" THEN ioThread' = [ioThread EXCEPT !.pc = "next"] ELSE Return
  /\ armed' = (dir = "write" /\ armed) /\ pipeQueue' = q

(* The watch is armed again when nothing could be moved. *)
Rearm == TRUE

(* DrainRead, DrainWrite, for a request that has moved p.moved bytes so far:   *)
(* a call may move less than there is only when it reaches the limit.          *)
Stop(p, k) == p.moved + k = Length \/ k >= DrainLimit \/ k = room.bytes

Drain(p, q) ==
  \E k \in 0 .. room.bytes :
    /\ p.moved + k <= Length /\ Stop(p, k)
    /\ room' = [room EXCEPT !.bytes = @ - k]
    /\ LET after == [p EXCEPT !.moved = @ + k]
           blocked == k = room.bytes /\ room.end = "open"
       IN \/ after.moved = Length /\ Deliver(after, q, TRUE)
          \/ /\ after.moved < Length /\ k >= DrainLimit
             /\ armed' = TRUE /\ ioTasks' = Append(ioTasks, Continue)
             /\ pipe' = after /\ pipeQueue' = q /\ Return /\ UNCHANGED answered
          \/ /\ after.moved < Length /\ k < DrainLimit /\ blocked /\ after.moved = 0
             /\ armed' = Rearm /\ pipe' = after /\ pipeQueue' = q /\ Return /\ UNCHANGED <<ioTasks, answered>>
          \/ after.moved < Length /\ k < DrainLimit /\ blocked /\ after.moved > 0 /\ Deliver(after, q, TRUE)
          \/ /\ after.moved < Length /\ k < DrainLimit /\ ~blocked
             /\ Deliver(after, q, room.end = "eof" /\ after.moved > 0)

(* DrainRead, DrainWrite without a request in flight: what is left of the last *)
(* request is delivered to an empty callback.                                  *)
DrainNothing ==
  /\ IF dir = "write" /\ pipe.moved = Length THEN ioThread' = [ioThread EXCEPT !.pc = "next"] ELSE Return
  /\ armed' = (armed /\ ~(dir = "read" /\ pipe.moved = Length))
  /\ UNCHANGED <<pipe, pipeQueue, room, ioTasks, answered>>

----------------------------------------------------------------------------
(* ReadAsync, WriteAsync, outside of and inside a callback.  What was not      *)
(* being watched is watched before the first attempt.                          *)
Behind == in_flight

Request(r) ==
  /\ r = made + 1 /\ ioThread.pc \in {"idle", "callback"} /\ ~pipe.deleted /\ made' = r
  /\ \/ /\ pipe.closed \/ (Behind /\ dir = "read")
        /\ ioTasks' = Append(ioTasks, Result(r, FALSE))
        /\ UNCHANGED <<pipe, pipeQueue, room, armed, ioThread, answered, overtook>>
     \/ /\ ~pipe.closed /\ Behind /\ dir = "write"
        /\ pipeQueue' = Append(pipeQueue, r)
        /\ UNCHANGED <<pipe, room, armed, ioTasks, ioThread, answered, overtook>>
     \/ /\ ~pipe.closed /\ ~Behind
        /\ Drain([pipe EXCEPT !.cb = r, !.moved = 0], pipeQueue)
        /\ overtook' = (overtook \/ pipeQueue # <<>>)
  /\ UNCHANGED dir

(* Close: the queued requests fail first, then the one in flight. *)
Failed == pipeQueue \o (IF in_flight THEN <<pipe.cb>> ELSE <<>>)

Closed == [pipe EXCEPT !.closed = TRUE, !.fd = FALSE, !.cb = 0]
Failures == [i \in 1 .. Len(Failed) |-> Result(Failed[i], FALSE)]

Close ==
  /\ ioThread.pc \in {"idle", "callback"} /\ ~pipe.closed
  /\ pipe' = Closed /\ armed' = FALSE /\ pipeQueue' = <<>> /\ ioTasks' = ioTasks \o Failures
  /\ UNCHANGED <<dir, room, ioThread, made, answered, overtook>>

(* The destructor of the public class posts ShutdownAndSelfDestruct. *)
Release ==
  /\ ioThread.pc = "idle" /\ ~pipe.deleted /\ Destroy \notin Range(ioTasks)
  /\ ioTasks' = Append(ioTasks, Destroy)
  /\ UNCHANGED <<dir, pipe, pipeQueue, room, armed, ioThread, made, answered, overtook>>

(* The callback returns, then StartNextQueuedWrite of the delivery below it. *)
CallbackReturns ==
  /\ ioThread.pc = "callback"
  /\ LET d == ioThread.depth - 1
     IN ioThread' = [depth |-> d, pc |-> IF dir = "write" THEN "next" ELSE IF d > 0 THEN "callback" ELSE "idle"]
  /\ pipe' = [pipe EXCEPT !.from_pump = @ /\ (dir = "write" \/ ioThread.depth > 1)]
  /\ UNCHANGED <<dir, pipeQueue, room, armed, ioTasks, made, answered, overtook>>

LeavePump == [pipe EXCEPT !.from_pump = @ /\ ioThread.depth > 0]

StartNextQueuedWrite ==
  /\ ioThread.pc = "next"
  /\ \/ /\ pipe.closed \/ in_flight
        /\ Return /\ pipe' = LeavePump /\ UNCHANGED <<pipeQueue, room, armed, ioTasks, answered>>
     \/ /\ ~pipe.closed /\ ~in_flight /\ pipeQueue = <<>>
        /\ Return /\ pipe' = LeavePump /\ armed' = FALSE /\ UNCHANGED <<pipeQueue, room, ioTasks, answered>>
     \/ /\ ~pipe.closed /\ ~in_flight /\ pipeQueue # <<>>
        /\ Drain([pipe EXCEPT !.cb = Head(pipeQueue), !.moved = 0], Tail(pipeQueue))
  /\ UNCHANGED <<dir, made, overtook>>

(* OnFileCanReadWithoutBlocking, OnFileCanWriteWithoutBlocking: the event      *)
(* spends the watch, and is ignored when nothing is in flight.                 *)
PumpEvent ==
  /\ ioThread.pc = "idle" /\ armed /\ (room.bytes > 0 \/ room.end # "open")
  /\ in_flight /\ Drain([pipe EXCEPT !.from_pump = TRUE], pipeQueue)
  /\ UNCHANGED <<dir, made, overtook>>

RunTask ==
  /\ ioThread.pc = "idle" /\ ioTasks # <<>>
  /\ LET t == Head(ioTasks)
     IN \/ /\ t.task = "result" /\ ioTasks' = Tail(ioTasks)
           /\ answered' = Append(answered, [request |-> t.request, ok |-> t.ok])
           /\ UNCHANGED <<pipe, pipeQueue, room, armed, ioThread>>
        \/ /\ t.task = "destroy" /\ pipe' = [Closed EXCEPT !.deleted = TRUE]
           /\ armed' = FALSE /\ pipeQueue' = <<>>
           /\ ioTasks' = Tail(ioTasks) \o (IF pipe.closed THEN <<>> ELSE Failures)
           /\ UNCHANGED <<room, ioThread, answered>>
  /\ UNCHANGED <<dir, made, overtook>>

(* The continuation of a drain, unless the stream is gone. *)
ContinueDrain ==
  /\ ioThread.pc = "idle" /\ ioTasks # <<>> /\ Head(ioTasks) = Continue
  /\ ioThread' = [ioThread EXCEPT !.pc = IF pipe.deleted THEN "idle" ELSE "drain"]
  /\ ioTasks' = Tail(ioTasks)
  /\ UNCHANGED <<dir, pipe, pipeQueue, room, armed, made, answered, overtook>>

DrainContinued ==
  /\ ioThread.pc = "drain"
  /\ IF in_flight THEN Drain(pipe, pipeQueue) ELSE DrainNothing
  /\ UNCHANGED <<dir, made, overtook>>

(* The other end supplies or takes bytes, closes or fails. *)
OtherEnd ==
  /\ room.end = "open"
  /\ \/ /\ room.supplied < MaxMoved /\ room' = [room EXCEPT !.bytes = @ + 1, !.supplied = @ + 1]
     \/ \E e \in {"error"} \cup (IF dir = "read" THEN {"eof"} ELSE {}) : room' = [room EXCEPT !.end = e]
  /\ UNCHANGED <<dir, pipe, pipeQueue, armed, ioTasks, ioThread, made, answered, overtook>>

Next ==
  \/ Close \/ Release \/ CallbackReturns \/ StartNextQueuedWrite \/ PumpEvent \/ RunTask \/ ContinueDrain
  \/ DrainContinued \/ OtherEnd
  \/ \E r \in Requests : Request(r)

----------------------------------------------------------------------------
TypeOK ==
  /\ pipe.cb \in Requests \cup {0} /\ pipe.moved \in 0 .. Length /\ Range(pipeQueue) \subseteq Requests
  /\ ioThread.pc \in {"idle", "callback", "next", "drain"} /\ ioThread.depth \in 0 .. Cardinality(Requests)

(* Exactly one call of the callback is made (async_stream.h): a request that   *)
(* was made is in flight, queued, in a task or answered, and in one of them.   *)
Places(r) ==
  (IF pipe.cb = r THEN 1 ELSE 0) + Len(SelectSeq(pipeQueue, LAMBDA q : q = r))
  + Len(SelectSeq(ioTasks, LAMBDA t : t.request = r)) + Len(SelectSeq(answered, LAMBDA a : a.request = r))
ExactlyOneCall == \A r \in Requests : Places(r) = (IF r <= made THEN 1 ELSE 0)

(* A request in flight has something that will move it on: the watch is armed  *)
(* or a continuation is posted.  A queued write has one in flight before it.   *)
NothingStalls ==
  ioThread.pc = "idle" =>
    /\ in_flight => armed \/ Continue \in Range(ioTasks)
    /\ pipeQueue # <<>> => in_flight

(* Writes go out in the order they were made.  (Violated: a callback that runs *)
(* from the pump finds no write in flight and starts its own ahead of the      *)
(* queue.)                                                                     *)
QueuedFirst == ~overtook

-----------------------------------------------------------------------------
(***************************************************************************)
(* PipeInputStream and PipeOutputStream over overlapped I/O                *)
(* (pipe_stream_win.cpp): the request in flight is a context that the      *)
(* kernel holds until its completion packet, a closed stream keeps the     *)
(* cancelled context as orphaned_ctx_ until that packet comes, and the     *)
(* pump drops packets of a handle that is not watched any more.            *)
(***************************************************************************)
CONSTANTS Kinds,   \* "read", "write"
          Ops      \* requests, in the order they are made: 1, 2, ...

VARIABLES
  kind,      \* which of the two streams
  wpipe,     \* handle_, closed_, shutting_down_, read_ctx_ or write_ctx_, orphaned_ctx_, the watch
  wqueue,    \* write_queue_
  held,      \* contexts the kernel works on; a completed one has a packet until it is dispatched
  packets,   \* completion packets, in order
  ptasks,    \* tasks posted to the I/O thread
  inside,    \* the pump is inside a callback of OnIOCompleted
  asked,     \* requests made so far
  told,      \* requests whose callback has run
  skipped,   \* queued writes that a completion without a packet left behind
  byClose    \* requests whose context was orphaned by Close

pipeWinVars == <<kind, wpipe, wqueue, held, packets, ptasks, inside, asked, told, skipped, byClose>>

WinInit ==
  /\ kind \in Kinds
  /\ wpipe = [handle |-> TRUE, closed |-> FALSE, shutting |-> FALSE, deleted |-> FALSE, watched |-> TRUE, ctx |-> 0, orphan |-> 0]
  /\ wqueue = <<>> /\ held = {} /\ packets = <<>> /\ ptasks = <<>> /\ inside = FALSE
  /\ asked = 0 /\ told = <<>> /\ skipped = {} /\ byClose = {}

Outcomes == {"ok", "pending", "failed"}

(* IssueRead, IssueWrite with context c: a call that does not stay pending     *)
(* posts the answer and drops the context - and starts no queued write.        *)
Issue(p, q, c, outcome) ==
  /\ wqueue' = q
  /\ IF outcome = "pending"
     THEN wpipe' = [p EXCEPT !.ctx = c] /\ held' = held \cup {c} /\ UNCHANGED <<ptasks, skipped>>
     ELSE /\ wpipe' = [p EXCEPT !.ctx = 0] /\ UNCHANGED held
          /\ ptasks' = Append(ptasks, [task |-> "result", op |-> c])
          /\ skipped' = skipped \cup Range(q)

----------------------------------------------------------------------------
(* ReadAsync, WriteAsync. *)
Submit(o) ==
  /\ o = asked + 1 /\ asked' = o /\ ~wpipe.deleted /\ ~wpipe.shutting
  /\ \/ /\ wpipe.closed \/ (kind = "read" /\ wpipe.ctx # 0)
        /\ ptasks' = Append(ptasks, [task |-> "result", op |-> o]) /\ UNCHANGED <<wpipe, wqueue, held, skipped>>
     \/ /\ ~wpipe.closed /\ kind = "write" /\ wpipe.ctx # 0
        /\ wqueue' = Append(wqueue, o) /\ UNCHANGED <<wpipe, held, ptasks, skipped>>
     \/ /\ ~wpipe.closed /\ wpipe.ctx = 0
        /\ \E outcome \in Outcomes : Issue(wpipe, wqueue, o, outcome)
  /\ UNCHANGED <<kind, packets, inside, told, byClose>>

(* Close: what is in flight is cancelled and its context kept, callback and    *)
(* all; the handle is closed at once only when nothing is in flight.           *)
KeepsHandle(p) == p.ctx # 0

ClosedPipe ==
  [wpipe EXCEPT !.closed = TRUE, !.watched = FALSE, !.orphan = wpipe.ctx, !.ctx = 0, !.handle = KeepsHandle(wpipe)]

(* CancelIoEx: what has not completed completes now. *)
Cancelled == IF wpipe.ctx \in held /\ wpipe.ctx \notin Range(packets) THEN Append(packets, wpipe.ctx) ELSE packets

CloseBody ==
  /\ wqueue' = <<>> /\ packets' = Cancelled /\ byClose' = byClose \cup ({wpipe.ctx} \ {0})

QueuedFailures == [i \in 1 .. Len(wqueue) |-> [task |-> "result", op |-> wqueue[i]]]

WinClose ==
  /\ ~wpipe.closed /\ wpipe' = ClosedPipe /\ CloseBody /\ ptasks' = ptasks \o QueuedFailures
  /\ UNCHANGED <<kind, held, inside, asked, told, skipped>>

(* The destructor of the public class posts ShutdownAndSelfDestruct. *)
WinRelease ==
  /\ ~wpipe.deleted /\ ~wpipe.shutting /\ ~inside /\ \A i \in DOMAIN ptasks : ptasks[i].task # "destroy"
  /\ ptasks' = Append(ptasks, [task |-> "destroy", op |-> 0])
  /\ UNCHANGED <<kind, wpipe, wqueue, held, packets, inside, asked, told, skipped, byClose>>

RunResult ==
  /\ ~inside /\ ptasks # <<>> /\ Head(ptasks).task = "result"
  /\ ptasks' = Tail(ptasks) /\ told' = Append(told, Head(ptasks).op)
  /\ UNCHANGED <<kind, wpipe, wqueue, held, packets, inside, asked, skipped, byClose>>

ShutdownAndSelfDestruct ==
  /\ ~inside /\ ptasks # <<>> /\ Head(ptasks).task = "destroy"
  /\ LET p == IF wpipe.closed THEN wpipe ELSE ClosedPipe
     IN wpipe' = [p EXCEPT !.shutting = TRUE, !.deleted = p.orphan = 0]
  /\ ptasks' = Tail(ptasks) \o QueuedFailures /\ CloseBody
  /\ UNCHANGED <<kind, held, inside, asked, told, skipped>>

----------------------------------------------------------------------------
(* The kernel completes an operation. *)
Complete(o) ==
  /\ o \in held /\ o \notin Range(packets) /\ packets' = Append(packets, o)
  /\ UNCHANGED <<kind, wpipe, wqueue, held, ptasks, inside, asked, told, skipped, byClose>>

(* The pump takes a packet: one of a handle that is not watched is dropped,    *)
(* the others go to OnIOCompleted, which answers the context in flight.        *)
DropPacket ==
  /\ ~inside /\ packets # <<>> /\ ~wpipe.watched
  /\ packets' = Tail(packets) /\ held' = held \ {Head(packets)}
  /\ UNCHANGED <<kind, wpipe, wqueue, ptasks, inside, asked, told, skipped, byClose>>

OnIOCompleted ==
  /\ ~inside /\ packets # <<>> /\ wpipe.watched /\ wpipe.ctx # 0
  /\ packets' = Tail(packets) /\ held' = held \ {Head(packets)}
  /\ told' = Append(told, wpipe.ctx) /\ wpipe' = [wpipe EXCEPT !.ctx = 0] /\ inside' = TRUE
  /\ UNCHANGED <<kind, wqueue, ptasks, asked, skipped, byClose>>

(* The callback returns; MaybeStartNextQueuedWrite does not look whether the   *)
(* callback has put a write in flight.                                         *)
WinCallbackReturns ==
  /\ inside /\ inside' = FALSE
  /\ IF wpipe.closed \/ wqueue = <<>> THEN UNCHANGED <<wpipe, wqueue, held, ptasks, skipped>>
     ELSE \E outcome \in Outcomes : Issue(wpipe, Tail(wqueue), Head(wqueue), outcome)
  /\ UNCHANGED <<kind, packets, asked, told, byClose>>

WinNext ==
  \/ WinClose \/ WinRelease \/ RunResult \/ ShutdownAndSelfDestruct \/ DropPacket \/ OnIOCompleted \/ WinCallbackReturns
  \/ \E o \in Ops : Submit(o) \/ Complete(o)

----------------------------------------------------------------------------
WinTypeOK ==
  /\ {wpipe.ctx, wpipe.orphan} \subseteq Ops \cup {0} /\ held \subseteq Ops
  /\ Range(wqueue) \cup skipped \cup byClose \subseteq Ops

(* The handle outlives the operations on it: while the kernel works on a       *)
(* context that the stream still owns, the handle is open and the stream       *)
(* exists.                                                                     *)
HandleOutlivesOps ==
  \A o \in held : o \in {wpipe.ctx, wpipe.orphan} => wpipe.handle /\ ~wpipe.deleted

(* No callback is called twice. *)
NeverTwice == IsInjective(told \o SelectSeq([i \in DOMAIN ptasks |-> ptasks[i].op], LAMBDA o : o # 0))

(* Exactly one call of the callback will be made (async_stream.h): when there  *)
(* is nothing left to happen, every request has been answered.  (Violated: a   *)
(* cancelled context's packet is dropped, and a queued write is left behind.)  *)
WinExactlyOneCall == held = {} /\ packets = <<>> /\ ptasks = <<>> /\ ~inside => Range(told) = 1 .. asked

(* A context is not freed while the kernel works on it.  (Violated: the next   *)
(* queued write replaces the context of a write made in the callback.)         *)
ContextsLive == \A o \in held : o \in {wpipe.ctx, wpipe.orphan}
=============================================================================
