------------------------------ MODULE UdpSocket ------------------------------
(***************************************************************************)
(* UDPSocket::Impl on POSIX (src/neixx/net/udp_socket_posix): the two      *)
(* queues of pending requests, drained by the I/O thread when the kernel   *)
(* says so, against Close and destruction from the thread that owns the    *)
(* shell.  Every request is followed to its callback.                      *)
(***************************************************************************)
EXTENDS Integers, Sequences
LOCAL INSTANCE SequencesExt

CONSTANTS Sends, Recvs,     \* requests, disjoint sets of numbers, made in increasing order
          MaxDatagrams      \* datagrams that arrive

VARIABLES
  udp,       \* the flags of Impl
  queue,     \* "send", "recv" -> the requests pending in the deque
  watch,     \* "send", "recv" -> the controller watches
  kernel,    \* room in the send buffer, datagrams waiting and arrived
  ioTasks,   \* tasks of the I/O thread
  ioThread,  \* the I/O thread: where it is
  shell,     \* the thread that owns the shell: where it is
  asked,     \* request -> "none", "asked", "called", "dropped" or "swallowed"
  sentOrder  \* sends in the order the kernel took them

udpVars == <<udp, queue, watch, kernel, ioTasks, ioThread, shell, asked, sentOrder>>

Requests == Sends \cup Recvs
Kind(r) == IF r \in Sends THEN "send" ELSE "recv"

Init ==
  /\ udp = [fd |-> FALSE, closed |-> FALSE, orphaned |-> FALSE, hold |-> FALSE]
  /\ queue = [k \in {"send", "recv"} |-> <<>>] /\ watch = [k \in {"send", "recv"} |-> FALSE]
  /\ kernel = [room |-> TRUE, waiting |-> 0, arrived |-> 0]
  /\ ioTasks = <<>> /\ ioThread = [pc |-> "idle"] /\ shell = "new"
  /\ asked = [r \in Requests |-> "none"] /\ sentOrder = <<>>

Idle == [pc |-> "idle"]
Done(r) == [task |-> "done", req |-> r]          \* PostSendToResult, PostRecvFromResult
DoneAll(s) == [i \in DOMAIN s |-> Done(s[i])]

----------------------------------------------------------------------------
(* The owner. *)

(* DoBind; socket() or bind() may fail, and then there is no descriptor. *)
Bind ==
  /\ shell = "new" /\ shell' = "idle"
  /\ \E ok \in BOOLEAN : udp' = [udp EXCEPT !.fd = ok]
  /\ UNCHANGED <<queue, watch, kernel, ioTasks, ioThread, asked, sentOrder>>

(* SendTo and RecvFrom go to the I/O thread. *)
Request(r) ==
  /\ shell = "idle" /\ asked[r] = "none" /\ \A q \in Requests : Kind(q) = Kind(r) /\ q < r => asked[q] # "none"
  /\ asked' = [asked EXCEPT ![r] = "asked"]
  /\ ioTasks' = Append(ioTasks, [task |-> "do", req |-> r])
  /\ UNCHANGED <<udp, queue, watch, kernel, ioThread, shell, sentOrder>>

Close ==
  /\ shell = "idle" /\ ~udp.closed
  /\ udp' = [udp EXCEPT !.closed = TRUE] /\ shell' = "sweep"
  /\ UNCHANGED <<queue, watch, kernel, ioTasks, ioThread, asked, sentOrder>>

Sweep ==
  /\ shell = "sweep" /\ shell' = "cleanup"
  /\ ioTasks' = ioTasks \o DoneAll(queue["send"]) \o DoneAll(queue["recv"])
  /\ queue' = [k \in DOMAIN queue |-> <<>>]
  /\ UNCHANGED <<udp, watch, kernel, ioThread, asked, sentOrder>>

PostCleanup ==
  /\ shell = "cleanup" /\ shell' = "idle"
  /\ ioTasks' = Append(ioTasks, [task |-> "cleanup"])
  /\ udp' = [udp EXCEPT !.hold = FALSE]
  /\ UNCHANGED <<queue, watch, kernel, ioThread, asked, sentOrder>>

(* The destructor: ~UDPSocket calls Orphan. *)
Orphan ==
  /\ shell = "idle" /\ shell' = "orphan"
  /\ udp' = [udp EXCEPT !.orphaned = TRUE]
  /\ UNCHANGED <<queue, watch, kernel, ioTasks, ioThread, asked, sentOrder>>

DroppedIn(s) == [r \in Requests |-> IF \E i \in DOMAIN s : s[i] = r THEN "dropped" ELSE asked[r]]

OrphanDiscards ==
  /\ shell = "orphan" /\ shell' = "gone"
  /\ asked' = DroppedIn(queue["send"] \o queue["recv"])
  /\ queue' = [k \in DOMAIN queue |-> <<>>]
  /\ udp' = [udp EXCEPT !.hold = TRUE]
  /\ ioTasks' = Append(ioTasks, [task |-> "orphan"])
  /\ UNCHANGED <<watch, kernel, ioThread, sentOrder>>

----------------------------------------------------------------------------
(* The I/O thread runs a task. *)

Refuses == udp.orphaned \/ udp.closed \/ ~udp.fd

(* DoSendTo and DoRecvFrom up to their first lock; a bad address fails too. *)
DoRequest ==
  /\ ioThread.pc = "idle" /\ ioTasks # <<>> /\ Head(ioTasks).task = "do"
  /\ LET r == Head(ioTasks).req
     IN  \/ /\ Refuses \/ Kind(r) = "send"
            /\ ioTasks' = Append(Tail(ioTasks), Done(r)) /\ UNCHANGED ioThread
         \/ /\ ~Refuses
            /\ ioThread' = [pc |-> Kind(r), req |-> r] /\ ioTasks' = Tail(ioTasks)
  /\ UNCHANGED <<udp, queue, watch, kernel, shell, asked, sentOrder>>

(* A send queues behind the sends that wait; the mutant does not look at them. *)
NeverBehind == FALSE
QueuesBehind == queue["send"] # <<>>

SendBehind ==
  /\ ioThread.pc = "send" /\ QueuesBehind
  /\ queue' = [queue EXCEPT !["send"] = Append(@, ioThread.req)]
  /\ ioThread' = Idle
  /\ UNCHANGED <<udp, watch, kernel, ioTasks, shell, asked, sentOrder>>

(* sendto: taken, or a hard error (ENOBUFS and the rest). *)
SendNow ==
  /\ ioThread.pc = "send" /\ ~QueuesBehind /\ ioThread' = Idle
  /\ ioTasks' = Append(ioTasks, Done(ioThread.req))
  /\ \/ UNCHANGED sentOrder
     \/ kernel.room /\ sentOrder' = Append(sentOrder, ioThread.req)
  /\ UNCHANGED <<udp, queue, watch, kernel, shell, asked>>

(* EAGAIN: the request is queued and the write watcher armed. *)
SendWaits ==
  /\ ioThread.pc = "send" /\ ~QueuesBehind /\ ~kernel.room /\ ioThread' = Idle
  /\ queue' = [queue EXCEPT !["send"] = Append(@, ioThread.req)]
  /\ watch' = [watch EXCEPT !["send"] = TRUE]
  /\ UNCHANGED <<udp, kernel, ioTasks, shell, asked, sentOrder>>

RecvQueues ==
  /\ ioThread.pc = "recv" /\ ioThread' = Idle
  /\ queue' = [queue EXCEPT !["recv"] = Append(@, ioThread.req)]
  /\ watch' = [watch EXCEPT !["recv"] = @ \/ queue["recv"] = <<>>]
  /\ UNCHANGED <<udp, kernel, ioTasks, shell, asked, sentOrder>>

(* A result reaches the user, unless the shell is gone. *)
RunResult ==
  /\ ioThread.pc = "idle" /\ ioTasks # <<>> /\ Head(ioTasks).task = "done"
  /\ asked' = [asked EXCEPT ![Head(ioTasks).req] = IF udp.orphaned THEN "dropped" ELSE "called"]
  /\ ioTasks' = Tail(ioTasks)
  /\ UNCHANGED <<udp, queue, watch, kernel, ioThread, shell, sentOrder>>

(* DoCloseCleanup: the descriptor goes, then the secondary sweep of requests   *)
(* that slipped past Close; the mutant leaves them queued.                     *)
SecondSweepNot == [left |-> queue, failed |-> <<>>]
SecondSweep == [left |-> [k \in DOMAIN queue |-> <<>>], failed |-> queue["send"] \o queue["recv"]]

DoCloseCleanup ==
  /\ watch' = [k \in DOMAIN watch |-> FALSE]
  /\ queue' = SecondSweep.left
  /\ ioTasks' = Tail(ioTasks) \o DoneAll(SecondSweep.failed)

RunCleanup ==
  /\ ioThread.pc = "idle" /\ ioTasks # <<>> /\ Head(ioTasks).task = "cleanup"
  /\ DoCloseCleanup
  /\ udp' = [udp EXCEPT !.closed = TRUE, !.fd = FALSE]
  /\ UNCHANGED <<kernel, ioThread, shell, asked, sentOrder>>

(* DoOrphanCleanup: a closed socket only loses its hold. *)
DoOrphanCleanup ==
  /\ ioThread.pc = "idle" /\ ioTasks # <<>> /\ Head(ioTasks).task = "orphan"
  /\ IF udp.closed
     THEN udp' = [udp EXCEPT !.hold = FALSE] /\ ioTasks' = Tail(ioTasks) /\ UNCHANGED <<queue, watch, asked>>
     ELSE /\ asked' = DroppedIn(queue["send"] \o queue["recv"])
          /\ queue' = [k \in DOMAIN queue |-> <<>>] /\ watch' = [k \in DOMAIN watch |-> FALSE]
          /\ udp' = [udp EXCEPT !.closed = TRUE, !.fd = FALSE, !.hold = FALSE]
          /\ ioTasks' = Tail(ioTasks)
  /\ UNCHANGED <<kernel, ioThread, shell, sentOrder>>

----------------------------------------------------------------------------
(* OnFileCanRead and OnFileCanWrite: drain a queue until the kernel would      *)
(* block.  The request is off the queue during its system call.                *)

OnFileReady(k) ==
  /\ ioThread.pc = "idle" /\ watch[k] /\ (IF k = "send" THEN kernel.room ELSE kernel.waiting > 0)
  /\ ioThread' = [pc |-> "drain", kind |-> k, received |-> FALSE]
  /\ UNCHANGED <<udp, queue, watch, kernel, ioTasks, shell, asked, sentOrder>>

Pop ==
  /\ ioThread.pc = "drain" /\ queue[ioThread.kind] # <<>>
  /\ ioThread' = [ioThread EXCEPT !.pc = "call"] @@ [req |-> Head(queue[ioThread.kind])]
  /\ queue' = [queue EXCEPT ![ioThread.kind] = Tail(@)]
  /\ UNCHANGED <<udp, watch, kernel, ioTasks, shell, asked, sentOrder>>

Drain(received) == [pc |-> "drain", kind |-> ioThread.kind, received |-> ioThread.received \/ received]

(* The call succeeds, or fails hard; the user is told. *)
CallEnds ==
  /\ ioThread.pc = "call"
  /\ ioTasks' = Append(ioTasks, Done(ioThread.req))
  /\ \/ ioThread' = Drain(FALSE) /\ UNCHANGED <<kernel, sentOrder>>
     \/ /\ ioThread.kind = "send" /\ kernel.room
        /\ ioThread' = Drain(FALSE) /\ sentOrder' = Append(sentOrder, ioThread.req) /\ UNCHANGED kernel
     \/ /\ ioThread.kind = "recv" /\ kernel.waiting > 0
        /\ ioThread' = Drain(TRUE) /\ kernel' = [kernel EXCEPT !.waiting = @ - 1] /\ UNCHANGED sentOrder
  /\ UNCHANGED <<udp, queue, watch, shell, asked>>

(* An ICMP error of an earlier send: the request is gone and nobody is told. *)
CallSwallowed ==
  /\ ioThread.pc = "call" /\ ioThread.kind = "recv" /\ ioThread' = Drain(FALSE)
  /\ asked' = [asked EXCEPT ![ioThread.req] = "swallowed"]
  /\ UNCHANGED <<udp, queue, watch, kernel, ioTasks, shell, sentOrder>>

(* EAGAIN: back to the front. *)
CallWouldBlock ==
  /\ ioThread.pc = "call" /\ (IF ioThread.kind = "send" THEN ~kernel.room ELSE kernel.waiting = 0)
  /\ queue' = [queue EXCEPT ![ioThread.kind] = <<ioThread.req>> \o @]
  /\ ioThread' = [pc |-> "after", kind |-> ioThread.kind, received |-> ioThread.received]
  /\ UNCHANGED <<udp, watch, kernel, ioTasks, shell, asked, sentOrder>>

DrainEnds ==
  /\ ioThread.pc = "drain" /\ queue[ioThread.kind] = <<>>
  /\ ioThread' = [ioThread EXCEPT !.pc = "after"]
  /\ UNCHANGED <<udp, queue, watch, kernel, ioTasks, shell, asked, sentOrder>>

(* After datagrams the sends are flushed; the watcher of an empty queue stops. *)
AfterDrain ==
  /\ ioThread.pc = "after"
  /\ watch' = [watch EXCEPT ![ioThread.kind] = @ /\ queue[ioThread.kind] # <<>>]
  /\ ioThread' = IF ioThread.received THEN [pc |-> "drain", kind |-> "send", received |-> FALSE] ELSE Idle
  /\ UNCHANGED <<udp, queue, kernel, ioTasks, shell, asked, sentOrder>>

----------------------------------------------------------------------------
(* The kernel: room in the send buffer comes and goes, datagrams arrive. *)
Kernel ==
  /\ udp.fd
  /\ \/ kernel' = [kernel EXCEPT !.room = ~@]
     \/ kernel.arrived < MaxDatagrams /\ kernel' = [kernel EXCEPT !.waiting = @ + 1, !.arrived = @ + 1]
  /\ UNCHANGED <<udp, queue, watch, ioTasks, ioThread, shell, asked, sentOrder>>

Next ==
  \/ Bind \/ Close \/ Sweep \/ PostCleanup \/ Orphan \/ OrphanDiscards
  \/ DoRequest \/ SendBehind \/ SendNow \/ SendWaits \/ RecvQueues \/ RunResult \/ RunCleanup \/ DoOrphanCleanup
  \/ Pop \/ CallEnds \/ CallSwallowed \/ CallWouldBlock \/ DrainEnds \/ AfterDrain \/ Kernel
  \/ \E r \in Requests : Request(r)
  \/ \E k \in {"send", "recv"} : OnFileReady(k)

----------------------------------------------------------------------------
TypeOK ==
  /\ udp \in [{"fd", "closed", "orphaned", "hold"} -> BOOLEAN] /\ watch \in [{"send", "recv"} -> BOOLEAN]
  /\ queue["send"] \in Seq(Sends) /\ queue["recv"] \in Seq(Recvs)
  /\ asked \in [Requests -> {"none", "asked", "called", "dropped", "swallowed"}]
  /\ kernel.waiting \in 0..kernel.arrived /\ sentOrder \in Seq(Sends)

Quiet == ioTasks = <<>> /\ ioThread.pc = "idle" /\ shell \in {"idle", "gone"}

(* A closed socket forgets no request: whatever raced with Close, when all is  *)
(* quiet every request was answered, dropped with the shell, or lost to an     *)
(* ICMP error.  An open one keeps it only where its watcher will find it.      *)
NoRequestForgotten ==
  Quiet => \A r \in Requests : asked[r] = "asked" =>
             ~udp.closed /\ watch[Kind(r)] /\ \E i \in DOMAIN queue[Kind(r)] : queue[Kind(r)][i] = r

(* Datagrams leave in the order they were asked for, queued or not. *)
SendsInOrder == \A i, j \in DOMAIN sentOrder : i < j => sentOrder[i] < sentOrder[j]

(* A shell that is gone leaves no descriptor and no self-reference. *)
GoneIsClosed == Quiet /\ shell = "gone" => udp.closed /\ ~udp.fd /\ ~udp.hold

-----------------------------------------------------------------------------
(***************************************************************************)
(* UDPSocket::Impl on Windows (src/neixx/net/udp_socket_win): overlapped   *)
(* requests that the kernel owns until they complete, counted by           *)
(* pending_io_count_, and a teardown that waits for the last of them.      *)
(* Close may come from the I/O thread or from another one.                 *)
(***************************************************************************)
CONSTANT Ops     \* requests, sends and receives alike

VARIABLES
  usock,     \* the fields of Impl; count is pending_io_count_, elsewhere marks a Close off the I/O thread
  inflight,  \* requests the kernel holds
  aborted,   \* requests CancelIoEx has cancelled, not yet completed
  calling,   \* the request whose system call the I/O thread is making, if any
  utasks,    \* tasks of the I/O thread
  uowner,    \* the shell: "new", "idle", "posting" a close or an orphan, "gone"
  issued     \* request -> "none", "asked", "called" or "dropped"

udpWinVars == <<usock, inflight, aborted, calling, utasks, uowner, issued>>

WinInit ==
  /\ usock = [open |-> FALSE, watched |-> FALSE, closed |-> FALSE, orphaned |-> FALSE, hold |-> FALSE, count |-> 0,
              elsewhere |-> FALSE]
  /\ inflight = {} /\ aborted = {} /\ calling = {} /\ utasks = <<>> /\ uowner = "new" /\ issued = [r \in Ops |-> "none"]

WinDone(r) == [task |-> "done", req |-> r]

(* DoCloseCleanup and ReleaseSelfHoldIfNeeded. *)
Cleaned(s) == [s EXCEPT !.closed = TRUE, !.watched = FALSE, !.open = FALSE, !.hold = FALSE]

WinBind ==
  /\ uowner = "new" /\ uowner' = "idle"
  /\ \E ok \in BOOLEAN : usock' = [usock EXCEPT !.open = ok]
  /\ UNCHANGED <<calling, inflight, aborted, utasks, issued>>

(* SendTo and RecvFrom from another thread. *)
WinRequest(r) ==
  /\ uowner = "idle" /\ issued[r] = "none"
  /\ issued' = [issued EXCEPT ![r] = "asked"]
  /\ utasks' = Append(utasks, [task |-> "do", req |-> r])
  /\ UNCHANGED <<calling, usock, inflight, aborted, uowner>>

(* Close from another thread: closed_ is set here, and the task that is to do  *)
(* the rest runs Close again.                                                  *)
CloseElsewhere ==
  /\ uowner = "idle" /\ ~usock.closed
  /\ usock' = [usock EXCEPT !.closed = TRUE, !.elsewhere = TRUE] /\ uowner' = "closing"
  /\ UNCHANGED <<calling, inflight, aborted, utasks, issued>>

PostClose ==
  /\ uowner = "closing" /\ uowner' = "idle"
  /\ utasks' = Append(utasks, [task |-> "close"])
  /\ UNCHANGED <<calling, usock, inflight, aborted, issued>>

WinOrphan ==
  /\ uowner = "idle" /\ uowner' = "orphaning"
  /\ usock' = [usock EXCEPT !.orphaned = TRUE, !.hold = TRUE]
  /\ UNCHANGED <<calling, inflight, aborted, utasks, issued>>

PostOrphan ==
  /\ uowner = "orphaning" /\ uowner' = "gone"
  /\ utasks' = Append(utasks, [task |-> "orphan"])
  /\ UNCHANGED <<calling, usock, inflight, aborted, issued>>

----------------------------------------------------------------------------
(* The I/O thread. *)

WinRefuses == usock.orphaned \/ usock.closed \/ ~usock.open

(* DoSendTo, DoRecvFrom: EnsurePumpRegistered, then refused or on to the call. *)
WinDoRequest ==
  /\ calling = {} /\ utasks # <<>> /\ Head(utasks).task = "do"
  /\ LET r == Head(utasks).req
     IN  IF WinRefuses
         THEN utasks' = Append(Tail(utasks), WinDone(r)) /\ UNCHANGED calling
         ELSE utasks' = Tail(utasks) /\ calling' = {r}
  /\ usock' = [usock EXCEPT !.watched = TRUE]
  /\ UNCHANGED <<inflight, aborted, uowner, issued>>

(* WSASendTo, WSARecvFrom: the kernel has the request now. *)
CallPends(r) ==
  /\ r \in calling /\ calling' = {}
  /\ usock' = [usock EXCEPT !.count = @ + 1] /\ inflight' = inflight \cup {r}
  /\ UNCHANGED <<aborted, utasks, uowner, issued>>

(* It fails at once: counted up and down again, and if the socket was closed   *)
(* or orphaned meanwhile this may have been the last.                          *)
CallFails(r) ==
  /\ r \in calling /\ calling' = {}
  /\ utasks' = Append(utasks, WinDone(r))
  /\ usock' = IF (usock.closed \/ usock.orphaned) /\ usock.count = 0 THEN Cleaned(usock) ELSE usock
  /\ UNCHANGED <<inflight, aborted, uowner, issued>>

(* Close on the I/O thread: cancel, then wait for the requests or clean up. *)
ClosedWhenDrained ==
  IF usock.count > 0 THEN [usock EXCEPT !.closed = TRUE, !.hold = TRUE] ELSE Cleaned(usock)

CloseHere ==
  /\ calling = {} /\ uowner = "idle" /\ ~usock.closed /\ usock.watched
  /\ aborted' = inflight
  /\ usock' = ClosedWhenDrained
  /\ UNCHANGED <<calling, inflight, utasks, uowner, issued>>

(* The posted Close: closed_.exchange finds it set, always. *)
RunClose ==
  /\ calling = {} /\ utasks # <<>> /\ Head(utasks).task = "close" /\ utasks' = Tail(utasks)
  /\ UNCHANGED <<calling, usock, inflight, aborted, uowner, issued>>

WinDoOrphanCleanup ==
  /\ calling = {} /\ utasks # <<>> /\ Head(utasks).task = "orphan" /\ utasks' = Tail(utasks)
  /\ IF usock.closed
     THEN usock' = [usock EXCEPT !.hold = FALSE] /\ UNCHANGED aborted
     ELSE aborted' = inflight /\ usock' = IF usock.count = 0 THEN Cleaned(usock) ELSE usock
  /\ UNCHANGED <<calling, inflight, uowner, issued>>

WinRunResult ==
  /\ calling = {} /\ utasks # <<>> /\ Head(utasks).task = "done" /\ utasks' = Tail(utasks)
  /\ issued' = [issued EXCEPT ![Head(utasks).req] = IF usock.orphaned THEN "dropped" ELSE "called"]
  /\ UNCHANGED <<calling, usock, inflight, aborted, uowner>>

(* OnIOCompleted: the count goes down before anything else, and the last       *)
(* completion of a closed or orphaned socket cleans up.                        *)
TornDownLast == usock.orphaned \/ usock.closed

OnIOCompleted(r) ==
  /\ calling = {} /\ r \in inflight /\ usock.watched
  /\ LET down == [usock EXCEPT !.count = @ - 1]
     IN  usock' = IF TornDownLast /\ usock.count = 1 THEN Cleaned(down) ELSE down
  /\ inflight' = inflight \ {r} /\ aborted' = aborted \ {r}
  /\ IF usock.orphaned
     THEN issued' = [issued EXCEPT ![r] = "dropped"] /\ UNCHANGED utasks
     ELSE utasks' = Append(utasks, WinDone(r)) /\ UNCHANGED issued
  /\ UNCHANGED <<calling, uowner>>

WinNext ==
  \/ WinBind \/ CloseElsewhere \/ PostClose \/ WinOrphan \/ PostOrphan
  \/ WinDoRequest \/ CloseHere \/ RunClose \/ WinDoOrphanCleanup \/ WinRunResult
  \/ \E r \in Ops : WinRequest(r) \/ CallPends(r) \/ CallFails(r) \/ OnIOCompleted(r)

----------------------------------------------------------------------------
WinTypeOK ==
  /\ \A f \in {"open", "watched", "closed", "orphaned", "hold", "elsewhere"} : usock[f] \in BOOLEAN
  /\ usock.count \in Nat /\ inflight \subseteq Ops /\ aborted \subseteq inflight
  /\ issued \in [Ops -> {"none", "asked", "called", "dropped"}]

WinQuiet == utasks = <<>> /\ calling = {} /\ uowner \in {"idle", "gone"} /\ aborted = {}

(* No request is forgotten: when all is quiet what is unanswered is with the   *)
(* kernel, its completion is counted, and it will be delivered.  A socket that *)
(* was closed on the I/O thread, or orphaned unclosed, is closed by the last.  *)
WinNoRequestForgotten ==
  /\ usock.count = 0 <=> inflight = {}
  /\ WinQuiet => \A r \in Ops : issued[r] = "asked" => r \in inflight /\ usock.watched
  /\ WinQuiet /\ inflight = {} /\ ~usock.elsewhere /\ (usock.closed \/ uowner = "gone") =>
       usock.closed /\ ~usock.open /\ ~usock.hold

(* Close ends with the socket closed and nothing in flight, from whatever      *)
(* thread it is called.  (Violated: see CloseElsewhere and RunClose.)          *)
CloseCloses == WinQuiet /\ usock.closed => ~usock.open /\ inflight = {}
=============================================================================
