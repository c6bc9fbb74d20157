--------------------------- MODULE TcpClientSocket ---------------------------
(***************************************************************************)
(* TCPClientSocket::Impl on POSIX (src/neixx/net/tcp_client_socket_posix): *)
(* a socket whose calls may come from the I/O thread or from one other     *)
(* thread, and whose readiness callbacks and results run on the I/O        *)
(* thread.  A step is a region under mutex_, an atomic access, or a system *)
(* call; bytes are counted, not kept.                                      *)
(***************************************************************************)
EXTENDS Integers, Sequences
LOCAL INSTANCE Functions

CONSTANTS
  WriteSize,      \* bytes of a write
  MaxReads,       \* bound: ReadAsync and WriteAsync calls
  MaxStray        \* bound: readiness events with nothing to read

VARIABLES
  sock,       \* the fields of Impl
  watch,      \* the two FdWatchControllers: armed or not
  kernel,     \* the connection: its state, bytes to read, FIN, room to write; the descriptor is open
  io_runner,  \* tasks posted to the I/O thread
  threads,    \* "io", "user" -> the call or callback it is in
  request,    \* "connect", "read", "write" -> "idle" or "asked": a user callback is owed
  late,       \* requests stored in a socket that was already closed
  reads, stray

tcpVars == <<sock, watch, kernel, io_runner, threads, request, late, reads, stray>>

Idle == [pc |-> "idle"]
Goto(t, f) == threads' = [threads EXCEPT ![t] = f]
At(t, pc) == threads[t].pc = pc

(* Impl(): a socket to connect; Impl(accepted_fd): one from TCPServerSocket. *)
NewSocket == [runner |-> FALSE, fd |-> FALSE, connected |-> FALSE, closed |-> FALSE, orphaned |-> FALSE, hold |-> FALSE,
              connect_cb |-> FALSE, read_cb |-> FALSE, write_cb |-> "none", offset |-> 0, timer |-> FALSE, dead_cb |-> FALSE]
Accepted == [NewSocket EXCEPT !.runner = TRUE, !.fd = TRUE, !.connected = TRUE]

Init ==
  /\ sock \in {NewSocket, Accepted}
  /\ watch = [read |-> FALSE, write |-> FALSE]
  /\ kernel = [state |-> IF sock.connected THEN "up" ELSE "none", bytes |-> 0, fin |-> FALSE, room |-> 1, open |-> sock.connected]
  /\ io_runner = <<>> /\ threads = [t \in {"io", "user"} |-> Idle]
  /\ request = [k \in {"connect", "read", "write"} |-> "idle"] /\ late = {}
  /\ reads = 0 /\ stray = 0

Task(kind) == [task |-> kind]
Result(k) == [task |-> "result", of |-> k, checked |-> TRUE]      \* PostReadResult, ...: looks at orphaned_ when it runs
Failure(k) == [task |-> "result", of |-> k, checked |-> FALSE]    \* BindOnce(callback, false): does not
Post(ts) == io_runner' = io_runner \o ts

(* The client calls while it has the shell, and from a thread that is free.    *)
MayCall(t) == At(t, "idle") /\ ~sock.orphaned

OnIoThread(t) == t = "io" \/ ~sock.runner      \* without a runner everything is done at once

----------------------------------------------------------------------------
(* Connect. *)

Connect(t) ==
  /\ MayCall(t) /\ ~sock.runner
  /\ sock' = [sock EXCEPT !.runner = TRUE]
  /\ request' = [request EXCEPT !["connect"] = "asked"]
  /\ IF t = "io" THEN Goto(t, [pc |-> "connect"]) /\ UNCHANGED io_runner
                 ELSE Post(<<Task("connect")>>) /\ UNCHANGED threads
  /\ UNCHANGED <<watch, kernel, late, reads, stray>>

(* connect() ends at once, fails at once or goes on, and then SO_ERROR is      *)
(* looked at.  While the handshake goes on it is 0, which DoConnect reads as   *)
(* success, or EINPROGRESS.  A failure before connect() leaves without calling *)
(* back.                                                                       *)
DoConnect ==
  /\ At("io", "connect")
  /\ Goto("io", Idle)
  /\ late' = IF sock.closed THEN late \cup {"connect"} ELSE late
  /\ \/ UNCHANGED <<sock, watch, kernel, io_runner>>                       \* no socket, or no address family
     \/ /\ kernel' = [kernel EXCEPT !.state = "refused"]
        /\ Post(<<Failure("connect")>>) /\ UNCHANGED <<sock, watch>>
     \/ \E state \in {"up", "connecting", "refused"} :
        /\ kernel' = [kernel EXCEPT !.state = state, !.open = TRUE]
        /\ sock' = [sock EXCEPT !.fd = TRUE, !.connected = (state # "refused")]
        /\ Post(<<Result("connect")>>) /\ UNCHANGED watch
     \/ /\ kernel' = [kernel EXCEPT !.state = "connecting", !.open = TRUE]
        /\ sock' = [sock EXCEPT !.fd = TRUE, !.connect_cb = TRUE]
        /\ watch' = [watch EXCEPT !.write = TRUE] /\ UNCHANGED io_runner
  /\ UNCHANGED <<request, reads, stray>>

(* OnFileCanWriteWithoutBlocking of a socket that is not connected. *)
OnConnectReady ==
  /\ At("io", "idle") /\ watch.write /\ ~sock.connected /\ kernel.state \in {"up", "refused"}
  /\ sock' = [sock EXCEPT !.connected = sock.fd /\ kernel.state = "up", !.connect_cb = FALSE]
  /\ watch' = [watch EXCEPT !.write = FALSE]
  /\ Post(IF sock.connect_cb THEN <<Result("connect")>> ELSE <<>>)
  /\ UNCHANGED <<kernel, threads, request, late, reads, stray>>

----------------------------------------------------------------------------
(* ReadAsync and WriteAsync: on the I/O thread, or sent there. *)

ReadAsync(t, k) ==
  /\ MayCall(t) /\ sock.runner /\ request[k] = "idle" /\ reads < MaxReads
  /\ reads' = reads + 1
  /\ request' = [request EXCEPT ![k] = "asked"]
  /\ IF t = "io" THEN Goto(t, [pc |-> k]) /\ UNCHANGED io_runner
                 ELSE Post(<<Task(k)>>) /\ UNCHANGED threads
  /\ UNCHANGED <<sock, watch, kernel, late, stray>>

CheckClosed(k) ==
  /\ At("io", k)
  /\ IF sock.closed \/ ~sock.fd THEN Goto("io", Idle) /\ Post(<<Failure(k)>>)
                                ELSE Goto("io", [pc |-> "store", of |-> k]) /\ UNCHANGED io_runner
  /\ UNCHANGED <<sock, watch, kernel, request, late, reads, stray>>

(* The fields under mutex_, then StartWatching, which fails without a          *)
(* descriptor.                                                                 *)
StoreRequest ==
  /\ At("io", "store")
  /\ LET k == threads["io"].of
     IN  /\ sock' = IF k = "read" THEN [sock EXCEPT !.read_cb = TRUE] ELSE [sock EXCEPT !.write_cb = "user", !.offset = 0]
         /\ watch' = [watch EXCEPT ![k] = sock.fd]
         /\ late' = IF sock.closed THEN late \cup {k} ELSE late
  /\ Goto("io", Idle)
  /\ UNCHANGED <<kernel, io_runner, request, reads, stray>>

----------------------------------------------------------------------------
(* The pump calls back on the I/O thread. *)

OnFileCanRead ==
  /\ At("io", "idle") /\ watch.read
  /\ \/ (kernel.bytes > 0 \/ kernel.fin) /\ UNCHANGED stray
     \/ kernel.bytes = 0 /\ ~kernel.fin /\ stray < MaxStray /\ stray' = stray + 1
  /\ IF sock.read_cb THEN Goto("io", [pc |-> "reading"]) /\ sock' = [sock EXCEPT !.read_cb = FALSE] /\ UNCHANGED watch
                     ELSE watch' = [watch EXCEPT !.read = FALSE] /\ UNCHANGED <<sock, threads>>
  /\ UNCHANGED <<kernel, io_runner, request, late, reads>>

(* read(): data, end of stream or an error, or EAGAIN and the request is put   *)
(* back.                                                                       *)
Rearm == Goto("io", [pc |-> "store", of |-> "read"]) /\ UNCHANGED io_runner

ReadSome ==
  /\ At("io", "reading")
  /\ \/ sock.fd /\ kernel.bytes > 0
        /\ kernel' = [kernel EXCEPT !.bytes = 0] /\ watch' = [watch EXCEPT !.read = FALSE]
        /\ Post(<<Result("read")>>) /\ Goto("io", Idle)
     \/ (~sock.fd \/ (kernel.bytes = 0 /\ kernel.fin)) /\ Post(<<Result("read")>>) /\ Goto("io", Idle) /\ UNCHANGED <<kernel, watch>>
     \/ sock.fd /\ kernel.bytes = 0 /\ ~kernel.fin /\ Rearm /\ UNCHANGED <<kernel, watch>>
  /\ UNCHANGED <<sock, request, late, reads, stray>>

OnFileCanWrite ==
  /\ At("io", "idle") /\ watch.write /\ sock.connected /\ (kernel.room > 0 \/ kernel.fin)
  /\ IF sock.write_cb # "none" THEN Goto("io", [pc |-> "writing"]) /\ UNCHANGED watch
                               ELSE watch' = [watch EXCEPT !.write = FALSE] /\ UNCHANGED threads
  /\ UNCHANGED <<sock, kernel, io_runner, request, late, reads, stray>>

(* send(), and the fields under mutex_: Close may have taken the callback in   *)
(* between.  The descriptor is read again, so a closed one fails.              *)
TakeWriteCallback == IF sock.write_cb = "none" THEN <<>> ELSE <<Result("write")>>

SendSome ==
  /\ At("io", "writing") /\ Goto("io", Idle)
  /\ \/ /\ sock.fd /\ ~kernel.fin /\ kernel.room >= WriteSize - sock.offset
        /\ sock' = [sock EXCEPT !.write_cb = "none", !.offset = 0]
        /\ watch' = [watch EXCEPT !.write = FALSE] /\ Post(TakeWriteCallback)
     \/ /\ sock.fd /\ ~kernel.fin /\ kernel.room \in 1..(WriteSize - sock.offset - 1)
        /\ sock' = [sock EXCEPT !.offset = @ + kernel.room] /\ UNCHANGED <<watch, io_runner>>
     \/ /\ ~sock.fd \/ kernel.fin
        /\ sock' = [sock EXCEPT !.write_cb = "none", !.offset = 0]
        /\ Post(TakeWriteCallback) /\ UNCHANGED watch
  /\ kernel' = IF sock.fd /\ ~kernel.fin THEN [kernel EXCEPT !.room = 0] ELSE kernel
  /\ UNCHANGED <<request, late, reads, stray>>

----------------------------------------------------------------------------
(* Close.  Each owed read or write is failed under mutex_; the descriptor is   *)
(* taken and closed on the I/O thread; a self-hold is released.                *)

Close(t) ==
  /\ sock' = [sock EXCEPT !.closed = TRUE]
  /\ Goto(t, IF sock.closed THEN Idle ELSE [pc |-> "closing"])

CallClose(t) ==
  /\ MayCall(t) /\ ~sock.closed
  /\ Close(t)
  /\ UNCHANGED <<watch, kernel, io_runner, request, late, reads, stray>>

CloseFailsPending ==
  (IF sock.read_cb THEN <<Result("read")>> ELSE <<>>) \o (IF sock.write_cb # "none" THEN <<Result("write")>> ELSE <<>>)

CloseRequests(t) ==
  /\ At(t, "closing")
  /\ sock' = [sock EXCEPT !.read_cb = FALSE, !.write_cb = "none", !.offset = 0]
  /\ Post(CloseFailsPending) /\ Goto(t, [pc |-> "closefd"])
  /\ UNCHANGED <<watch, kernel, request, late, reads, stray>>

StopKeepAliveMonitor(s) == [s EXCEPT !.timer = FALSE, !.dead_cb = FALSE]

DoCloseCleanup(s, fd) ==
  /\ sock' = StopKeepAliveMonitor(s)
  /\ watch' = [read |-> FALSE, write |-> FALSE]
  /\ kernel' = IF fd THEN [kernel EXCEPT !.open = FALSE] ELSE kernel

CloseDescriptor(t) ==
  /\ At(t, "closefd") /\ Goto(t, Idle)
  /\ LET s == [sock EXCEPT !.fd = FALSE, !.hold = FALSE]            \* ReleaseSelfHoldIfNeeded
     IN  IF OnIoThread(t) THEN DoCloseCleanup(s, sock.fd) /\ UNCHANGED io_runner
         ELSE sock' = s /\ Post(<<[task |-> "cleanup", fd |-> sock.fd]>>) /\ UNCHANGED <<watch, kernel>>
  /\ UNCHANGED <<request, late, reads, stray>>

----------------------------------------------------------------------------
(* ~TCPClientSocket calls Orphan, which lets a pending write go out first;     *)
(* Abort does not.  orphaned_ first, then the fields under mutex_, then a      *)
(* look at closed_.                                                            *)

Orphan(t, abort) ==
  /\ MayCall(t)
  /\ sock' = [sock EXCEPT !.orphaned = TRUE]
  /\ Goto(t, [pc |-> "orphan", abort |-> abort])
  /\ UNCHANGED <<watch, kernel, io_runner, request, late, reads, stray>>

FlushPending(t) == ~threads[t].abort /\ ~sock.closed /\ sock.write_cb # "none"

DropCallbacks(t) ==
  /\ At(t, "orphan")
  /\ sock' = [sock EXCEPT !.connect_cb = FALSE, !.read_cb = FALSE, !.dead_cb = FALSE, !.hold = TRUE,
                          !.write_cb = IF FlushPending(t) THEN "flush" ELSE "none"]
  /\ Goto(t, IF FlushPending(t) THEN Idle ELSE [pc |-> "dropped"])
  /\ UNCHANGED <<watch, kernel, io_runner, request, late, reads, stray>>

CloseAfterDrop(t) ==
  IF sock.closed THEN sock' = [sock EXCEPT !.hold = FALSE] /\ Goto(t, Idle) /\ UNCHANGED io_runner
  ELSE IF OnIoThread(t) THEN Close(t) /\ UNCHANGED io_runner
       ELSE Post(<<Task("close")>>) /\ Goto(t, Idle) /\ UNCHANGED sock

EndOrphan(t) ==
  /\ At(t, "dropped") /\ CloseAfterDrop(t)
  /\ UNCHANGED <<watch, kernel, request, late, reads, stray>>

----------------------------------------------------------------------------
(* The keep-alive monitor, a repeating timer on the I/O thread. *)

StartKeepAliveMonitor ==
  /\ MayCall("io") /\ sock.connected /\ ~sock.timer
  /\ sock' = [StopKeepAliveMonitor(sock) EXCEPT !.timer = TRUE, !.dead_cb = TRUE]
  /\ UNCHANGED <<watch, kernel, io_runner, threads, request, late, reads, stray>>

CallStopKeepAliveMonitor ==
  /\ MayCall("user") /\ sock.timer /\ Task("stop") \notin Range(io_runner)
  /\ Post(<<Task("stop")>>)
  /\ UNCHANGED <<sock, watch, kernel, threads, request, late, reads, stray>>

(* A dead socket ends the timer, and the callback it takes runs once. *)
OnKeepAliveCheck ==
  /\ At("io", "idle") /\ sock.timer
  /\ sock.closed \/ ~sock.fd \/ sock.orphaned \/ kernel.fin
  /\ sock' = StopKeepAliveMonitor(sock)
  /\ UNCHANGED <<watch, kernel, io_runner, threads, request, late, reads, stray>>

----------------------------------------------------------------------------
(* The I/O thread runs a task. *)

RunTask ==
  /\ At("io", "idle") /\ io_runner # <<>>
  /\ io_runner' = Tail(io_runner)
  /\ LET k == Head(io_runner)
     IN  \/ k.task \in {"connect", "read", "write"} /\ Goto("io", [pc |-> k.task])
            /\ UNCHANGED <<sock, watch, kernel, request>>
         \/ k.task = "close" /\ Close("io") /\ UNCHANGED <<watch, kernel, request>>
         \/ k.task = "cleanup" /\ DoCloseCleanup(sock, k.fd) /\ UNCHANGED <<threads, request>>
         \/ k.task = "stop" /\ sock' = StopKeepAliveMonitor(sock) /\ UNCHANGED <<watch, kernel, threads, request>>
         \/ k.task = "result" /\ (~k.checked \/ ~sock.orphaned)
            /\ request' = [request EXCEPT ![k.of] = IF @ = "asked" THEN "idle" ELSE "twice"]
            /\ UNCHANGED <<sock, watch, kernel, threads>>
         \/ /\ k.task = "result" /\ k.checked /\ sock.orphaned                        \* dropped
            /\ request' = [request EXCEPT ![k.of] = "idle"]
            /\ IF k.of = "write" THEN Close("io") ELSE UNCHANGED <<sock, threads>>     \* OnOrphanWriteFlushed
            /\ UNCHANGED <<watch, kernel>>
  /\ UNCHANGED <<late, reads, stray>>

(* The network: the handshake ends, bytes and FIN arrive, the peer reads. *)
Network ==
  /\ kernel.state # "none" /\ kernel.open
  /\ \/ kernel.state = "connecting" /\ \E s \in {"up", "refused"} : kernel' = [kernel EXCEPT !.state = s, !.fin = (s = "refused")]
     \/ kernel.state = "up" /\ ~kernel.fin /\ kernel.bytes = 0 /\ kernel' = [kernel EXCEPT !.bytes = 1]
     \/ kernel.state = "up" /\ ~kernel.fin /\ kernel' = [kernel EXCEPT !.fin = TRUE]
     \/ kernel.state = "up" /\ kernel.room = 0 /\ kernel' = [kernel EXCEPT !.room = 1]
  /\ UNCHANGED <<sock, watch, io_runner, threads, request, late, reads, stray>>

IoStep ==
  \/ RunTask \/ DoConnect \/ OnConnectReady \/ OnKeepAliveCheck \/ StoreRequest \/ OnFileCanRead \/ ReadSome \/ OnFileCanWrite \/ SendSome
  \/ \E k \in {"read", "write"} : CheckClosed(k)

Next ==
  \/ IoStep \/ Network \/ StartKeepAliveMonitor \/ CallStopKeepAliveMonitor
  \/ \E t \in {"io", "user"} :
       \/ Connect(t) \/ CallClose(t) \/ CloseRequests(t) \/ CloseDescriptor(t)
       \/ \E k \in {"read", "write"} : ReadAsync(t, k)
       \/ \E abort \in BOOLEAN : Orphan(t, abort)
       \/ DropCallbacks(t) \/ EndOrphan(t)

----------------------------------------------------------------------------
TypeOK ==
  /\ sock.write_cb \in {"none", "user", "flush"} /\ sock.offset \in 0..WriteSize
  /\ \A k \in DOMAIN request : request[k] \in {"idle", "asked"}
  /\ late \subseteq {"connect", "read", "write"}

Quiet == io_runner = <<>> /\ \A t \in {"io", "user"} : At(t, "idle")

(* No black holes ("deterministic callback delivery", the comment of Close):   *)
(* once a closed socket is quiet, every read and write it was given has been   *)
(* called back.  (Violated: the I/O thread finds the socket open, another      *)
(* thread closes it, and the request is stored where Close has already been.)  *)
NeverABlackHole == Quiet /\ sock.closed /\ ~sock.orphaned => \A k \in {"read", "write"} : request[k] = "idle"

(* The same for the requests that were not stored in a closed socket: through  *)
(* partial writes, EAGAIN, a Close in the middle of a read or write, and the   *)
(* results that are still to run.                                              *)
NoBlackHole == Quiet /\ sock.closed /\ ~sock.orphaned => \A k \in {"read", "write"} \ late : request[k] = "idle"

(* A socket whose shell is gone comes to rest closed, with its self-hold       *)
(* released and its descriptor closed, unless a write is still to go out.      *)
(* (Violated: DoConnect does not look at closed_, so a connect that was posted *)
(* before Close opens a descriptor after it, which ~Impl does not close.)      *)
OrphanAlwaysCloses ==
  Quiet /\ sock.orphaned /\ sock.write_cb # "flush" => sock.closed /\ ~sock.hold /\ ~kernel.open

(* The same, other than for the descriptor of such a connect. *)
OrphanCloses ==
  Quiet /\ sock.orphaned /\ sock.write_cb # "flush" =>
    sock.closed /\ ~sock.hold /\ (~kernel.open \/ "connect" \in late)

-----------------------------------------------------------------------------
(***************************************************************************)
(* TCPClientSocket::Impl on Windows (src/neixx/net/tcp_client_socket_win)  *)
(* over the completion port of MessagePumpForIO: a completion is delivered *)
(* only while the pump still knows the key of the socket.  Requests come   *)
(* from the thread that owns the shell; Close, Abort and the destructor    *)
(* from there or, for Close, from a callback on the I/O thread.            *)
(***************************************************************************)
CONSTANT Ops     \* reads and writes: op -> "read" or "write"

VARIABLES
  wsock,     \* the fields of Impl
  handle,    \* the socket handle is open in the kernel
  pending,   \* requests the kernel holds: "connect" and members of DOMAIN Ops
  wtasks,    \* tasks of the I/O thread
  wowner,    \* the thread of the shell: where it is; when it is gone, how, and whether it had closed before
  answer,    \* request -> "none", "asked", "called", "dropped", "lost" or "unreported"
  monitor    \* the keep-alive monitor: timer, callback, times on_dead ran

tcpWinVars == <<wsock, handle, pending, wtasks, wowner, answer, monitor>>

Requests == DOMAIN Ops \cup {"connect"}

(* A socket to connect, or one that TCPServerSocket accepted. *)
WinInit ==
  /\ \E accepted \in BOOLEAN :
       /\ wsock = [socket |-> accepted, connected |-> accepted, watched |-> FALSE, registered |-> FALSE,
                   closed |-> FALSE, orphaned |-> FALSE, hold |-> FALSE, writing |-> FALSE]
       /\ handle = accepted /\ wowner = [pc |-> IF accepted THEN "idle" ELSE "new"]
  /\ pending = {} /\ wtasks = <<>>
  /\ answer = [r \in Requests |-> "none"]
  /\ monitor = [timer |-> FALSE, callback |-> FALSE, ran |-> 0]

Done(r) == [task |-> "done", req |-> r, checked |-> TRUE]      \* looks at orphaned_ when it runs
Failed(r) == [task |-> "done", req |-> r, checked |-> FALSE]   \* BindOnce(callback, false): does not
Stopped == [monitor EXCEPT !.timer = FALSE, !.callback = FALSE]

(* Close on the I/O thread, which cleans up at once; elsewhere a task does. *)
CloseNow(s) ==
  IF s.closed THEN /\ wsock' = s /\ UNCHANGED <<handle, monitor>>
              ELSE /\ wsock' = [s EXCEPT !.closed = TRUE, !.socket = FALSE, !.watched = FALSE, !.hold = FALSE]
                   /\ handle' = (handle /\ ~s.socket) /\ monitor' = Stopped

----------------------------------------------------------------------------
(* The thread that owns the shell. *)

WinConnect ==
  /\ wowner.pc = "new" /\ wowner' = [pc |-> "idle"]
  /\ answer' = [answer EXCEPT !["connect"] = "asked"]
  /\ wtasks' = Append(wtasks, [task |-> "connect"])
  /\ UNCHANGED <<wsock, handle, pending, monitor>>

(* ReadAsync, WriteAsync: one of a kind at a time, as the contexts assume. *)
Request(r) ==
  /\ wowner.pc = "idle" /\ answer[r] = "none" /\ \A q \in DOMAIN Ops : Ops[q] = Ops[r] => answer[q] # "asked"
  /\ answer' = [answer EXCEPT ![r] = "asked"]
  /\ wtasks' = Append(wtasks, [task |-> "do", req |-> r])
  /\ UNCHANGED <<wsock, handle, pending, wowner, monitor>>

WinClose ==
  /\ wowner.pc = "idle" /\ ~wsock.closed /\ wowner' = [pc |-> "closing", socket |-> wsock.socket]
  /\ wsock' = [wsock EXCEPT !.closed = TRUE, !.socket = FALSE]
  /\ UNCHANGED <<handle, pending, wtasks, answer, monitor>>

PostCleanup ==
  /\ wowner.pc = "closing" /\ wowner' = [pc |-> "idle"]
  /\ wtasks' = Append(wtasks, [task |-> "cleanup", socket |-> wowner.socket])
  /\ wsock' = [wsock EXCEPT !.hold = FALSE]
  /\ UNCHANGED <<handle, pending, answer, monitor>>

(* ~TCPClientSocket calls Orphan; Abort differs in the task it posts. *)
WinOrphan(kind) ==
  /\ wowner.pc = "idle" /\ ~wsock.orphaned /\ wowner' = [pc |-> "orphaning", kind |-> kind]
  /\ wsock' = [wsock EXCEPT !.orphaned = TRUE]
  /\ UNCHANGED <<handle, pending, wtasks, answer, monitor>>

HoldAndPost ==
  /\ wowner.pc = "orphaning"
  /\ wowner' = [pc |-> "gone", kind |-> wowner.kind, late |-> wsock.closed]
  /\ monitor' = [monitor EXCEPT !.callback = FALSE]
  /\ IF wsock.closed
     THEN wsock' = [wsock EXCEPT !.hold = FALSE] /\ UNCHANGED wtasks
     ELSE wsock' = [wsock EXCEPT !.hold = TRUE] /\ wtasks' = Append(wtasks, [task |-> wowner.kind])
  /\ UNCHANGED <<handle, pending, answer>>

----------------------------------------------------------------------------
(* The I/O thread. *)

Taking(kind) == wtasks # <<>> /\ Head(wtasks).task = kind

(* DoConnect does not look at closed_.  When it cannot make a socket, or has   *)
(* no ConnectEx, it returns false to a task: nobody hears of it.               *)
WinDoConnect ==
  /\ Taking("connect")
  /\ \/ /\ answer' = [answer EXCEPT !["connect"] = "unreported"]
        /\ wtasks' = Tail(wtasks) /\ UNCHANGED <<wsock, handle, pending, monitor>>
     \/ /\ CloseNow([wsock EXCEPT !.registered = TRUE])
        /\ wtasks' = Append(Tail(wtasks), Failed("connect")) /\ UNCHANGED <<answer, pending>>
     \/ /\ wsock' = [wsock EXCEPT !.socket = TRUE, !.watched = TRUE, !.registered = TRUE]
        /\ handle' = TRUE /\ pending' = pending \cup {"connect"}
        /\ wtasks' = Tail(wtasks) /\ UNCHANGED <<answer, monitor>>
  /\ UNCHANGED wowner

(* EnsurePumpRegistered, then refused, failed at once, or left to the kernel. *)
DoRequest ==
  /\ Taking("do")
  /\ LET r == Head(wtasks).req
         now == [wsock EXCEPT !.registered = TRUE, !.watched = @ \/ (~wsock.registered /\ handle)]
     IN  \/ /\ Ops[r] = "write" /\ wsock.orphaned
            /\ answer' = [answer EXCEPT ![r] = "dropped"] /\ wtasks' = Tail(wtasks) /\ UNCHANGED <<wsock, pending>>
         \/ /\ ~(Ops[r] = "write" /\ wsock.orphaned)
            /\ wsock' = now /\ wtasks' = Append(Tail(wtasks), Failed(r)) /\ UNCHANGED <<answer, pending>>
         \/ /\ ~(Ops[r] = "write" /\ wsock.orphaned) /\ ~wsock.closed /\ wsock.socket /\ wsock.connected
            /\ wsock' = [now EXCEPT !.writing = @ \/ Ops[r] = "write"]
            /\ pending' = pending \cup {r} /\ wtasks' = Tail(wtasks) /\ UNCHANGED answer
  /\ UNCHANGED <<handle, wowner, monitor>>

(* DoCloseCleanup: the key leaves the pump's table before the socket closes. *)
RunCleanup ==
  /\ Taking("cleanup") /\ wtasks' = Tail(wtasks)
  /\ wsock' = [wsock EXCEPT !.watched = FALSE]
  /\ handle' = (handle /\ ~Head(wtasks).socket) /\ monitor' = Stopped
  /\ UNCHANGED <<pending, wowner, answer>>

(* StartOrphanClose waits for the write in flight. *)
WaitsForWrite == wsock.writing

RunOrphanClose ==
  /\ Taking("flush") /\ wtasks' = Tail(wtasks)
  /\ IF WaitsForWrite THEN UNCHANGED <<wsock, handle, monitor>> ELSE CloseNow(wsock)
  /\ UNCHANGED <<pending, wowner, answer>>

RunAbort ==
  /\ Taking("abort") /\ wtasks' = Tail(wtasks) /\ CloseNow(wsock)
  /\ UNCHANGED <<pending, wowner, answer>>

(* Close in a callback on the I/O thread. *)
CloseHere ==
  /\ wowner.pc = "idle" /\ ~wsock.closed /\ wsock.registered /\ CloseNow(wsock)
  /\ UNCHANGED <<pending, wtasks, wowner, answer>>

RunResult ==
  /\ Taking("done") /\ wtasks' = Tail(wtasks)
  /\ LET k == Head(wtasks)
     IN  answer' = [answer EXCEPT ![k.req] = IF k.checked /\ wsock.orphaned THEN "dropped" ELSE "called"]
  /\ UNCHANGED <<wsock, handle, pending, wowner, monitor>>

(* OnIOCompleted; a completion whose key is not in the table any more is       *)
(* dropped by DispatchOneBatch, its context and reference with it.             *)
Complete(r) ==
  /\ r \in pending /\ pending' = pending \ {r}
  /\ \E ok \in BOOLEAN :
       /\ ok => handle
       /\ LET done == [wsock EXCEPT !.connected = @ \/ (r = "connect" /\ ok),
                                    !.writing = @ /\ ~(r # "connect" /\ Ops[r] = "write")]
          IN  IF ~wsock.watched
              THEN answer' = [answer EXCEPT ![r] = "lost"] /\ UNCHANGED <<wsock, handle, wtasks, monitor>>
              ELSE IF wsock.orphaned
              THEN /\ answer' = [answer EXCEPT ![r] = "dropped"] /\ UNCHANGED wtasks
                   /\ IF r # "connect" /\ Ops[r] = "write" THEN CloseNow(done)      \* OnOrphanWriteFlushed
                                                          ELSE wsock' = done /\ UNCHANGED <<handle, monitor>>
              ELSE wtasks' = Append(wtasks, Done(r)) /\ wsock' = done /\ UNCHANGED <<handle, answer, monitor>>
  /\ UNCHANGED wowner

----------------------------------------------------------------------------
(* The keep-alive monitor: a repeating timer of the I/O thread that polls      *)
(* SO_ERROR, and reports a dead connection once.                               *)

WinStartKeepAliveMonitor ==
  /\ wowner.pc = "idle" /\ wsock.connected /\ wsock.registered /\ ~wsock.closed /\ monitor.ran = 0 /\ ~monitor.timer
  /\ monitor' = [monitor EXCEPT !.timer = TRUE, !.callback = TRUE]
  /\ UNCHANGED <<wsock, handle, pending, wtasks, wowner, answer>>

WinStopKeepAliveMonitor ==
  /\ wowner.pc = "idle" /\ monitor.timer /\ monitor' = Stopped
  /\ UNCHANGED <<wsock, handle, pending, wtasks, wowner, answer>>

(* Found dead, closed or orphaned. *)
WinOnKeepAliveCheck ==
  /\ monitor.timer
  /\ monitor' = [Stopped EXCEPT !.ran = IF monitor.callback THEN @ + 1 ELSE @]
  /\ UNCHANGED <<wsock, handle, pending, wtasks, wowner, answer>>

WinNext ==
  \/ WinConnect \/ WinClose \/ PostCleanup \/ HoldAndPost \/ WinDoConnect \/ DoRequest \/ RunCleanup \/ RunOrphanClose
  \/ RunAbort \/ CloseHere \/ RunResult \/ WinStartKeepAliveMonitor \/ WinStopKeepAliveMonitor \/ WinOnKeepAliveCheck
  \/ \E kind \in {"flush", "abort"} : WinOrphan(kind)
  \/ \E r \in DOMAIN Ops : Request(r)
  \/ \E r \in Requests : Complete(r)

----------------------------------------------------------------------------
WinTypeOK ==
  /\ \A f \in DOMAIN wsock : wsock[f] \in BOOLEAN
  /\ handle \in BOOLEAN /\ pending \subseteq Requests
  /\ answer \in [Requests -> {"none", "asked", "called", "dropped", "lost", "unreported"}]
  /\ monitor \in [timer : BOOLEAN, callback : BOOLEAN, ran : 0..1]

WinQuiet == wtasks = <<>> /\ wowner.pc \in {"idle", "gone"}

(* Until it is closed a socket loses no request: what is unanswered is with    *)
(* the kernel and the pump knows its key.  Only a Close can lose one.          *)
LostOnlyByClose ==
  /\ \A r \in Requests : answer[r] = "lost" => wsock.closed
  /\ WinQuiet /\ ~wsock.closed => \A r \in Requests : answer[r] = "asked" => r \in pending /\ wsock.watched

(* A destroyed shell is closed in the end, and not before the write in flight  *)
(* was taken by the kernel; Abort does not wait.  A Close that overtakes its   *)
(* own Connect is the exception: the socket made after it is never closed.     *)
Overtaken == wsock.closed /\ wsock.socket

WinOrphanCloses ==
  /\ WinQuiet /\ wowner.pc = "gone" /\ pending = {} /\ ~Overtaken => wsock.closed /\ ~wsock.hold /\ ~handle
  /\ wowner.pc = "gone" /\ wowner.kind = "flush" /\ ~wowner.late /\ wsock.closed =>
       \A r \in pending \ {"connect"} : Ops[r] = "read"

(* Close answers every request, as it does on POSIX.  (Violated.) *)
CloseAnswers == WinQuiet /\ wsock.closed /\ wowner.pc = "idle" => \A r \in Requests : answer[r] # "lost"
=============================================================================
