--------------------------- MODULE TcpServerSocket ---------------------------
(***************************************************************************)
(* TCPServerSocket::Impl on POSIX (src/neixx/net/tcp_server_socket_posix): *)
(* the accept loop on the I/O thread against Close and destruction from    *)
(* another thread, with the kernel's backlog and a process that may be out *)
(* of descriptors.  A connection is followed from the backlog to the user  *)
(* or to its reset, and every close() of its descriptor is counted.        *)
(***************************************************************************)
EXTENDS Integers, Sequences
LOCAL INSTANCE FiniteSetsExt

CONSTANT Conns     \* connections, a set of numbers: accept() takes the lowest that waits

VARIABLES
  server,     \* the fields of Impl
  conn,       \* connection -> "none", "backlog", "taken", "given", "delivered" or "reset"
  closes,     \* connection -> how often its accepted descriptor was closed
  full,       \* the process is at its limit of descriptors
  missed,     \* connections in the backlog at the close() of the listener: behind an error of
              \* accept(), or come after the last one
  runner,     \* tasks of the I/O thread
  acceptor,   \* the I/O thread: where it is
  owner       \* the thread that owns the shell: where it is

serverVars == <<server, conn, closes, full, missed, runner, acceptor, owner>>

Init ==
  /\ server = [fd |-> FALSE, reserve |-> FALSE, watching |-> FALSE, callback |-> FALSE, closed |-> FALSE,
               orphaned |-> FALSE, hold |-> FALSE]
  /\ conn = [c \in Conns |-> "none"] /\ closes = [c \in Conns |-> 0]
  /\ full = FALSE /\ missed = [behind |-> {}, after |-> {}] /\ runner = <<>>
  /\ acceptor = [pc |-> "idle"] /\ owner = [pc |-> "new"]

Backlog == {c \in Conns : conn[c] = "backlog"}
Post(t) == runner' = Append(runner, t)

(* Listen runs on the I/O thread; the reserve descriptor may not be had. *)
Listen ==
  /\ owner.pc = "new" /\ acceptor.pc = "idle"
  /\ \E spare \in BOOLEAN :
       server' = [server EXCEPT !.fd = TRUE, !.reserve = spare, !.watching = TRUE, !.callback = TRUE]
  /\ owner' = [pc |-> "idle"]
  /\ UNCHANGED <<conn, closes, full, missed, runner, acceptor>>

----------------------------------------------------------------------------
(* OnFileCanReadWithoutBlocking: accept until the backlog is empty. *)

OnFileCanRead ==
  /\ acceptor.pc = "idle" /\ server.watching /\ Backlog # {}
  /\ acceptor' = [pc |-> "accept"]
  /\ UNCHANGED <<server, conn, closes, full, missed, runner, owner>>

Accept ==
  /\ acceptor.pc = "accept" /\ server.fd /\ Backlog # {} /\ ~full
  /\ conn' = [conn EXCEPT ![Min(Backlog)] = "taken"]
  /\ acceptor' = [pc |-> "deliver", conn |-> Min(Backlog)]
  /\ UNCHANGED <<server, closes, full, missed, runner, owner>>

(* EAGAIN: the watch is armed again. *)
AcceptDrained ==
  /\ acceptor.pc = "accept" /\ server.fd /\ Backlog = {}
  /\ server' = [server EXCEPT !.watching = TRUE] /\ acceptor' = [pc |-> "leave"]
  /\ UNCHANGED <<conn, closes, full, missed, runner, owner>>

(* EMFILE: the reserve makes room to accept one connection and drop it; it may *)
(* not come back.                                                              *)
AcceptOutOfDescriptors ==
  /\ acceptor.pc = "accept" /\ server.fd /\ Backlog # {} /\ full
  /\ IF server.reserve
     THEN /\ conn' = [conn EXCEPT ![Min(Backlog)] = "reset"]
          /\ closes' = [closes EXCEPT ![Min(Backlog)] = @ + 1]
          /\ \E again \in BOOLEAN : server' = [server EXCEPT !.reserve = again]
     ELSE UNCHANGED <<server, conn, closes>>
  /\ acceptor' = [pc |-> "leave"]
  /\ UNCHANGED <<full, missed, runner, owner>>

(* Any other error is fatal, and the user hears of it once.  A connection that *)
(* its client aborted in the backlog (ECONNABORTED) is such an error.          *)
AcceptFails ==
  /\ acceptor.pc = "accept" /\ server.fd /\ Backlog # {}
  /\ conn' = [conn EXCEPT ![Min(Backlog)] = "reset"]
  /\ server' = [server EXCEPT !.watching = FALSE, !.callback = FALSE]
  /\ runner' = IF server.callback THEN Append(runner, [task |-> "failed"]) ELSE runner
  /\ acceptor' = [pc |-> "leave"]
  /\ UNCHANGED <<closes, full, missed, owner>>

(* Under mutex_: to the user, or discarded when the server was closed.  Then   *)
(* the descriptor is closed, and closed again by the socket made for it.       *)
Refused == server.closed \/ ~server.callback

Deliver ==
  /\ acceptor.pc = "deliver"
  /\ LET c == acceptor.conn
     IN  /\ conn' = [conn EXCEPT ![c] = IF Refused THEN "reset" ELSE "given"]
         /\ closes' = [closes EXCEPT ![c] = IF Refused THEN @ + 1 ELSE @]
         /\ Post([task |-> IF Refused THEN "destroy" ELSE "accepted", conn |-> c])
  /\ acceptor' = [pc |-> "accept"]
  /\ UNCHANGED <<server, full, missed, owner>>

Leave ==
  /\ acceptor.pc = "leave"
  /\ server' = [server EXCEPT !.hold = IF server.orphaned THEN FALSE ELSE @]
  /\ acceptor' = [pc |-> "idle"]
  /\ UNCHANGED <<conn, closes, full, missed, runner, owner>>

----------------------------------------------------------------------------
(* Teardown on the I/O thread, under mutex_: ClosePhysicalLocked. *)

(* DrainAcceptBacklogLocked resets what waits, and stops at any error of       *)
(* accept4: the backlog is empty, no descriptor is left (the reserve is not    *)
(* used here), or the client of the next connection has aborted it.            *)
Drain ==
  /\ acceptor.pc = "teardown" /\ server.fd /\ Backlog # {} /\ ~full
  /\ conn' = [conn EXCEPT ![Min(Backlog)] = "reset"]
  /\ closes' = [closes EXCEPT ![Min(Backlog)] = @ + 1]
  /\ UNCHANGED <<server, full, missed, runner, acceptor, owner>>

DrainStops ==
  /\ acceptor.pc = "teardown"
  /\ \/ /\ ~server.fd \/ Backlog = {}
        /\ UNCHANGED <<conn, missed>>
     \/ /\ server.fd /\ Backlog # {} /\ full
        /\ missed' = [missed EXCEPT !.behind = Backlog]
        /\ UNCHANGED conn
     \/ /\ server.fd /\ Backlog # {}
        /\ conn' = [conn EXCEPT ![Min(Backlog)] = "reset"]
        /\ missed' = [missed EXCEPT !.behind = Backlog \ {Min(Backlog)}]
  /\ server' = [server EXCEPT !.watching = FALSE]
  /\ acceptor' = [acceptor EXCEPT !.pc = "closefd"]
  /\ UNCHANGED <<closes, full, runner, owner>>

CloseListener ==
  /\ acceptor.pc = "closefd"
  /\ server' = [server EXCEPT !.fd = FALSE, !.reserve = FALSE, !.hold = IF acceptor.release THEN FALSE ELSE @]
  /\ acceptor' = [pc |-> "idle"]
  /\ UNCHANGED <<conn, closes, full, missed, runner, owner>>

----------------------------------------------------------------------------
(* The owner: Close, and the destructor's Orphan. *)

Close ==
  /\ owner.pc = "idle" /\ ~server.closed /\ acceptor.pc # "closefd"
  /\ server' = [server EXCEPT !.closed = TRUE, !.callback = FALSE]
  /\ runner' = IF server.callback THEN Append(runner, [task |-> "failed"]) ELSE runner
  /\ owner' = [pc |-> "close"]
  /\ UNCHANGED <<conn, closes, full, missed, acceptor>>

PostClosePhysical ==
  /\ owner.pc = "close" /\ owner' = [pc |-> "idle"]
  /\ Post([task |-> "teardown", release |-> TRUE])
  /\ UNCHANGED <<server, conn, closes, full, missed, acceptor>>

Orphan ==
  /\ owner.pc = "idle"
  /\ server' = [server EXCEPT !.orphaned = TRUE, !.hold = TRUE]
  /\ owner' = [pc |-> "orphan"]
  /\ UNCHANGED <<conn, closes, full, missed, runner, acceptor>>

OrphanTasks == (IF server.closed THEN <<>> ELSE <<[task |-> "shutdown"]>>) \o <<[task |-> "release"]>>

PostShutdown ==
  /\ owner.pc = "orphan" /\ owner' = [pc |-> "gone"]
  /\ runner' = runner \o OrphanTasks
  /\ UNCHANGED <<server, conn, closes, full, missed, acceptor>>

----------------------------------------------------------------------------
(* The I/O thread runs a task. *)

RunTask ==
  /\ acceptor.pc = "idle" /\ runner # <<>>
  /\ runner' = Tail(runner)
  /\ LET k == Head(runner)
     IN  CASE k.task = "accepted" -> conn' = [conn EXCEPT ![k.conn] = "delivered"] /\ UNCHANGED <<server, closes, acceptor>>
           [] k.task = "destroy"  -> closes' = [closes EXCEPT ![k.conn] = @ + 1] /\ UNCHANGED <<server, conn, acceptor>>
           [] k.task = "failed"   -> UNCHANGED <<server, conn, closes, acceptor>>
           [] k.task = "release"  -> server' = [server EXCEPT !.hold = FALSE] /\ UNCHANGED <<conn, closes, acceptor>>
           [] k.task = "teardown" -> acceptor' = [pc |-> "teardown", release |-> k.release] /\ UNCHANGED <<server, conn, closes>>
           [] k.task = "shutdown" ->                                        \* Shutdown: silent
                /\ server' = [server EXCEPT !.closed = TRUE, !.callback = FALSE]
                /\ acceptor' = IF server.closed THEN acceptor ELSE [pc |-> "teardown", release |-> FALSE]
                /\ UNCHANGED <<conn, closes>>
  /\ UNCHANGED <<full, missed, owner>>

(* A client's handshake ends, and the process gains or loses descriptors. *)
Arrive(c) ==
  /\ conn[c] = "none" /\ server.fd
  /\ conn' = [conn EXCEPT ![c] = "backlog"]
  /\ missed' = IF acceptor.pc = "closefd" THEN [missed EXCEPT !.after = @ \cup {c}] ELSE missed
  /\ UNCHANGED <<server, closes, full, runner, acceptor, owner>>

Exhaust ==
  /\ server.fd /\ full' = ~full
  /\ UNCHANGED <<server, conn, closes, missed, runner, acceptor, owner>>

Next ==
  \/ Listen \/ OnFileCanRead \/ Accept \/ AcceptDrained \/ AcceptOutOfDescriptors \/ AcceptFails \/ Deliver \/ Leave
  \/ Drain \/ DrainStops \/ CloseListener \/ Close \/ PostClosePhysical \/ Orphan \/ PostShutdown \/ RunTask \/ Exhaust
  \/ \E c \in Conns : Arrive(c)

----------------------------------------------------------------------------
TypeOK ==
  /\ server \in [{"fd", "reserve", "watching", "callback", "closed", "orphaned", "hold"} -> BOOLEAN]
  /\ conn \in [Conns -> {"none", "backlog", "taken", "given", "delivered", "reset"}]
  /\ closes \in [Conns -> 0..2] /\ missed \in [{"behind", "after"} -> SUBSET Conns]

Quiet == runner = <<>> /\ acceptor.pc = "idle" /\ owner.pc \in {"idle", "gone"}

(* A closed server leaves no client waiting (the comment of                    *)
(* ClosePhysicalLocked): every connection it had was delivered or reset, other *)
(* than one that came between the last accept and the close.  (Violated: an    *)
(* error of accept, such as EMFILE, ends the draining before the backlog does.)*)
NobodyLeftBehind ==
  Quiet /\ server.closed => \A c \in Conns \ missed.after : conn[c] \in {"none", "delivered", "reset"}

(* The same, other than for the connections behind such an error. *)
NobodyStranded ==
  Quiet /\ server.closed =>
    \A c \in Conns \ (missed.after \cup missed.behind) : conn[c] \in {"none", "delivered", "reset"}

(* A server whose shell is gone comes to rest closed, with its listener shut   *)
(* and its self-hold released.                                                 *)
GoneIsClosed == Quiet /\ owner.pc = "gone" => server.closed /\ ~server.fd /\ ~server.hold

(* A descriptor is closed once.  (Violated: see Deliver.) *)
ClosedOnce == \A c \in Conns : closes[c] <= 1

-----------------------------------------------------------------------------
(***************************************************************************)
(* TCPServerSocket::Impl on Windows (src/neixx/net/tcp_server_socket_win): *)
(* a pool of AcceptEx calls kept in the kernel, each completion replaced   *)
(* by a new call, against Close and destruction from the thread that owns  *)
(* the shell.  A context made by PostAccept keeps a reference to Impl; one *)
(* that OnIOCompleted submits again has given its reference up.            *)
(***************************************************************************)
CONSTANTS PoolSize,     \* kAcceptPoolSize
          Clients,      \* connections that arrive
          MaxRetries    \* failed submissions that are tried again

VARIABLES
  srv,       \* the fields of Impl
  pool,      \* contexts in pending_accepts_: fresh (with a reference), reused (without)
  client,    \* connection -> "none", "waiting", "taken", "delivered" or "closed"
  retries,   \* delayed PostAccept tasks: waiting, made so far, and whether one outlived Orphan's last look
  accepts,   \* tasks of the I/O thread that carry results to the user
  stage,     \* the I/O thread: where it is in OnIOCompleted
  holder     \* the thread that owns the shell

tcpServerWinVars == <<srv, pool, client, retries, accepts, stage, holder>>

Pending == pool.fresh + pool.reused
Idle == [pc |-> "idle", ref |-> FALSE, client |-> 0, submitting |-> FALSE]

WinInit ==
  /\ srv = [listening |-> FALSE, closed |-> FALSE, orphaned |-> FALSE, hold |-> FALSE, callback |-> FALSE]
  /\ pool = [fresh |-> 0, reused |-> 0] /\ client = [c \in Clients |-> "none"]
  /\ retries = [waiting |-> 0, made |-> 0, outlived |-> FALSE] /\ accepts = <<>> /\ stage = Idle /\ holder = "new"

Retry == retries.made < MaxRetries /\ retries' = [retries EXCEPT !.waiting = @ + 1, !.made = @ + 1]
At(pc) == stage.pc = pc
Goto(pc) == stage' = [stage EXCEPT !.pc = pc, !.submitting = FALSE]

(* Listen fills the pool (PostAcceptBatch). *)
WinListen ==
  /\ holder = "new" /\ holder' = "idle"
  /\ srv' = [srv EXCEPT !.listening = TRUE, !.callback = TRUE]
  /\ pool' = [pool EXCEPT !.fresh = PoolSize]
  /\ UNCHANGED <<client, retries, accepts, stage>>

----------------------------------------------------------------------------
(* PostAccept, from OnIOCompleted or from a retry: under the lock a context    *)
(* joins the pool, then AcceptEx is called without it.                         *)

PostAccept(next) ==
  \/ /\ srv.closed /\ Goto(next) /\ UNCHANGED <<pool, retries>>
  \/ /\ ~srv.closed /\ Retry /\ Goto(next) /\ UNCHANGED pool               \* no socket, or no buffer
  \/ /\ ~srv.closed /\ pool' = [pool EXCEPT !.fresh = @ + 1]
     /\ stage' = [stage EXCEPT !.pc = next, !.submitting = TRUE] /\ UNCHANGED retries

(* AcceptEx: pending in the kernel, or failed and tried again later. *)
Submit ==
  /\ stage.submitting /\ ~At("resubmit")
  /\ \/ srv.listening /\ UNCHANGED <<pool, retries>>
     \/ /\ retries.made < MaxRetries /\ pool' = [pool EXCEPT !.fresh = @ - 1]
        /\ retries' = [retries EXCEPT !.waiting = @ + 1, !.made = @ + 1,
                                     !.outlived = @ \/ (At("idle") /\ srv.orphaned)]
  /\ stage' = [stage EXCEPT !.submitting = FALSE]
  /\ UNCHANGED <<srv, client, accepts, holder>>

RunRetry ==
  /\ stage = Idle /\ retries.waiting > 0
  /\ \/ srv.closed /\ UNCHANGED <<pool, stage>> /\ retries' = [retries EXCEPT !.waiting = @ - 1]
     \/ /\ ~srv.closed /\ pool' = [pool EXCEPT !.fresh = @ + 1] /\ retries' = [retries EXCEPT !.waiting = @ - 1]
        /\ stage' = [Idle EXCEPT !.submitting = TRUE]
  /\ UNCHANGED <<srv, client, accepts, holder>>

----------------------------------------------------------------------------
(* OnIOCompleted. *)

(* A call ends with a connection, or with an error: the client of a connection *)
(* aborted it, or closesocket did (and there is no client).                    *)
Complete(kind, c) ==
  /\ stage = Idle /\ pool[kind] > 0
  /\ IF c = 0 THEN ~srv.listening ELSE srv.listening /\ client[c] = "waiting"
  /\ \E ok \in {o \in BOOLEAN : o => c # 0} :
       /\ client' = IF c = 0 THEN client ELSE [client EXCEPT ![c] = IF ok THEN "taken" ELSE "closed"]
       /\ stage' = [Idle EXCEPT !.pc = "replenish", !.ref = (kind = "fresh"), !.client = IF ok THEN c ELSE 0]
  /\ pool' = [pool EXCEPT ![kind] = @ - 1]
  /\ UNCHANGED <<srv, retries, accepts, holder>>

Replenish ==
  /\ At("replenish") /\ PostAccept(IF stage.client = 0 THEN "deliver" ELSE "recycle")
  /\ UNCHANGED <<srv, client, accepts, holder>>

(* The context goes back to the kernel with a new client socket. *)
Recycle ==
  /\ At("recycle") /\ ~stage.submitting
  /\ \/ ~srv.closed /\ pool' = [pool EXCEPT !.reused = @ + 1]
        /\ stage' = [stage EXCEPT !.pc = "resubmit", !.submitting = TRUE] /\ UNCHANGED retries
     \/ PostAccept("deliver")
  /\ UNCHANGED <<srv, client, accepts, holder>>

Resubmit ==
  /\ At("resubmit")
  /\ \/ srv.listening /\ Goto("deliver") /\ UNCHANGED pool
     \/ Goto("fallback") /\ pool' = [pool EXCEPT !.reused = @ - 1]
  /\ UNCHANGED <<srv, client, retries, accepts, holder>>

Fallback ==
  /\ At("fallback") /\ PostAccept("deliver")
  /\ UNCHANGED <<srv, client, accepts, holder>>

(* The callback is copied under the lock; without one the connection is        *)
(* dropped with the socket made for it.                                        *)
WinDeliver ==
  /\ At("deliver") /\ ~stage.submitting /\ Goto("release")
  /\ IF srv.callback
     THEN accepts' = Append(accepts, stage.client) /\ UNCHANGED client
     ELSE /\ client' = IF stage.client = 0 THEN client ELSE [client EXCEPT ![stage.client] = "closed"]
          /\ UNCHANGED accepts
  /\ UNCHANGED <<srv, pool, retries, holder>>

(* The last completion of an orphaned server gives the self-reference up.  The *)
(* mutant does not wait for the last.                                          *)
ReleasedAny == srv.orphaned
ReleasedLast == srv.orphaned /\ Pending = 0

Release ==
  /\ At("release") /\ stage' = Idle
  /\ srv' = [srv EXCEPT !.hold = @ /\ ~ReleasedLast]
  /\ UNCHANGED <<pool, client, retries, accepts, holder>>

RunAccepted ==
  /\ stage = Idle /\ accepts # <<>> /\ accepts' = Tail(accepts)
  /\ client' = IF Head(accepts) = 0 THEN client ELSE [client EXCEPT ![Head(accepts)] = "delivered"]
  /\ UNCHANGED <<srv, pool, retries, stage, holder>>

----------------------------------------------------------------------------
(* The owner. *)

WinClose ==
  /\ holder = "idle" /\ ~srv.closed /\ holder' = "closing"
  /\ srv' = [srv EXCEPT !.closed = TRUE, !.callback = FALSE]
  /\ accepts' = IF srv.callback THEN Append(accepts, 0) ELSE accepts
  /\ UNCHANGED <<pool, client, retries, stage>>

WinCloseListener ==
  /\ holder = "closing" /\ holder' = "idle"
  /\ srv' = [srv EXCEPT !.listening = FALSE, !.hold = FALSE]
  /\ UNCHANGED <<pool, client, retries, accepts, stage>>

WinOrphan ==
  /\ holder = "idle" /\ holder' = "orphaned"
  /\ srv' = [srv EXCEPT !.orphaned = TRUE, !.hold = TRUE]
  /\ UNCHANGED <<pool, client, retries, accepts, stage>>

Shutdown ==
  /\ holder = "orphaned" /\ holder' = "shutdown"
  /\ srv' = IF srv.closed THEN srv ELSE [srv EXCEPT !.closed = TRUE, !.callback = FALSE, !.listening = FALSE]
  /\ UNCHANGED <<pool, client, retries, accepts, stage>>

OrphanReleases ==
  /\ holder = "shutdown" /\ holder' = "gone"
  /\ srv' = [srv EXCEPT !.hold = @ /\ Pending > 0]
  /\ UNCHANGED <<pool, client, retries, accepts, stage>>

WinArrive(c) ==
  /\ srv.listening /\ client[c] = "none" /\ client' = [client EXCEPT ![c] = "waiting"]
  /\ UNCHANGED <<srv, pool, retries, accepts, stage, holder>>

WinNext ==
  \/ WinListen \/ Submit \/ RunRetry \/ Replenish \/ Recycle \/ Resubmit \/ Fallback \/ WinDeliver \/ Release \/ RunAccepted
  \/ WinClose \/ WinCloseListener \/ WinOrphan \/ Shutdown \/ OrphanReleases
  \/ \E c \in Clients : WinArrive(c)
  \/ \E kind \in {"fresh", "reused"}, c \in Clients \cup {0} : Complete(kind, c)

----------------------------------------------------------------------------
WinTypeOK ==
  /\ srv \in [{"listening", "closed", "orphaned", "hold", "callback"} -> BOOLEAN]
  /\ pool \in [{"fresh", "reused"} -> Nat] /\ retries.waiting \in 0..MaxRetries
  /\ client \in [Clients -> {"none", "waiting", "taken", "delivered", "closed"}]
  /\ accepts \in Seq(Clients \cup {0})

Alive == holder # "gone" \/ srv.hold \/ pool.fresh > 0 \/ retries.waiting > 0 \/ stage.ref

(* While the kernel holds a context something keeps Impl from being destroyed, *)
(* although a context that was submitted again has no reference of its own: as *)
(* long as no submission failed, which can empty the pool before Shutdown.     *)
OutlivesItsCalls == Pending > 0 /\ retries.made = 0 => Alive

(* Every context keeps Impl alive until its completion was handled, as the     *)
(* comment of AcceptContext::self_ref says.  (Violated: a context that was     *)
(* submitted again has given its reference up.)                                *)
AliveUntilHandled == Pending > 0 \/ stage # Idle => Alive

(* A connection the server took is delivered or closed, and a server whose     *)
(* shell is gone lets go of itself once its calls are done: unless a retry was *)
(* submitting when Orphan looked, whose failure releases nothing.              *)
TakenIsSettled ==
  /\ stage = Idle /\ accepts = <<>> => \A c \in Clients : client[c] # "taken"
  /\ stage = Idle /\ holder = "gone" /\ Pending = 0 /\ ~retries.outlived => ~srv.hold /\ ~srv.listening

(* The pool keeps its size: a completion is replaced by one call (the comment  *)
(* in Listen).  (Violated: Replenish and Recycle both replace it.)             *)
PoolKeepsItsSize == Pending <= PoolSize
=============================================================================
