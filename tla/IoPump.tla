------------------------------- MODULE IoPump -------------------------------
(***************************************************************************)
(* MessagePumpForIO, the event loop of an I/O thread, over epoll and an    *)
(* eventfd (message_pump_io_posix.cpp) or over a completion port           *)
(* (message_pump_io_win.cpp), with the SequenceManager as its delegate:    *)
(* the first post since the last DoWork wakes the pump, later ones do not, *)
(* and DoWork runs a limited number of tasks.  On epoll one descriptor with *)
(* a read and a write watch is followed through registration, in its locked *)
(* and its unlocked step, and dispatch; the packets of the completion port  *)
(* are those of the calls that the socket, pipe and file modules follow.    *)
(***************************************************************************)
EXTENDS Integers, FiniteSets

CONSTANTS Systems,       \* the builds: "posix", "win"
          DoWorkLimit,   \* kMaxTasksPerDoWork
          MaxPosts,      \* tasks posted by other threads
          MaxWatches     \* registrations of a watch

VARIABLES
  build,      \* the build
  deleg,      \* the delegate: immediate tasks, pending_work_notification_, delayed work, posts so far
  wakes,      \* eventfd counter, or wake packets in the completion port
  next,       \* delayed_run_time_: "none", "later" or "due"
  quit,       \* quit_run_depth_ names the loop
  loop,       \* the loop: where it is, the snapshot of watchers it dispatches, whether the drain found any
  table,      \* watches_: the modes registered for the descriptor
  mask,       \* the events epoll reports for it (one-shot watches are PipeStream's)
  ready,      \* modes the descriptor is ready for
  watches,    \* registrations so far, and the one under way: its mode, its epoll_ctl and the events it asks for
  cutShort,   \* the unchecked DoWork of Run stopped at its limit
  stale       \* a watcher was called that was not in the table any more

pumpVars == <<build, deleg, wakes, next, quit, loop, table, mask, ready, watches, cutShort, stale>>

Modes == {"read", "write"}

Settled(made) == [made |-> made, mode |-> "none", op |-> "none", events |-> {}]
Registering == watches.mode # "none"

Init ==
  /\ build \in Systems
  /\ deleg = [queue |-> 0, notified |-> FALSE, delayed |-> "none", posts |-> 0]
  /\ wakes = 0 /\ next = "none" /\ quit = FALSE /\ loop = [pc |-> "out", calls |-> {}, drained |-> FALSE]
  /\ table = {} /\ mask = {} /\ ready = {} /\ watches = Settled(0) /\ cutShort = FALSE /\ stale = FALSE

(* The pump's thread is at pc, and not inside RegisterWatch. *)
At(pc) == loop.pc = pc /\ ~Registering
Goto(pc) == loop' = [pc |-> pc, calls |-> {}, drained |-> FALSE]
UnchangedWatch == UNCHANGED <<table, mask, ready, watches, stale>>

(* WakePump: eventfd adds up, the port queues packets. *)
WakePump == wakes' = wakes + 1

----------------------------------------------------------------------------
(* Other threads. *)

(* A post through the queue's callback: the first since the last flush wakes. *)
PostTask ==
  /\ deleg.posts < MaxPosts
  /\ deleg' = [deleg EXCEPT !.queue = @ + 1, !.notified = TRUE, !.posts = @ + 1]
  /\ IF deleg.notified THEN UNCHANGED wakes ELSE WakePump
  /\ UNCHANGED <<build, next, quit, loop, cutShort>> /\ UnchangedWatch

(* A delayed post: ScheduleDelayedWork takes the earlier time. *)
PostDelayedTask ==
  /\ deleg.posts < MaxPosts /\ deleg.delayed = "none"
  /\ deleg' = [deleg EXCEPT !.delayed = "later", !.posts = @ + 1]
  /\ next' = IF next = "none" THEN "later" ELSE next
  /\ WakePump
  /\ UNCHANGED <<build, quit, loop, cutShort>> /\ UnchangedWatch

Tick ==
  /\ deleg.delayed = "later" \/ next = "later"
  /\ deleg' = [deleg EXCEPT !.delayed = IF @ = "later" THEN "due" ELSE @]
  /\ next' = IF next = "later" THEN "due" ELSE next
  /\ UNCHANGED <<build, wakes, quit, loop, cutShort>> /\ UnchangedWatch

(* RequestQuitInnermostRun. *)
Quit ==
  /\ ~quit /\ ~At("out") /\ quit' = TRUE /\ WakePump
  /\ UNCHANGED <<build, deleg, next, loop, cutShort>> /\ UnchangedWatch

----------------------------------------------------------------------------
(* Watches. *)

(* RegisterWatch, in a task or a callback.  Under the lock the watch enters *)
(* the table, and the flags of the other watch of the descriptor are merged.   *)
Register(m) ==
  /\ build = "posix" /\ ~At("out") /\ ~At("wait") /\ ~Registering
  /\ m \notin table /\ watches.made < MaxWatches
  /\ table' = table \cup {m}
  /\ watches' = [made |-> watches.made + 1, mode |-> m, op |-> IF table = {} THEN "add" ELSE "mod", events |-> table \cup {m}]
  /\ UNCHANGED <<build, deleg, wakes, next, quit, loop, mask, ready, cutShort, stale>>

(* epoll_ctl, without the lock: a MOD of what was deleted falls back to ADD, *)
(* an ADD of what is there fails, and any may fail.                            *)
ControlWatch ==
  /\ watches.op \in {"add", "mod"}
  /\ \/ /\ watches.op = "mod" \/ mask = {}
        /\ mask' = watches.events /\ watches' = Settled(watches.made)
     \/ watches' = [watches EXCEPT !.op = "failed"] /\ UNCHANGED mask
  /\ UNCHANGED <<build, deleg, wakes, next, quit, loop, table, ready, cutShort, stale>>

EraseWatch ==
  /\ watches.op = "failed"
  /\ table' = table \ {watches.mode} /\ watches' = Settled(watches.made)
  /\ UNCHANGED <<build, deleg, wakes, next, quit, loop, mask, ready, cutShort, stale>>

(* StopWatching, on any thread, its epoll_ctl under the lock: what remains is  *)
(* modified, not deleted; a MOD of what epoll does not have fails unnoticed.   *)
Remaining(m) == IF mask = {} THEN {} ELSE table \ {m}

StopWatching(m) ==
  /\ m \in table /\ m # watches.mode
  /\ table' = table \ {m} /\ mask' = Remaining(m)
  /\ UNCHANGED <<build, deleg, wakes, next, quit, loop, ready, watches, cutShort, stale>>

(* The descriptor becomes ready; a callback reads or writes it empty. *)
BecomeReady(m) ==
  /\ m \notin ready /\ table # {} /\ ready' = ready \cup {m}
  /\ UNCHANGED <<build, deleg, wakes, next, quit, loop, table, mask, watches, cutShort, stale>>

----------------------------------------------------------------------------
(* Run. *)

Enter ==
  /\ At("out") /\ deleg.posts = 0 /\ Goto("work")
  /\ UNCHANGED <<build, deleg, wakes, next, quit, cutShort>> /\ UnchangedWatch

(* DoWork: the notification is flushed, then at most DoWorkLimit tasks run. *)
Ran == IF deleg.queue < DoWorkLimit THEN deleg.queue ELSE DoWorkLimit
DoWork == deleg' = [deleg EXCEPT !.queue = @ - Ran, !.notified = FALSE]

Work ==
  /\ At("work")
  /\ IF quit THEN Goto("out") /\ UNCHANGED deleg
     ELSE DoWork /\ Goto(IF Ran > 0 THEN "work" ELSE "delayed")
  /\ UNCHANGED <<build, wakes, next, quit, cutShort>> /\ UnchangedWatch

(* DoDelayedWork, UpdateDelayedWorkFromDelegate, DoIdleWork. *)
DelayedWork ==
  /\ At("delayed")
  /\ deleg' = [deleg EXCEPT !.delayed = IF @ = "due" THEN "none" ELSE @]
  /\ next' = IF deleg.delayed = "later" /\ next = "none" THEN "later" ELSE next
  /\ Goto(IF deleg.delayed = "due" THEN "work" ELSE IF quit THEN "out" ELSE "drain")
  /\ UNCHANGED <<build, wakes, quit, cutShort>> /\ UnchangedWatch

(* DrainPendingWakeups: batches without a timeout, and without DoWork, until   *)
(* there is no event.  On Windows a drain that found any goes round again; on  *)
(* POSIX DoWork is called after it, and what it returns is not looked at.      *)
Event == mask \cap ready
Snapshot == table \cap Event

DrainEvent ==
  /\ At("drain") /\ Event # {} /\ table # {}
  /\ loop' = [pc |-> "calls drain", calls |-> Snapshot, drained |-> TRUE]
  /\ UNCHANGED <<build, deleg, wakes, next, quit, cutShort>> /\ UnchangedWatch

DrainWakeup ==
  /\ At("drain") /\ wakes > 0
  /\ wakes' = IF build = "posix" THEN 0 ELSE wakes - 1
  /\ loop' = [loop EXCEPT !.drained = TRUE]
  /\ UNCHANGED <<build, deleg, next, quit, cutShort>> /\ UnchangedWatch

Drained ==
  /\ At("drain") /\ wakes = 0 /\ (Event = {} \/ table = {})
  /\ Goto(IF build = "posix" THEN "recheck" ELSE IF loop.drained THEN "work" ELSE "sleep")
  /\ UNCHANGED <<build, deleg, wakes, next, quit, cutShort>> /\ UnchangedWatch

RecheckWork == DoWork /\ cutShort' = (deleg.queue > DoWorkLimit)

Recheck ==
  /\ At("recheck") /\ RecheckWork /\ Goto(IF quit THEN "out" ELSE "sleep")
  /\ UNCHANGED <<build, wakes, next, quit>> /\ UnchangedWatch

(* A due time that is due is cleared; without one the wait is for ever. *)
Sleep ==
  /\ At("sleep")
  /\ next' = IF next = "due" THEN "none" ELSE next
  /\ Goto(IF quit /\ build = "win" THEN "out" ELSE IF next = "due" THEN "work" ELSE "wait")
  /\ UNCHANGED <<build, deleg, wakes, quit, cutShort>> /\ UnchangedWatch

(* WaitAndDispatch returns for a wake-up, an event or the timeout. *)
WakeUp ==
  /\ At("wait") /\ wakes > 0
  /\ wakes' = IF build = "posix" THEN 0 ELSE wakes - 1
  /\ DoWork /\ Goto("work") /\ cutShort' = FALSE
  /\ UNCHANGED <<build, next, quit>> /\ UnchangedWatch

WakeByEvent ==
  /\ At("wait") /\ Event # {}
  /\ loop' = [pc |-> "calls wait", calls |-> Snapshot, drained |-> FALSE]
  /\ UNCHANGED <<build, deleg, wakes, next, quit, cutShort>> /\ UnchangedWatch

WakeByTimeout ==
  /\ At("wait") /\ next = "due" /\ next' = "none" /\ Goto("work") /\ cutShort' = FALSE
  /\ UNCHANGED <<build, deleg, wakes, quit>> /\ UnchangedWatch

(* The callbacks of the snapshot, one after the other, without the lock. *)
Call(m) ==
  /\ At("calls drain") \/ At("calls wait")
  /\ m \in loop.calls
  /\ loop' = [loop EXCEPT !.calls = @ \ {m}]
  /\ ready' = ready \ {m} /\ stale' = (stale \/ m \notin table)
  /\ UNCHANGED <<build, deleg, wakes, next, quit, table, mask, watches, cutShort>>

CallsDone ==
  /\ At("calls drain") \/ At("calls wait")
  /\ loop.calls = {}
  /\ loop' = [loop EXCEPT !.pc = IF At("calls drain") THEN "drain" ELSE "work"] /\ cutShort' = (cutShort /\ At("calls drain"))
  /\ UNCHANGED <<build, deleg, wakes, next, quit>> /\ UnchangedWatch

Next ==
  \/ PostTask \/ PostDelayedTask \/ Tick \/ Quit
  \/ Enter \/ Work \/ DelayedWork \/ DrainEvent \/ DrainWakeup \/ Drained \/ Recheck \/ Sleep \/ WakeUp \/ WakeByEvent \/ WakeByTimeout \/ CallsDone
  \/ ControlWatch \/ EraseWatch
  \/ \E m \in Modes : Register(m) \/ StopWatching(m) \/ BecomeReady(m) \/ Call(m)

----------------------------------------------------------------------------
TypeOK ==
  /\ deleg.queue \in 0..MaxPosts /\ deleg.delayed \in {"none", "later", "due"} /\ wakes \in Nat
  /\ next \in {"none", "later", "due"} /\ table \subseteq Modes /\ mask \subseteq Modes /\ loop.calls \subseteq Modes
  /\ watches \in [made : 0..MaxWatches, mode : Modes \cup {"none"}, op : {"none", "add", "mod", "failed"}, events : SUBSET Modes]

(* Nothing sleeps through its event: when the loop waits and no wake-up is on  *)
(* its way there is no task, no delayed work without a timeout, no quit and no *)
(* descriptor watched that epoll does not report - other than the tasks that   *)
(* the unchecked DoWork left at its limit.                                     *)
NothingSleepsThrough ==
  /\ At("wait") /\ wakes = 0 =>
       /\ deleg.queue = 0 \/ cutShort
       /\ deleg.delayed # "none" => next # "none"
       /\ ~quit
  /\ ~Registering => table \subseteq mask

(* The DoWork after the drain catches every task, or the pump may block for    *)
(* ever (the comment of Run).  (Violated when more than a DoWork's worth wait.) *)
DoWorkCatchesAll == At("wait") /\ wakes = 0 => deleg.queue = 0

(* StopWatching synchronises with the pump (message_pump_io.h): epoll reports  *)
(* what is watched and no more.  (Violated by a stop, on another thread, after *)
(* RegisterWatch merged the flags and before its epoll_ctl: the stopped mode   *)
(* comes back, and once it is ready the drain goes round without an end.)      *)
MaskIsTable == ~Registering => mask = table

(* StopWatching synchronises with the pump (message_pump_io.h): a watch that   *)
(* was stopped is not called.  (Violated by the snapshot.)                     *)
NoStaleCall == ~stale
=============================================================================
