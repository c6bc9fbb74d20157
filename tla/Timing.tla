------------------------------- MODULE Timing --------------------------------
(***************************************************************************)
(* Work that waits for its time: the manager of delayed tasks, and timers  *)
(* (src/neixx/task).                                                       *)
(***************************************************************************)
EXTENDS Integers, FiniteSetsExt

-----------------------------------------------------------------------------
(***************************************************************************)
(* DelayedTaskManager (src/neixx/task/internal): one thread sleeps until   *)
(* the earliest delayed task of any pool queue and then promotes it.  Its  *)
(* heap keeps stale entries; an entry counts when it has the run time that *)
(* is cached for its queue.  A queue is the set of run times of its        *)
(* delayed tasks; posters and workers change it first and call             *)
(* OnQueueUpdated afterwards.                                              *)
(***************************************************************************)
CONSTANTS
  DelayQueues,    \* queues of the pool
  DelayPosters,   \* threads that post, cancel or run delayed tasks
  MaxTime,        \* bound: run times and the clock
  MaxDelayPosts   \* bound: delayed posts

VARIABLES
  cached,     \* queues_: queue -> next_run_time (0 is null); unregistered queues are not in its domain
  heap,       \* heap_: <<run time, queue>> (entries with the same content count once)
  wake,       \* wake_event_, automatic reset
  manager,    \* the manager's thread: pc, the entry it popped, the end of its wait,
              \* the time it last looked at and how long before the wait that was
  over,       \* is_shutdown_
  due,        \* queue -> run times of its delayed tasks
  closed,     \* queues that are shut down
  caller,     \* thread -> the queue it has changed and not yet reported, or "none"
  now, delayPosts

delayVars == <<cached, heap, wake, manager, over, due, closed, caller, now, delayPosts>>

Idle == [pc |-> "pop", entry |-> <<0, "none">>, until |-> 0, seen |-> 0, late |-> 0]

Init ==
  /\ cached = [q \in {} |-> 0] /\ heap = {} /\ wake = FALSE /\ manager = Idle /\ over = FALSE
  /\ due = [q \in DelayQueues |-> {}] /\ closed = {} /\ caller = [c \in DelayPosters |-> "none"]
  /\ now = 1 /\ delayPosts = 0

PeekNextDelayedRunTime(q) == IF due[q] = {} \/ q \in closed THEN 0 ELSE Min(due[q])

----------------------------------------------------------------------------
(* RefreshQueueStateLocked: the cached time, and an entry for it. *)
RefreshQueueState(q) ==
  LET t == PeekNextDelayedRunTime(q)
  IN  /\ cached' = [x \in DOMAIN cached \cup {q} |-> IF x = q THEN t ELSE cached[x]]
      /\ heap' = IF t = 0 THEN heap ELSE heap \cup {<<t, q>>}

(* OnQueueUpdated wakes the thread for the first, the last or an earlier       *)
(* delayed task.                                                               *)
Wakes(old, new) == (old = 0) # (new = 0) \/ (old # 0 /\ new < old)

QueueUpdated(q) ==
  IF over \/ q \notin DOMAIN cached THEN UNCHANGED <<cached, heap, wake>>
  ELSE RefreshQueueState(q) /\ wake' = (wake \/ Wakes(cached[q], cached'[q]))

AddQueue(q) ==
  /\ ~over /\ q \notin DOMAIN cached
  /\ RefreshQueueState(q) /\ wake' = TRUE
  /\ UNCHANGED <<manager, over, due, closed, caller, now, delayPosts>>

----------------------------------------------------------------------------
(* The other threads: PushDelayedTask, which reports the first and an earlier  *)
(* delayed task only, and a delayed task that is taken away (a worker promoted *)
(* and ran it, or it was cancelled).                                           *)
IsEarliest(t, q) == \A d \in due[q] : t < d

PushDelayedTask(c, q, t) ==
  /\ caller[c] = "none" /\ q \in DOMAIN cached \ closed /\ delayPosts < MaxDelayPosts /\ t > now
  /\ due' = [due EXCEPT ![q] = @ \cup {t}]
  /\ caller' = [caller EXCEPT ![c] = IF IsEarliest(t, q) THEN q ELSE "none"] /\ delayPosts' = delayPosts + 1
  /\ UNCHANGED <<cached, heap, wake, manager, over, closed, now>>

TakeDelayedTask(c, q) ==
  /\ caller[c] = "none"
  /\ \E t \in due[q] : due' = [due EXCEPT ![q] = @ \ {t}]
  /\ caller' = [caller EXCEPT ![c] = q]
  /\ UNCHANGED <<cached, heap, wake, manager, over, closed, now, delayPosts>>

OnQueueUpdated(c) ==
  /\ caller[c] # "none"
  /\ QueueUpdated(caller[c])
  /\ caller' = [caller EXCEPT ![c] = "none"]
  /\ UNCHANGED <<manager, over, due, closed, now, delayPosts>>

(* PooledTaskQueue::Shutdown clears its tasks; nobody tells the manager. *)
ShutdownQueue(q) ==
  /\ q \notin closed /\ closed' = closed \cup {q}
  /\ due' = [due EXCEPT ![q] = {}]
  /\ UNCHANGED <<cached, heap, wake, manager, over, caller, now, delayPosts>>

(* Shutdown up to the join of the thread. *)
Shutdown ==
  /\ ~over
  /\ over' = TRUE /\ wake' = TRUE
  /\ cached' = [q \in {} |-> 0] /\ heap' = {}
  /\ UNCHANGED <<manager, due, closed, caller, now, delayPosts>>

(* The pool removes its queues after Shutdown has joined the thread. *)
RemoveQueue(q) ==
  /\ over /\ manager.pc = "exited"
  /\ cached' = [x \in DOMAIN cached \ {q} |-> cached[x]] /\ wake' = TRUE
  /\ UNCHANGED <<heap, manager, over, due, closed, caller, now, delayPosts>>

----------------------------------------------------------------------------
(* ThreadMain. *)
Valid(e) == e[2] \in DOMAIN cached /\ cached[e[2]] = e[1]
Least(E) == CHOOSE e \in E : \A f \in E : e[1] <= f[1]

(* PopNextValidEntryLocked drops the stale entries before the one it finds. *)
PopNextValidEntry ==
  /\ manager.pc = "pop" /\ ~over
  /\ LET valid == {e \in heap : Valid(e)}
     IN  IF valid = {} THEN heap' = {} /\ manager' = [Idle EXCEPT !.pc = "wait"]
         ELSE /\ heap' = {e \in heap : e[1] >= Least(valid)[1]} \ {Least(valid)}
              /\ manager' = [Idle EXCEPT !.pc = "popped", !.entry = Least(valid)]
  /\ UNCHANGED <<cached, wake, over, due, closed, caller, now, delayPosts>>

Exit ==
  /\ manager.pc = "pop" /\ over
  /\ manager' = [Idle EXCEPT !.pc = "exited"]
  /\ UNCHANGED <<cached, heap, wake, over, due, closed, caller, now, delayPosts>>

(* An entry that is not due goes back to the heap, if it still counts, and     *)
(* the thread waits as long as the entry was ahead of the clock it looked at.  *)
PutBack(e) == IF Valid(e) THEN {e} ELSE {}

PushBack ==
  /\ manager.pc = "popped" /\ manager.entry[1] > now
  /\ heap' = heap \cup PutBack(manager.entry)
  /\ manager' = [Idle EXCEPT !.pc = "start", !.until = manager.entry[1], !.seen = now]
  /\ UNCHANGED <<cached, wake, over, due, closed, caller, now, delayPosts>>

TimedWait ==
  /\ manager.pc = "start"
  /\ manager' = [Idle EXCEPT !.pc = "wait", !.until = now + (manager.until - manager.seen), !.late = now - manager.seen]
  /\ UNCHANGED <<cached, heap, wake, over, due, closed, caller, now, delayPosts>>

(* wake_event_.Wait or TimedWait returns. *)
WaitReturns ==
  /\ manager.pc = "wait" /\ (wake \/ (manager.until # 0 /\ now >= manager.until))
  /\ wake' = FALSE /\ manager' = Idle
  /\ UNCHANGED <<cached, heap, over, due, closed, caller, now, delayPosts>>

(* PromoteAndReEnqueueTaskQueue takes what is due out of the delayed tasks;    *)
(* OnQueueUpdated follows.  The entry of a queue that is shut down is dropped. *)
Promote ==
  /\ manager.pc = "popped" /\ manager.entry[1] <= now
  /\ LET q == manager.entry[2]
     IN  IF q \in closed THEN manager' = Idle /\ UNCHANGED due
         ELSE /\ due' = [due EXCEPT ![q] = {t \in @ : t > now}]
              /\ manager' = [manager EXCEPT !.pc = "promoted"]
  /\ UNCHANGED <<cached, heap, wake, over, closed, caller, now, delayPosts>>

PromotedUpdate ==
  /\ manager.pc = "promoted"
  /\ QueueUpdated(manager.entry[2])
  /\ manager' = Idle
  /\ UNCHANGED <<over, due, closed, caller, now, delayPosts>>

Tick ==
  /\ now < MaxTime /\ now' = now + 1
  /\ UNCHANGED <<cached, heap, wake, manager, over, due, closed, caller, delayPosts>>

Next ==
  \/ \E q \in DelayQueues : AddQueue(q) \/ ShutdownQueue(q) \/ RemoveQueue(q)
  \/ \E c \in DelayPosters :
       \/ \E q \in DelayQueues : (\E t \in 2..MaxTime : PushDelayedTask(c, q, t)) \/ TakeDelayedTask(c, q)
       \/ OnQueueUpdated(c)
  \/ PopNextValidEntry \/ Exit \/ PushBack \/ TimedWait \/ WaitReturns \/ Promote \/ PromotedUpdate \/ Shutdown \/ Tick

Spec == Init /\ [][Next]_delayVars

----------------------------------------------------------------------------
TypeOK ==
  /\ DOMAIN cached \subseteq DelayQueues /\ heap \subseteq (1..MaxTime) \X DelayQueues
  /\ manager.pc \in {"pop", "popped", "start", "wait", "promoted", "exited"}

(* The thread never oversleeps: when every change has been reported and no     *)
(* wake-up is on its way, its wait ends no later than any delayed task of a    *)
(* registered queue and the time from its look at the clock to the wait.       *)
NeverOversleeps ==
  manager.pc = "wait" /\ ~wake /\ ~over /\ (\A c \in DelayPosters : caller[c] = "none") =>
    \A q \in DOMAIN cached : due[q] # {} => manager.until # 0 /\ manager.until <= Min(due[q]) + manager.late

(* Every cached run time has its entry, in the heap or in the thread's hands:  *)
(* otherwise the queue's tasks wait for a post that may never come.            *)
EntryForEveryTime ==
  \A q \in DOMAIN cached \ closed :
    cached[q] # 0 => \/ <<cached[q], q>> \in heap
                     \/ manager.pc \in {"popped", "promoted"} /\ manager.entry[2] = q

-----------------------------------------------------------------------------
(***************************************************************************)
(* OneShotTimer and RepeatingTimer (src/neixx/task/timer.cpp) with the     *)
(* WeakPtrFactory they cancel with (include/neixx/memory/weak_ptr.h).      *)
(* Everything runs on one sequence; a tick is a delayed task that holds a  *)
(* weak pointer.  Ticks of different starts may come due in any order.     *)
(***************************************************************************)
CONSTANT MaxStarts   \* bound: calls of Start
CONSTANT MaxFires    \* bound: ticks that run the client's task

VARIABLES
  timer,      \* the Impl: kind, is_running_, user_task_ (the start it came with, 0 is empty)
  flag,       \* WeakPtrFactory::flag_: number of the current flag, and whether there is one
  ticks,      \* flag -> posted OnTimerFired tasks that hold it
  callback,   \* the client's task on the stack: the start it belongs to, 0 is none
  starts,     \* calls of Start
  fires,
  restarted   \* history: Start was called from the client's task of a repeating timer

timerVars == <<timer, flag, ticks, callback, starts, fires, restarted>>

Flags == 1..(MaxStarts + 1)

TimerInit ==
  /\ timer \in [kind : {"oneshot", "repeating"}, running : {FALSE}, task : {0}]
  /\ flag = [number |-> 1, live |-> FALSE]
  /\ ticks = [f \in Flags |-> 0]
  /\ callback = 0 /\ starts = 0 /\ fires = 0 /\ restarted = FALSE

(* InvalidateWeakPtrs: the flag is spent, GetWeakPtr makes the next one. *)
Invalidated == IF flag.live THEN [number |-> flag.number + 1, live |-> FALSE] ELSE flag

(* PostDelayedTask(BindOnce(&Impl::OnTimerFired, GetWeakPtr())). *)
Schedule(f) ==
  /\ flag' = [f EXCEPT !.live = TRUE]
  /\ ticks' = [ticks EXCEPT ![f.number] = @ + 1]

(* Start stops first. *)
StartInvalidates == Invalidated
Start ==
  /\ starts < MaxStarts
  /\ starts' = starts + 1
  /\ timer' = [timer EXCEPT !.running = TRUE, !.task = starts + 1]
  /\ Schedule(StartInvalidates)
  /\ restarted' = (restarted \/ (callback # 0 /\ timer.kind = "repeating"))
  /\ UNCHANGED <<callback, fires>>

(* Stop. *)
StopInvalidates == Invalidated
Stop ==
  /\ timer.running
  /\ flag' = StopInvalidates
  /\ timer' = [timer EXCEPT !.running = FALSE, !.task = 0]
  /\ UNCHANGED <<ticks, callback, starts, fires, restarted>>

(* A tick comes due.  It is dropped when its weak pointer is not valid. *)
IsValid(f) == flag.live /\ f = flag.number
DropTick(f) ==
  /\ callback = 0 /\ ticks[f] > 0 /\ (~IsValid(f) \/ ~timer.running)
  /\ ticks' = [ticks EXCEPT ![f] = @ - 1]
  /\ UNCHANGED <<timer, flag, callback, starts, fires, restarted>>

(* OnTimerFired up to the client's task: a one-shot timer gives it away. *)
OnTimerFired(f) ==
  /\ callback = 0 /\ ticks[f] > 0 /\ IsValid(f) /\ timer.running /\ fires < MaxFires
  /\ ticks' = [ticks EXCEPT ![f] = @ - 1]
  /\ callback' = timer.task /\ fires' = fires + 1
  /\ timer' = IF timer.kind = "oneshot" THEN [timer EXCEPT !.running = FALSE, !.task = 0] ELSE timer
  /\ UNCHANGED <<flag, starts, restarted>>

(* The client's task returns.  A repeating timer that still runs schedules     *)
(* the next tick.                                                              *)
TicksAgain == timer.kind = "repeating" /\ timer.running
CallbackReturns ==
  /\ callback # 0
  /\ callback' = 0
  /\ IF TicksAgain THEN Schedule(flag) ELSE UNCHANGED <<flag, ticks>>
  /\ UNCHANGED <<timer, starts, fires, restarted>>

TimerNext == Start \/ Stop \/ CallbackReturns \/ \E f \in Flags : DropTick(f) \/ OnTimerFired(f)

TimerSpec == TimerInit /\ [][TimerNext]_timerVars

----------------------------------------------------------------------------
TimerTypeOK == flag.number \in Flags /\ timer.task \in 0..starts /\ callback \in 0..starts

LiveTicks == IF flag.live THEN ticks[flag.number] ELSE 0

(* A stopped timer is silent and a running one will tick: Stop leaves no tick  *)
(* that could still run, whatever was started and fired before.                *)
RunsWhileTicking ==
  /\ ~timer.running => LiveTicks = 0
  /\ timer.running /\ callback = 0 => LiveTicks > 0

(* "|task| will be run repeatedly every |delay|" (timer.h:106): one tick is    *)
(* under way at a time, unless the client's task started the timer again.      *)
OneTickUnlessRestarted == ~restarted => LiveTicks <= 1
OneTick == LiveTicks <= 1
=============================================================================
