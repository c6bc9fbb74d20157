------------------------------ MODULE MCSched ------------------------------
(***************************************************************************)
(* The scheduling components for model checking: the sequenced task queue, *)
(* the sequence manager and its pump, the delayed task manager, jobs,      *)
(* timers and the two kinds of event.  One behaviour is about one of them. *)
(***************************************************************************)
EXTENDS TaskQueue, TLC

CONSTANTS Quota, WordBits, RunQueues, Level, TaskKinds, Posters, FastBatch, GeneralMax, MaxPosts, MaxDue, MaxDepth
CONSTANTS DelayQueues, DelayPosters, MaxRunTime, MaxDelayPosts
CONSTANTS Pool, Cap, Work, MaxNotify
CONSTANTS MaxStarts, MaxFires
CONSTANTS Waiters, Signallers, MaxWaits, MaxSignals, EvWaiters, MaxEvWaits, MaxChanges

VARIABLES part,
  sel, queues, shut, posted, fetched, delayed, pending, pump, frames, poster, posts, clock,
  cached, times, wake, manager, over, due, closed, caller, time, delayPosts,
  job, left, runner, thread, notified,
  timer, flag, ticks, callback, starts, fires, restarted,
  word, waiter, signaller, outcome,
  reset_policy, signaled, eventfd, waiting, ended, changes

Sequence == INSTANCE SequenceManager WITH Queues <- RunQueues, Kinds <- TaskKinds, incoming <- posted, work <- fetched
Time == INSTANCE Timing WITH heap <- times, now <- time, MaxTime <- MaxRunTime
Job == INSTANCE JobTaskSource
Event == INSTANCE Events

queueVars == vars
managerVars == <<sel, queues, shut, posted, fetched, delayed, pending, pump, frames, poster, posts, clock>>
delayVars == <<cached, times, wake, manager, over, due, closed, caller, time, delayPosts>>
jobVars == <<job, left, runner, thread, notified>>
timerVars == <<timer, flag, ticks, callback, starts, fires, restarted>>
atomicVars == <<word, waiter, signaller, outcome>>
waitableVars == <<reset_policy, signaled, eventfd, waiting, ended, changes>>
eventVars == <<atomicVars, waitableVars>>
allVars == <<part, queueVars, managerVars, delayVars, jobVars, timerVars, eventVars>>

SchedInit ==
  /\ part \in {"queue", "manager", "delay", "job", "timer", "atomic", "waitable"}
  /\ Init /\ Sequence!Init /\ Time!Init /\ Job!Init /\ Time!TimerInit /\ Event!Init /\ Event!WaitableInit
  /\ part # "queue" => single            \* one of the initial states of a part that does not run
  /\ part # "job" => left = 0
  /\ part # "timer" => timer.kind = "oneshot"
  /\ part # "waitable" => reset_policy = "manual"

SchedNext ==
  \/ part = "queue" /\ Next /\ UNCHANGED <<part, managerVars, delayVars, jobVars, timerVars, eventVars>>
  \/ part = "manager" /\ Sequence!Next /\ UNCHANGED <<part, queueVars, delayVars, jobVars, timerVars, eventVars>>
  \/ part = "delay" /\ Time!Next /\ UNCHANGED <<part, queueVars, managerVars, jobVars, timerVars, eventVars>>
  \/ part = "job" /\ Job!Next /\ UNCHANGED <<part, queueVars, managerVars, delayVars, timerVars, eventVars>>
  \/ part = "timer" /\ Time!TimerNext /\ UNCHANGED <<part, queueVars, managerVars, delayVars, jobVars, eventVars>>
  \/ part = "atomic" /\ Event!Next
     /\ UNCHANGED <<part, queueVars, managerVars, delayVars, jobVars, timerVars, waitableVars>>
  \/ part = "waitable" /\ Event!WaitableNext
     /\ UNCHANGED <<part, queueVars, managerVars, delayVars, jobVars, timerVars, atomicVars>>

SchedSpec == SchedInit /\ [][SchedNext]_allVars

BothKinds == {TRUE, FALSE}
Shares == <<1, 1>>
OneLevel == [q \in RunQueues |-> 1]
Interchangeable == Permutations(RunQueues) \cup Permutations(Posters) \cup Permutations(Pool)

----------------------------------------------------------------------------
(* Every variable of every part has its type. *)
TypesOK ==
  /\ part = "queue" => TypeOK
  /\ part = "manager" => Sequence!TypeOK
  /\ part = "delay" => Time!TypeOK
  /\ part = "job" => Job!TypeOK
  /\ part = "timer" => Time!TimerTypeOK
  /\ part = "atomic" => Event!TypeOK
  /\ part = "waitable" => Event!WaitableTypeOK

(* Nobody sleeps on work: the pump and the delayed task manager sleep neither  *)
(* beside a task they could run nor past its time, their bookkeeping (work     *)
(* masks, heap entries) misses nothing, and a signalled event wakes a waiter.  *)
(* Excepted is work that the selector's rotation hides from it (Hidden of      *)
(* SequenceManager, task_queue_selector.cpp:202-208): NeverSleepsOnWork is     *)
(* the statement without the exception, and the code does not keep it.         *)
NoLostWakeups ==
  /\ part = "manager" => Sequence!SleepsWithoutWork /\ Sequence!SleepsUntilDue /\ Sequence!ActiveLevels
  /\ part = "delay" => Time!NeverOversleeps /\ Time!EntryForEveryTime
  /\ part = "atomic" => Event!TokenNotMissed
  /\ part = "waitable" => Event!SetEventWakes

(* What ends, ends as it was asked to: a loop ends only when a Quit found it   *)
(* innermost; Join returns when the last worker has left, no task of the job   *)
(* runs after it, and the counters are the workers there are; a timer that     *)
(* says it is running has a tick to come, and not two of them unless its own   *)
(* callback restarted it.  Excepted are the joins that a shutdown of the pool  *)
(* or an increase announced to an ending job strands (JoinNeverStranded of     *)
(* JobTaskSource is the statement without the exception).                      *)
EndsAsAsked ==
  /\ part = "manager" => Sequence!OnlyAskedLoopsEnd
  /\ part = "job" => Job!SlotsAreWorkers /\ Job!JoinNotStranded /\ Job!NoTaskAfterJoin
  /\ part = "timer" => Time!RunsWhileTicking /\ Time!OneTickUnlessRestarted

(* Both kinds of event implement the abstract Event. *)
ImplementsEvent == Event!ImplementsEvent /\ Event!ImplementsWaitable
=============================================================================
