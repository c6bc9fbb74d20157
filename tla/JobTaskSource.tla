--------------------------- MODULE JobTaskSource ---------------------------
(***************************************************************************)
(* JobTaskSource and JobHandle (src/neixx/task): a job whose workers are   *)
(* posted to a parallel runner as the client's MaxConcurrencyCallback asks *)
(* for them, and whose Join works along.  The client's state is what is    *)
(* left to do: the callback takes one unit, and the concurrency wanted is  *)
(* what is left, at most Cap.  An access of an atomic that another thread  *)
(* changes is a step of its own.                                           *)
(***************************************************************************)
EXTENDS Integers, FiniteSetsExt

CONSTANTS
  Pool,        \* pool threads that can run a worker
  Cap,         \* bound of the concurrency the client asks for
  Work,        \* bound: units of work when the job is posted
  MaxNotify    \* bound: NotifyConcurrencyIncrease calls, each for one unit more

VARIABLES
  job,         \* the atomics of JobTaskSource, and completion_event_
  left,        \* the client's work: units not yet taken
  runner,      \* worker tasks in the runner, whether it still accepts posts,
               \* and as history the tasks it had and dropped when it closed and
               \* whether it closed between two posts of one PostWorkers
  thread,      \* thread -> where it is
  notified     \* calls of NotifyConcurrencyIncrease

jobVars == <<job, left, runner, thread, notified>>

Threads == Pool \cup {"main", "notifier"}
At(t, pc) == thread[t].pc = pc
Nowhere == [pc |-> "idle", n |-> 0, seen |-> 0, todo |-> 0, dropped |-> 0, back |-> "idle"]
Goto(t, pc) == thread' = [thread EXCEPT ![t].pc = pc]
Desired == Min({left, Cap})

Init ==
  /\ job = [running |-> 0, assigned |-> 0, pending |-> 0, completed |-> FALSE, cancelled |-> FALSE, event |-> FALSE]
  /\ left \in 0..Work /\ runner = [tasks |-> 0, open |-> TRUE, lost |-> 0, split |-> FALSE]
  /\ thread = [t \in Threads |-> [Nowhere EXCEPT !.pc = IF t = "main" THEN "initial" ELSE "idle"]]
  /\ notified = 0

----------------------------------------------------------------------------
(* PostWorkers(n), called from |back|: the load of the pending increases. *)
CallPostWorkers(t, n, pending, back) ==
  thread' = [thread EXCEPT ![t] = IF n <= 0 THEN [Nowhere EXCEPT !.pc = back]
                                  ELSE [Nowhere EXCEPT !.pc = "consume", !.n = n, !.seen = pending, !.back = back]]
Return(t) == thread' = [thread EXCEPT ![t] = [Nowhere EXCEPT !.pc = thread[t].back]]

(* The pending increases are consumed before the completion checks; the fast   *)
(* path (one worker, none pending) has nothing to consume.                     *)
Consumed(t) == IF thread[t].seen > 0 THEN Min({thread[t].n, thread[t].seen}) ELSE 0

ConsumePending(t) ==
  /\ At(t, "consume")
  /\ job' = [job EXCEPT !.pending = @ - Consumed(t)]
  /\ Goto(t, "assign")
  /\ UNCHANGED <<left, runner, notified>>

CheckNotOver(t) ==
  /\ At(t, "assign")
  /\ IF job.completed \/ job.cancelled THEN Return(t) ELSE Goto(t, "add")
  /\ UNCHANGED <<job, left, runner, notified>>

AssignWorkers(t) ==
  /\ At(t, "add")
  /\ job' = [job EXCEPT !.assigned = @ + thread[t].n]
  /\ thread' = [thread EXCEPT ![t].pc = "post", ![t].todo = thread[t].n]
  /\ UNCHANGED <<left, runner, notified>>

(* PostTaskWithTraits for each worker: a closed runner drops them. *)
PostWorkerTask(t) ==
  /\ At(t, "post")
  /\ LET dropped == thread[t].dropped + (IF runner.open THEN 0 ELSE 1)
     IN  /\ runner' = IF runner.open THEN [runner EXCEPT !.tasks = @ + 1]
                      ELSE [runner EXCEPT !.split = @ \/ dropped + thread[t].todo - 1 < thread[t].n]
         /\ CASE thread[t].todo > 1 -> thread' = [thread EXCEPT ![t].todo = @ - 1, ![t].dropped = dropped]
              [] thread[t].todo = 1 /\ dropped > 0 ->
                   thread' = [thread EXCEPT ![t].pc = "dropped", ![t].todo = 0, ![t].dropped = dropped]
              [] OTHER -> Return(t)
  /\ UNCHANGED <<job, left, notified>>

(* The roll-back of dropped workers.  Only the slow path looks whether the     *)
(* job is over now.                                                            *)
Dropped(t) == thread[t].dropped
RollBack(t) ==
  /\ At(t, "dropped")
  /\ job' = [job EXCEPT !.assigned = @ - Dropped(t)]
  /\ IF thread[t].n > 1 \/ thread[t].seen # 0 THEN Goto(t, "running?") ELSE Return(t)
  /\ UNCHANGED <<left, runner, notified>>

(* The loads of the running, the pending and the assigned count. *)
LookAgain(t) ==
  /\ \/ At(t, "running?") /\ (IF job.running = 0 THEN Goto(t, "increases?") ELSE Return(t))
     \/ At(t, "increases?") /\ (IF job.pending <= 0 THEN Goto(t, "assigned?") ELSE Return(t))
     \/ At(t, "assigned?") /\ (IF job.assigned <= 0 THEN Goto(t, "complete") ELSE Return(t))
  /\ UNCHANGED <<job, left, runner, notified>>

(* is_completed_ is stored and completion_event_ signalled. *)
StoreCompleted(t) ==
  /\ At(t, "complete")
  /\ job' = [job EXCEPT !.completed = TRUE, !.event = TRUE] /\ Return(t)
  /\ UNCHANGED <<left, runner, notified>>

----------------------------------------------------------------------------
(* ShouldYield, the callback and MaybeSpawnWorkers, for a pool worker and for  *)
(* the joiner (tls_is_joiner).                                                 *)

LeaveLoop(t) == IF t = "main" THEN "unjoin" ELSE "unassign"

CheckOver(t) ==
  /\ At(t, "yield?")
  /\ Goto(t, IF job.cancelled \/ job.completed THEN LeaveLoop(t) ELSE "desired")
  /\ UNCHANGED <<job, left, runner, notified>>

(* max_concurrency_cb_, and for a pool worker the comparison with the assigned *)
(* workers.                                                                    *)
AskConcurrency(t) ==
  /\ At(t, "desired")
  /\ LET yields == IF t = "main" THEN Desired = 0 ELSE Desired < job.assigned
     IN  Goto(t, IF yields THEN LeaveLoop(t) ELSE "run")
  /\ UNCHANGED <<job, left, runner, notified>>

(* task_.Run; every 64th time (every 8th for the joiner) more workers may be   *)
(* spawned.                                                                    *)
RunCallback(t) ==
  /\ At(t, "run")
  /\ left' = IF left > 0 THEN left - 1 ELSE 0
  /\ \E pc \in {"yield?", "spawn?"} : Goto(t, pc)
  /\ UNCHANGED <<job, runner, notified>>

MaybeSpawnWorkers(t) ==
  /\ At(t, "spawn?")
  /\ IF job.completed \/ job.cancelled THEN Goto(t, "yield?")
                                       ELSE CallPostWorkers(t, Desired - job.assigned, job.pending, "yield?")
  /\ UNCHANGED <<job, left, runner, notified>>

----------------------------------------------------------------------------
(* A pool worker: RunWorkerLoop. *)
StartWorker(t) ==
  /\ t \in Pool /\ At(t, "idle") /\ runner.tasks > 0
  /\ runner' = [runner EXCEPT !.tasks = @ - 1]
  /\ job' = [job EXCEPT !.running = @ + 1]
  /\ Goto(t, "yield?")
  /\ UNCHANGED <<left, notified>>

(* OnWorkerExited: the worker that gives back the last assigned slot completes *)
(* the job.  The mutant takes the result of fetch_sub for the new count.       *)
Unassign(t) ==
  /\ At(t, "unassign")
  /\ job' = [job EXCEPT !.assigned = @ - 1]
  /\ thread' = [thread EXCEPT ![t] = [Nowhere EXCEPT !.pc = "unrun", !.seen = job.assigned]]
  /\ UNCHANGED <<left, runner, notified>>

LastByNewCount(t) == thread[t].seen = 0
IsLastAssigned(t) == thread[t].seen = 1

Unrun(t) ==
  /\ At(t, "unrun")
  /\ job' = [job EXCEPT !.running = @ - 1]
  /\ IF IsLastAssigned(t) THEN Goto(t, "pending?") ELSE Return(t)
  /\ UNCHANGED <<left, runner, notified>>

(* The last look, at the increases that were announced and not yet posted. *)
CheckPending(t) ==
  /\ At(t, "pending?")
  /\ IF job.pending <= 0 THEN Goto(t, "complete") ELSE Return(t)
  /\ UNCHANGED <<job, left, runner, notified>>

----------------------------------------------------------------------------
(* The thread of the JobHandle: PostJob, then Join(true). *)
PostInitialWorkers(n) ==
  /\ At("main", "initial")
  /\ LET count == IF n = 0 THEN Desired ELSE n
     IN  IF count = 0 THEN thread' = [thread EXCEPT !["main"].pc = "complete", !["main"].back = "posted"]
                      ELSE CallPostWorkers("main", count, job.pending, "posted")
  /\ UNCHANGED <<job, left, runner, notified>>

Join ==
  /\ At("main", "posted")
  /\ IF job.completed THEN Goto("main", "wait") /\ UNCHANGED job
                      ELSE Goto("main", "yield?") /\ job' = [job EXCEPT !.running = @ + 1]
  /\ UNCHANGED <<left, runner, notified>>

(* The joiner looks at the running and pending counts, not at the assigned. *)
IsLastRunning == job.running = 1
Unjoin ==
  /\ At("main", "unjoin")
  /\ job' = [job EXCEPT !.running = @ - 1]
  /\ thread' = [thread EXCEPT !["main"].pc = IF IsLastRunning THEN "pending?" ELSE "wait", !["main"].back = "wait"]
  /\ UNCHANGED <<left, runner, notified>>

JoinReturns ==
  /\ At("main", "wait") /\ job.event
  /\ Goto("main", "joined")
  /\ UNCHANGED <<job, left, runner, notified>>

Cancel ==
  /\ ~job.cancelled /\ ~At("main", "initial")
  /\ job' = [job EXCEPT !.cancelled = TRUE]
  /\ UNCHANGED <<left, runner, thread, notified>>

(* Another thread adds a unit of work and says so while the job is posted. *)
NotifyConcurrencyIncrease ==
  /\ At("notifier", "idle") /\ notified < MaxNotify /\ thread["main"].pc \notin {"initial", "joined"}
  /\ notified' = notified + 1 /\ left' = left + 1
  /\ job' = [job EXCEPT !.completed = FALSE]
  /\ Goto("notifier", "announce")
  /\ UNCHANGED runner

Announce ==
  /\ At("notifier", "announce")
  /\ job' = [job EXCEPT !.pending = @ + 1]
  /\ CallPostWorkers("notifier", 1, job.pending + 1, "idle")
  /\ UNCHANGED <<left, runner, notified>>

(* The pool shuts down: posts fail from now on, and the tasks that wait are    *)
(* dropped with the queue, unless their traits say BLOCK_SHUTDOWN.             *)
CloseRunner ==
  /\ runner.open
  /\ \E kept \in {0, runner.tasks} :
       runner' = [runner EXCEPT !.tasks = kept, !.open = FALSE, !.lost = runner.tasks - kept]
  /\ UNCHANGED <<job, left, thread, notified>>

Next ==
  \/ \E t \in Threads :
       \/ ConsumePending(t) \/ CheckNotOver(t) \/ AssignWorkers(t) \/ PostWorkerTask(t) \/ RollBack(t)
       \/ LookAgain(t) \/ StoreCompleted(t)
       \/ CheckOver(t) \/ AskConcurrency(t) \/ RunCallback(t) \/ MaybeSpawnWorkers(t)
       \/ StartWorker(t) \/ Unassign(t) \/ Unrun(t) \/ CheckPending(t)
  \/ \E n \in 0..Cap : PostInitialWorkers(n)
  \/ Join \/ Unjoin \/ JoinReturns \/ Cancel \/ NotifyConcurrencyIncrease \/ Announce \/ CloseRunner

Spec == Init /\ [][Next]_jobVars

----------------------------------------------------------------------------
TypeOK ==
  /\ job.running \in 0..(Cardinality(Pool) + 1) /\ left \in 0..(Work + MaxNotify)
  /\ runner.tasks \in Nat /\ notified \in 0..MaxNotify

(* The slots of assigned_workers_ are exactly the worker tasks that wait, run, *)
(* are being posted or were lost with the runner: a slot that leaks keeps the  *)
(* job from completing, a slot given back twice completes it too soon.         *)
Holds(t) == CASE thread[t].pc \in {"post", "dropped"} -> thread[t].todo + thread[t].dropped + (IF t \in Pool THEN 1 ELSE 0)
              [] thread[t].pc \in {"idle", "unrun", "pending?"} -> 0
              [] thread[t].pc = "complete" -> IF t \in Pool /\ thread[t].back # "idle" THEN 1 ELSE 0
              [] OTHER -> IF t \in Pool THEN 1 ELSE 0
SlotsAreWorkers == job.assigned = runner.tasks + runner.lost + MapThenSumSet(Holds, Threads)

(* Join is left behind: it waits for an event that nobody has sent or will     *)
(* send, as no worker is still to run and no thread is still to look.          *)
Stranded ==
  At("main", "wait") /\ ~job.event /\ runner.tasks = 0 /\ \A t \in Threads \ {"main"} : At(t, "idle")

(* Join is never left behind, but in the three cases JoinNeverStranded names.  *)
JoinNotStranded ==
  Stranded => runner.lost > 0 \/ runner.split \/ (notified > 0 /\ (job.cancelled \/ ~runner.open))

(* The roll-back of dropped workers is there because "without this,            *)
(* assigned_workers_ would never reach zero and completion would deadlock"     *)
(* (job_task_source.cpp:162).  It deadlocks all the same, as neither the       *)
(* joiner, who left before a running worker, nor that worker completes the job:*)
(* - when the runner closes after it has accepted a worker (the slot of the    *)
(*   task it drops is never given back);                                       *)
(* - when it accepts one worker of a call and drops the next (the accepted one *)
(*   exits before the roll-back and is not the last assigned, and the          *)
(*   roll-back sees it running);                                               *)
(* - when an increase is announced while the job is being cancelled or the     *)
(*   runner closes (the last to leave sees it pending, and PostWorkers posts   *)
(*   nobody).                                                                  *)
JoinNeverStranded == ~Stranded

(* The client may free its state when Join returns: no worker runs or will run *)
(* its task then, unless an increase came while the job was ending.            *)
NoTaskAfterJoin == At("main", "joined") /\ notified = 0 => \A t \in Pool : ~At(t, "run")

(* After Join returns no worker calls back into the client: "Pool workers that *)
(* were assigned but not yet started will see is_completed_ in ShouldYield()   *)
(* and exit harmlessly without touching user callbacks, so there is no UAF     *)
(* risk" (job_task_source.cpp:239).                                            *)
NoCallbackAfterJoin == At("main", "joined") => \A t \in Pool : thread[t].pc \notin {"desired", "run"}
=============================================================================
