---------------------------- MODULE PoolShutdown ----------------------------
(***************************************************************************)
(* ThreadPool::Shutdown with the TaskTracker, the workers of the pool and  *)
(* the thread of the SHARED single-thread runners.  Shutdown cancels what  *)
(* does not block it, waits for the tracker's count of running BLOCK tasks *)
(* to be 0, shuts down queues and task source, and joins every thread.     *)
(*                                                                         *)
(* Dispatch is abstracted: a queue is in the ready heap or not, and a      *)
(* worker that is idle may take it from there (TaskPool has the details).  *)
(* A task that posts to its own queue puts it into its worker's local      *)
(* queue, whose entries are run without a claim.                           *)
(* A SHARED queue is marked dedicated and registered with the task source  *)
(* like any other, so it can get into the heap too.                        *)
(***************************************************************************)
EXTENDS Integers, Sequences, FiniteSets

CONSTANTS
  Workers,       \* WorkerThreads
  SharedThread,  \* the SharedWorkerThread
  Queues,        \* PooledTaskQueues
  SharedQueues,  \* the ones of SHARED single-thread runners
  Kinds,         \* shutdown behaviours that are posted
  BatchSize,     \* kTaskBatchSize
  None,          \* no thread, no queue
  MaxTasks       \* bound: tasks posted in a behaviour

ASSUME SharedAssumption == SharedQueues \subseteq Queues /\ SharedThread \notin Workers
ASSUME KindAssumption   == Kinds \subseteq {"block", "skip", "continue"}
ASSUME BatchAssumption  == BatchSize \in Nat \ {0} /\ MaxTasks \in Nat
ASSUME NoneAssumption   == None \notin Workers \cup {SharedThread} /\ None \notin Queues

VARIABLES
  state,       \* TaskTracker.shutdown_state_
  blocking,    \* TaskTracker.num_items_blocking_shutdown_
  notified,    \* shutdown_cv_ was notified
  spc,         \* where the caller of Shutdown is
  todo,        \* queues its loop has still to visit
  visit,       \* the queue it has cancelled and not yet re-enqueued
  incoming,    \* queue -> incoming_queue_
  work,        \* queue -> work_queue_ (SHARED queues)
  reject,      \* queue -> reject_new_tasks_
  shut,        \* queue -> shut_down_
  pooled,      \* queue -> it has an entry in the ready heap
  claimed,     \* queue -> TaskQueueTaskSource.has_worker_
  owner,       \* queue -> dedicated_owner
  source_down, \* PooledTaskSource.is_shutdown_
  stop,        \* SharedWorker.should_stop
  pc,          \* thread -> where it is
  cur,         \* thread -> the queue it runs
  batch,       \* thread -> tasks in hand, the running one first
  local,       \* worker -> local_work_queue_
  left,        \* queues the shared thread has still to visit in its pass
  posted,      \* history: task -> its shutdown behaviour
  reposted,    \* history: queues that a worker has put into its local queue
  ran,         \* history: tasks that have finished, and by whom
  late         \* history: tasks started after StartShutdown

tVars == <<state, blocking, notified>>
cVars == <<spc, todo, visit>>
qVars == <<incoming, work, reject, shut>>
dVars == <<pooled, claimed, owner, source_down, stop>>
wVars == <<pc, cur, batch, left, local>>
hVars == <<ran, late>>
pVars == <<posted, reposted>>
vars  == <<tVars, cVars, qVars, dVars, wVars, pVars, hVars>>

Threads == Workers \cup {SharedThread}
Kind(n) == posted[n]

Goto(t, l)     == pc' = [pc EXCEPT ![t] = l]
Leave(t, l)    == Goto(t, l) /\ cur' = [cur EXCEPT ![t] = None]
HasWork(q)     == work[q] # <<>> \/ incoming[q] # <<>>

----------------------------------------------------------------------------
(* A post; only pool queues have a callback that puts them into the heap. *)
Accept(q, k) ==
  /\ Len(posted) < MaxTasks /\ ~reject[q]
  /\ posted' = Append(posted, k)
  /\ incoming' = [incoming EXCEPT ![q] = Append(@, Len(posted) + 1)]

Push(q, k) ==
  /\ Accept(q, k)
  /\ pooled' = [pooled EXCEPT ![q] = @ \/ (incoming[q] = <<>> /\ q \notin SharedQueues /\ ~source_down)]
  /\ UNCHANGED <<tVars, cVars, work, reject, shut, claimed, owner, source_down, stop, wVars, reposted, hVars>>

(* A post of the running task to its own queue.  If that is empty the worker  *)
(* keeps it for itself (ReEnqueueTaskQueue); if not, it is any other post.    *)
Repost(w, k) ==
  /\ pc[w] = "run" /\ cur[w] \notin SharedQueues
  /\ incoming[cur[w]] = <<>>
  /\ Accept(cur[w], k)
  /\ local' = [local EXCEPT ![w] = Append(@, cur[w])]
  /\ reposted' = reposted \cup {cur[w]}
  /\ UNCHANGED <<tVars, cVars, work, reject, shut, dVars, pc, cur, batch, left, hVars>>

----------------------------------------------------------------------------
(* Running tasks. *)

(* TakeImmediateTasks: a BLOCK task ends its batch. *)
Source(q) == IF work[q] # <<>> THEN work[q] ELSE incoming[q]
Counts(s) == {n \in 1..Len(s) :
  /\ n <= BatchSize
  /\ \A i \in 1..n-1 : Kind(s[i]) # "block"
  /\ n = BatchSize \/ n = Len(s) \/ Kind(s[n]) = "block"}
TakeBatch(t, q) ==
  LET s == Source(q) IN
  \E n \in Counts(s) :
    /\ batch' = [batch EXCEPT ![t] = SubSeq(s, 1, n)]
    /\ IF q \in SharedQueues
       THEN /\ work' = [work EXCEPT ![q] = SubSeq(s, n + 1, Len(s))]
            /\ incoming' = [incoming EXCEPT ![q] = IF work[q] = <<>> THEN <<>> ELSE @]
       ELSE /\ incoming' = [incoming EXCEPT ![q] = SubSeq(s, n + 1, Len(s))]
            /\ UNCHANGED work

Started(n) == late' = IF state = "none" THEN late ELSE late \cup {n}

(* TaskTracker::WillRunTask. *)
WillRunTask(n) == IF Kind(n) = "block" THEN blocking + 1 ELSE blocking
Skipped(n)     == Kind(n) = "skip" /\ state # "none"

(* TaskTracker::DidProcessTask. *)
DidProcessTask(n) ==
  /\ blocking' = IF Kind(n) = "block" THEN blocking - 1 ELSE blocking
  /\ notified' = (notified \/ (Kind(n) = "block" /\ blocking = 1))

(* WorkerThread::ThreadMain takes a queue from its local queue first, with no *)
(* claim (WillRunTask is not called).                                         *)
TakeLocal(w) ==
  /\ pc[w] = "idle" /\ local[w] # <<>>
  /\ local' = [local EXCEPT ![w] = Tail(@)]
  /\ Goto(w, "take")
  /\ cur' = [cur EXCEPT ![w] = Head(local[w])]
  /\ UNCHANGED <<tVars, cVars, qVars, dVars, batch, left, pVars, hVars>>

(* Then it takes a queue from the heap.  A SHARED queue that another thread   *)
(* owns is lost to it (AssignDedicatedWorker).                                *)
Claim(w, q) ==
  /\ pc[w] = "idle" /\ local[w] = <<>> /\ ~source_down /\ pooled[q]
  /\ pooled' = [pooled EXCEPT ![q] = FALSE]
  /\ IF claimed[q] THEN UNCHANGED <<claimed, owner, pc, cur>>
     ELSE /\ claimed' = [claimed EXCEPT ![q] = TRUE]
          /\ IF q \in SharedQueues /\ owner[q] # None
             THEN UNCHANGED <<owner, pc, cur>>
             ELSE /\ owner' = IF q \in SharedQueues THEN [owner EXCEPT ![q] = w] ELSE owner
                  /\ Goto(w, "take")
                  /\ cur' = [cur EXCEPT ![w] = q]
  /\ UNCHANGED <<tVars, cVars, qVars, source_down, stop, batch, left, local, pVars, hVars>>

(* ProcessTaskBatch of a worker: the tracker is not asked before a task runs.  *)
(* After a batch the turn may go on, if budget remains.                        *)
Take(w) ==
  /\ pc[w] = "take"
  /\ IF Source(cur[w]) = <<>>
     THEN Goto(w, "turned") /\ UNCHANGED <<incoming, work, batch, late>>
     ELSE /\ TakeBatch(w, cur[w])
          /\ Goto(w, "run")
          /\ Started(Head(Source(cur[w])))
  /\ UNCHANGED <<tVars, cVars, reject, shut, dVars, cur, left, local, pVars, ran>>

Finish(w) ==
  /\ pc[w] = "run"
  /\ LET n == Head(batch[w]) IN
     /\ DidProcessTask(n)
     /\ ran' = ran \cup {<<n, w>>}
     /\ batch' = [batch EXCEPT ![w] = Tail(@)]
     /\ IF Len(batch[w]) > 1
        THEN Started(batch[w][2]) /\ UNCHANGED pc
        ELSE /\ Goto(w, "turned") \/ Goto(w, "take")
             /\ UNCHANGED late
  /\ UNCHANGED <<state, cVars, qVars, dVars, cur, left, local, pVars>>

(* The end of a turn.  OnTaskQueueProcessed takes the claim off a pool queue, *)
(* whoever has it, and puts the queue back into the heap if it has work and   *)
(* is not shut down; a SHARED queue is kept until it is shut down.            *)
Turned(w) ==
  /\ pc[w] = "turned"
  /\ LET q == cur[w] IN
     IF q \in SharedQueues
     THEN /\ Goto(w, CASE HasWork(q) -> "take" [] shut[q] /\ ~HasWork(q) -> "release" [] OTHER -> "parked")
          /\ UNCHANGED <<claimed, pooled, cur>>
     ELSE /\ claimed' = [claimed EXCEPT ![q] = FALSE]
          /\ pooled' = [pooled EXCEPT ![q] = @ \/ (incoming[q] # <<>> /\ ~shut[q] /\ ~source_down)]
          /\ Leave(w, "idle")
  /\ UNCHANGED <<tVars, cVars, qVars, owner, source_down, stop, batch, left, local, pVars, hVars>>

(* The owner of a SHARED queue is not signalled by posts, only by the shutdown*)
(* of the task source; or its reclaim time is up.                             *)
ParkWake(w) ==
  /\ pc[w] = "parked" /\ source_down
  /\ Goto(w, "release")
  /\ UNCHANGED <<tVars, cVars, qVars, dVars, cur, batch, left, local, pVars, hVars>>

ParkTimeout(w) ==
  /\ pc[w] = "parked"
  /\ Goto(w, IF HasWork(cur[w]) /\ ~shut[cur[w]] THEN "take" ELSE "release")
  /\ UNCHANGED <<tVars, cVars, qVars, dVars, cur, batch, left, local, pVars, hVars>>

(* ReleaseDedicatedQueue. *)
Released(q) ==
  /\ owner' = [owner EXCEPT ![q] = None]
  /\ pooled' = [pooled EXCEPT ![q] = @ \/ (HasWork(q) /\ ~shut[q] /\ ~source_down)]

Release(w) ==
  /\ pc[w] = "release"
  /\ Released(cur[w])
  /\ Leave(w, "idle")
  /\ UNCHANGED <<tVars, cVars, qVars, claimed, source_down, stop, batch, left, local, pVars, hVars>>

Exit(w) ==
  /\ pc[w] = "idle" /\ local[w] = <<>> /\ source_down
  /\ Goto(w, "exited")
  /\ UNCHANGED <<tVars, cVars, qVars, dVars, cur, batch, left, local, pVars, hVars>>

----------------------------------------------------------------------------
(* SharedWorkerThread::ThreadMain. *)

(* One queue of the pass; the mutant does not ask AssignDedicatedWorker. *)
AssignableAnyway(q) == ~shut[q] /\ HasWork(q)
Assignable(q) == ~shut[q] /\ HasWork(q) /\ owner[q] = None

SharedVisit(q) ==
  /\ pc[SharedThread] = "idle" /\ q \in left
  /\ left' = left \ {q}
  /\ IF Assignable(q)
     THEN /\ owner' = [owner EXCEPT ![q] = SharedThread]
          /\ pooled' = [pooled EXCEPT ![q] = FALSE]
          /\ TakeBatch(SharedThread, q)
          /\ Goto(SharedThread, "next")
          /\ cur' = [cur EXCEPT ![SharedThread] = q]
     ELSE UNCHANGED <<owner, pooled, incoming, work, batch, pc, cur>>
  /\ UNCHANGED <<tVars, cVars, reject, shut, claimed, source_down, stop, local, pVars, hVars>>

(* ProcessTaskBatch of the shared thread: the tracker may have a task skipped.*)
SharedStart ==
  /\ pc[SharedThread] = "next" /\ batch[SharedThread] # <<>>
  /\ LET n == Head(batch[SharedThread]) IN
     IF Skipped(n)
     THEN /\ batch' = [batch EXCEPT ![SharedThread] = Tail(@)]
          /\ UNCHANGED <<blocking, pc, late>>
     ELSE /\ blocking' = WillRunTask(n)
          /\ Goto(SharedThread, "run") /\ Started(n)
          /\ UNCHANGED batch
  /\ UNCHANGED <<state, notified, cVars, qVars, dVars, cur, left, local, pVars, ran>>

SharedFinish ==
  /\ pc[SharedThread] = "run"
  /\ LET n == Head(batch[SharedThread]) IN
     /\ DidProcessTask(n)
     /\ ran' = ran \cup {<<n, SharedThread>>}
     /\ batch' = [batch EXCEPT ![SharedThread] = Tail(@)]
     /\ Goto(SharedThread, "next")
  /\ UNCHANGED <<state, cVars, qVars, dVars, cur, left, local, pVars, late>>

SharedRelease ==
  /\ pc[SharedThread] = "next" /\ batch[SharedThread] = <<>>
  /\ Released(cur[SharedThread])
  /\ Leave(SharedThread, "idle")
  /\ UNCHANGED <<tVars, cVars, qVars, claimed, source_down, stop, batch, left, local, pVars, hVars>>

(* The end of a pass: should_stop, or a wait that ends at the reclaim time at  *)
(* the latest, and a new pass.  The mutant passes over all queues of the pool. *)
SharedPassedAll ==
  /\ pc[SharedThread] = "idle" /\ left = {}
  /\ IF stop THEN Goto(SharedThread, "exited") /\ UNCHANGED left
             ELSE left' = Queues /\ UNCHANGED pc
  /\ UNCHANGED <<tVars, cVars, qVars, dVars, cur, batch, local, pVars, hVars>>
SharedPassed ==
  /\ pc[SharedThread] = "idle" /\ left = {}
  /\ IF stop THEN Goto(SharedThread, "exited") /\ UNCHANGED left
             ELSE left' = SharedQueues /\ UNCHANGED pc
  /\ UNCHANGED <<tVars, cVars, qVars, dVars, cur, batch, local, pVars, hVars>>

----------------------------------------------------------------------------
(* Shutdown. *)

StartShutdown ==
  /\ spc = "idle"
  /\ state' = "started" /\ spc' = "cancel" /\ todo' = Queues
  /\ UNCHANGED <<visit, blocking, notified, qVars, dVars, wVars, pVars, hVars>>

(* What is left of a queue without the tasks that do not block shutdown, in   *)
(* its order: the task at position k was at position g[k].                    *)
Blocks(n) == Kind(n) = "block"
Blocking(s) == {i \in DOMAIN s : Blocks(s[i])}
Kept(s) ==
  {[k \in DOMAIN g |-> s[g[k]]] : g \in
     {h \in UNION {[1..m -> DOMAIN s] : m \in 0..Len(s)} :
        /\ \A j, k \in DOMAIN h : j < k => h[j] < h[k]
        /\ {h[k] : k \in DOMAIN h} = Blocking(s)}}

(* CancelNonShutdownBlockingTasksLocked, for one queue of the loop. *)
Cancel(q) ==
  /\ spc = "cancel" /\ q \in todo
  /\ todo' = todo \ {q} /\ spc' = "reenqueue" /\ visit' = q
  /\ reject' = [reject EXCEPT ![q] = TRUE]
  /\ \E s \in Kept(incoming[q]) : incoming' = [incoming EXCEPT ![q] = s]
  /\ UNCHANGED <<tVars, work, shut, dVars, wVars, pVars, hVars>>

(* ReEnqueueTaskQueue: into the heap, empty or not, unless it has an owner. *)
ReEnqueue(q) ==
  /\ spc = "reenqueue" /\ visit = q
  /\ pooled' = [pooled EXCEPT ![q] = @ \/ owner[q] = None]
  /\ spc' = "cancel"
  /\ UNCHANGED <<todo, visit, tVars, qVars, claimed, owner, source_down, stop, wVars, pVars, hVars>>

(* CompleteShutdown: the count is looked at now and whenever notified. *)
CompleteShutdown ==
  /\ spc = "cancel" /\ todo = {}
  /\ state' = "completed" /\ spc' = "drain"
  /\ UNCHANGED <<blocking, notified, todo, visit, qVars, dVars, wVars, pVars, hVars>>

Drained ==
  /\ spc = "drain" \/ (spc = "waiting" /\ notified)
  /\ notified' = FALSE
  /\ IF blocking = 0 THEN spc' = "close" /\ todo' = Queues ELSE spc' = "waiting" /\ UNCHANGED todo
  /\ UNCHANGED <<state, blocking, visit, qVars, dVars, wVars, pVars, hVars>>

(* PooledTaskQueue::Shutdown. *)
CloseQueue(q) ==
  /\ spc = "close" /\ q \in todo
  /\ todo' = todo \ {q} /\ UNCHANGED <<spc, visit>>
  /\ shut' = [shut EXCEPT ![q] = TRUE]
  /\ reject' = [reject EXCEPT ![q] = TRUE]
  /\ \E s \in Kept(incoming[q]) : incoming' = [incoming EXCEPT ![q] = s]
  /\ UNCHANGED <<tVars, work, dVars, wVars, pVars, hVars>>

(* PooledTaskSource::Shutdown wakes every worker that waits. *)
CloseSource ==
  /\ spc = "close" /\ todo = {}
  /\ source_down' = TRUE /\ spc' = "stop"
  /\ UNCHANGED <<tVars, todo, visit, qVars, pooled, claimed, owner, stop, wVars, pVars, hVars>>

(* Mutant of StopShared: the shared thread is joined but not told to stop. *)
StopSharedUntold ==
  /\ spc = "stop" /\ spc' = "joinshared"
  /\ UNCHANGED <<stop, tVars, todo, visit, qVars, pooled, claimed, owner, source_down, wVars, pVars, hVars>>
StopShared ==
  /\ spc = "stop" /\ spc' = "joinshared"
  /\ stop' = TRUE
  /\ UNCHANGED <<tVars, todo, visit, qVars, pooled, claimed, owner, source_down, wVars, pVars, hVars>>

(* Join of the shared thread; the mutant goes on without. *)
JoinSharedDetached ==
  /\ spc = "joinshared"
  /\ spc' = "join"
  /\ UNCHANGED <<tVars, todo, visit, qVars, dVars, wVars, pVars, hVars>>
JoinShared ==
  /\ spc = "joinshared" /\ pc[SharedThread] = "exited"
  /\ spc' = "join"
  /\ UNCHANGED <<tVars, todo, visit, qVars, dVars, wVars, pVars, hVars>>

JoinAll ==
  /\ spc = "join" /\ \A w \in Workers : pc[w] = "exited"
  /\ spc' = "done"
  /\ UNCHANGED <<tVars, todo, visit, qVars, dVars, wVars, pVars, hVars>>

----------------------------------------------------------------------------
Init ==
  /\ state = "none" /\ blocking = 0 /\ notified = FALSE
  /\ spc = "idle" /\ todo = {} /\ visit = None
  /\ incoming = [q \in Queues |-> <<>>] /\ work = [q \in Queues |-> <<>>]
  /\ reject = [q \in Queues |-> FALSE] /\ shut = [q \in Queues |-> FALSE]
  /\ pooled = [q \in Queues |-> FALSE] /\ claimed = [q \in Queues |-> FALSE]
  /\ owner = [q \in Queues |-> None]
  /\ source_down = FALSE /\ stop = FALSE
  /\ pc = [t \in Threads |-> "idle"] /\ cur = [t \in Threads |-> None]
  /\ batch = [t \in Threads |-> <<>>] /\ left = SharedQueues
  /\ local = [w \in Workers |-> <<>>]
  /\ posted = <<>> /\ reposted = {} /\ ran = {} /\ late = {}

WorkerStep(w) ==
  \/ TakeLocal(w)
  \/ \E q \in Queues : Claim(w, q)
  \/ Take(w) \/ Finish(w) \/ Turned(w) \/ ParkWake(w) \/ Release(w) \/ Exit(w)

SharedStep ==
  \/ \E q \in SharedQueues : SharedVisit(q)
  \/ SharedStart \/ SharedFinish \/ SharedRelease \/ SharedPassed

ShutdownStep ==
  \/ \E q \in Queues : Cancel(q) \/ ReEnqueue(q) \/ CloseQueue(q)
  \/ CompleteShutdown \/ Drained \/ CloseSource \/ StopShared \/ JoinShared \/ JoinAll

Next ==
  \/ \E q \in Queues, k \in Kinds : Push(q, k)
  \/ \E w \in Workers, k \in Kinds : Repost(w, k)
  \/ \E w \in Workers : WorkerStep(w) \/ ParkTimeout(w)
  \/ SharedStep
  \/ StartShutdown
  \/ ShutdownStep

Spec == Init /\ [][Next]_vars

(* Fairness: every thread that can go on is scheduled, and tasks end. *)
FairSpec == /\ Spec
            /\ \A w \in Workers : WF_vars(WorkerStep(w))
            /\ WF_vars(SharedStep)
            /\ WF_vars(ShutdownStep)
----------------------------------------------------------------------------
ShutdownPC == {"idle", "cancel", "reenqueue", "drain", "waiting", "close", "stop", "joinshared", "join", "done"}
ThreadPC == {"idle", "take", "next", "run", "turned", "parked", "release", "exited"}
TrackerTypes == state \in {"none", "started", "completed"} /\ blocking \in Int /\ notified \in BOOLEAN
CallerTypes == spc \in ShutdownPC /\ todo \in SUBSET Queues /\ visit \in Queues \cup {None}
QueueTypes ==
  /\ incoming \in [Queues -> Seq(1..MaxTasks)] /\ work \in [Queues -> Seq(1..MaxTasks)]
  /\ reject \in [Queues -> BOOLEAN] /\ shut \in [Queues -> BOOLEAN]
DispatchTypes ==
  /\ pooled \in [Queues -> BOOLEAN] /\ claimed \in [Queues -> BOOLEAN]
  /\ owner \in [Queues -> Threads \cup {None}]
  /\ source_down \in BOOLEAN /\ stop \in BOOLEAN
ThreadTypes ==
  /\ pc \in [Threads -> ThreadPC] /\ cur \in [Threads -> Queues \cup {None}]
  /\ batch \in [Threads -> Seq(1..MaxTasks)] /\ left \in SUBSET SharedQueues
  /\ local \in [Workers -> Seq(Queues \ SharedQueues)]
HistoryTypes ==
  /\ posted \in Seq(Kinds) /\ reposted \in SUBSET Queues
  /\ ran \in SUBSET ((1..MaxTasks) \X Threads) /\ late \in SUBSET (1..MaxTasks)
TypeOK ==
  /\ TrackerTypes /\ CallerTypes /\ QueueTypes
  /\ DispatchTypes /\ ThreadTypes /\ HistoryTypes

(* No two threads have tasks of one queue in hand (task_source.h: "at most    *)
(* one worker at a time").  The code does not keep it.                        *)
OneConsumer ==
  \A t, u \in Threads : batch[t] # <<>> /\ batch[u] # <<>> /\ cur[t] = cur[u] => t = u

(* It does for the queues that no running task has posted to while they were  *)
(* empty: has_worker_ keeps the workers apart, and dedicated_owner the        *)
(* workers and the shared thread.                                             *)
OneConsumerUnlessReposted ==
  \A t, u \in Threads :
    batch[t] # <<>> /\ batch[u] # <<>> /\ cur[t] = cur[u] /\ cur[t] \notin reposted => t = u

(* Once Shutdown has returned and the queues are gone, no thread of the pool  *)
(* holds one or will take another.                                            *)
QuietAfter ==
  spc = "done" => /\ \A t \in Threads : pc[t] = "exited" /\ cur[t] = None /\ batch[t] = <<>>
                  /\ \A w \in Workers : local[w] = <<>>

(* Shutdown returns. *)
ShutdownReturns == (spc # "idle") ~> (spc = "done")

(* It does as long as the count has not fallen below 0: every task ends, the   *)
(* waits of Shutdown are notified and every thread it joins learns of it.      *)
ReturnsUnlessUndercounted == [](blocking >= 0) => ShutdownReturns

(* A BLOCK task that was accepted has run when Shutdown returns. *)
BlockTasksRun ==
  spc = "done" => \A n \in DOMAIN posted : Blocks(n) => \E t \in Threads : <<n, t>> \in ran

(* A task to be skipped at shutdown does not start once shutdown has. *)
NoLateStart == \A n \in late : Kind(n) # "skip"

(* Tasks of SHARED runners run on the thread they share. *)
SharedOnOneThread ==
  \A t \in Threads : batch[t] # <<>> /\ cur[t] \in SharedQueues => t = SharedThread
----------------------------------------------------------------------------
(* The inductive strengthening of TypeOK: a thread has a queue exactly while  *)
(* it is busy, and tasks in hand only while it runs them.                     *)
HandInv ==
  /\ \A t \in Threads : cur[t] = None <=> pc[t] \in {"idle", "exited"}
  /\ \A t \in Threads : batch[t] # <<>> => pc[t] \in {"run", "next"}
  /\ \A t \in Threads : pc[t] = "run" => batch[t] # <<>>
  /\ \A w \in Workers : pc[w] # "next"
  /\ \A w \in Workers : pc[w] \in {"parked", "release"} => cur[w] \in SharedQueues
  /\ pc[SharedThread] \in {"idle", "next", "run", "exited"}
  /\ cur[SharedThread] \in SharedQueues \cup {None}
  /\ \A w \in Workers : pc[w] = "exited" => local[w] = <<>>

(* The strengthening of OneConsumerUnlessReposted: who has a SHARED queue owns*)
(* it, and who has another that was never reposted has claimed it, alone.     *)
Apart == Queues \ (SharedQueues \cup reposted)
ClaimInv ==
  /\ \A t \in Threads : cur[t] \in SharedQueues => owner[cur[t]] = t
  /\ \A w \in Workers : cur[w] \in Apart => claimed[cur[w]]
  /\ \A v, w \in Workers : cur[v] = cur[w] /\ cur[v] \in Apart => v = w
  /\ \A w \in Workers : \A i \in DOMAIN local[w] : local[w][i] \in reposted
  /\ reposted \cap SharedQueues = {}

(* The strengthening of QuietAfter: the joins come one after the other. *)
JoinInv ==
  /\ spc \in {"join", "done"} => pc[SharedThread] = "exited"
  /\ spc = "done" => \A w \in Workers : pc[w] = "exited"
=============================================================================
