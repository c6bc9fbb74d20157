----------------------------- MODULE TaskPool -----------------------------
(***************************************************************************)
(* Dispatch in the thread pool of src/neixx/task: threads post to queues   *)
(* (SequencedTaskQueue), a queue with work is put into the sharded ready   *)
(* heap (PooledTaskSource), and workers (WorkerThread) scan the shards,    *)
(* claim a queue, run a batch of its tasks and put it back.  A worker that *)
(* finds nothing sleeps until the wake generation moves.                   *)
(*                                                                         *)
(* A queue is sequenced, or dedicated to one worker at a time (the queue   *)
(* of a SingleThreadTaskRunner, drained through a private work queue).     *)
(* Every section under a lock is one step; the lock-free steps between two *)
(* sections are steps of their own.  The order of a heap depends on task   *)
(* priorities and on delayed run times: here an entry may go anywhere.     *)
(* Shutdown is in PoolShutdown.                                            *)
(***************************************************************************)
EXTENDS Integers, Sequences, FiniteSets

CONSTANTS
  Workers,    \* WorkerThreads of the pool
  Posters,    \* other threads that post tasks
  Manager,    \* the thread of the DelayedTaskManager
  Queues,     \* PooledTaskQueues
  Dedicated,  \* the ones of SingleThreadTaskRunners
  Shards,     \* kShardCount
  ShardOf,    \* queue -> GetTaskSourceShardIndex
  BatchSize,  \* kTaskBatchSize
  None,       \* no worker, no queue
  MaxTasks,   \* bound: tasks posted in a behaviour
  MaxFences,  \* bound: calls of BeginFence
  Repost,     \* whether a task may post to the queue it runs in
  Reclaim     \* whether suggested_reclaim_time is positive

ASSUME DedicatedAssumption == Dedicated \subseteq Queues
ASSUME ShardAssumption     == Shards \in Nat \ {0} /\ ShardOf \in [Queues -> 0..Shards-1]
ASSUME BatchAssumption     == BatchSize \in Nat \ {0}
ASSUME NoneAssumption      == None \notin Workers /\ None \notin Queues
ASSUME ThreadAssumption    == Workers \cap Posters = {} /\ Manager \notin Workers \cup Posters
ASSUME BoundAssumption     == MaxTasks \in Nat /\ MaxFences \in Nat
ASSUME SwitchAssumption    == Repost \in BOOLEAN /\ Reclaim \in BOOLEAN

VARIABLES
  incoming,    \* queue -> incoming_queue_
  private,     \* queue -> work_queue_, the consumer's side of a dedicated queue
  heap,        \* shard -> entries, the one to be popped first in front
  queued,      \* queue -> TaskSourceState.queued
  owner,       \* queue -> dedicated_owner
  event,       \* queue -> dedicated_event, an auto-reset token
  has_worker,  \* queue -> TaskQueueTaskSource.has_worker_
  fresh,       \* workers whose observed_generation is wake_generation_
  sleeping,    \* workers waiting on wait_cv_
  fence,       \* execution_fence_count_
  fence_event, \* fence_release_event_, manual reset
  fpc,         \* where the thread that fences is
  pc,          \* worker -> where it is in ThreadMain
  at,          \* worker -> shard it scans next
  cur,         \* worker -> the queue it has claimed
  ded,         \* worker -> dedicated_queue_
  local,       \* worker -> local_work_queue_
  batch,       \* worker -> tasks taken, the one running first
  ppc,         \* thread -> where it is in a post or a re-enqueue
  pq,          \* thread -> the queue that is about
  posted,      \* tasks posted so far; a task is its number
  fences,      \* calls of BeginFence so far
  started,     \* history: queue -> tasks in the order they started
  reposted,    \* history: a worker has put a queue into its local queue
  withdrawn,   \* history: queues put back at a fence or released by an owner
  delayed      \* history: queues that have had a delayed task become due

qVars == <<incoming, private>>
sVars == <<heap, queued, owner, event, has_worker>>
gVars == <<fresh, sleeping>>
fVars == <<fence, fence_event, fences, fpc>>
wVars == <<pc, at, cur, ded, local, batch>>
pVars == <<ppc, pq>>
hVars == <<started, reposted, withdrawn, delayed>>
vars  == <<qVars, sVars, gVars, fVars, wVars, pVars, posted, hVars>>

Threads == Workers \cup Posters \cup {Manager}

Running(w) == pc[w] \in {"run", "runfull"}
Ready(w)   == ppc[w] = "idle"

Goto(w, l) == pc' = [pc EXCEPT ![w] = l]
Leave(w, l) == Goto(w, l) /\ cur' = [cur EXCEPT ![w] = None]

(* Start EnqueueTaskSource(q), or ReEnqueueTaskSource(q), on thread t. *)
Call(t, l, q) == /\ ppc' = [ppc EXCEPT ![t] = l]
                 /\ pq' = [pq EXCEPT ![t] = q]
CallIf(c, t, l, q) == IF c THEN Call(t, l, q) ELSE UNCHANGED pVars
Done(t) == Call(t, "idle", None)

(* HasImmediateWork, and HasImmediateWorkOnConsumerSide. *)
HasWork(q) == incoming[q] # <<>>
HasWorkOnConsumerSide(q) == private[q] # <<>> \/ incoming[q] # <<>>

----------------------------------------------------------------------------
(* Posting. *)

(* ReEnqueueTaskQueue(q) on thread t: a worker that posts to the queue it is  *)
(* running keeps it for itself; a dedicated queue may have an owner to wake;   *)
(* any other goes to the heap.                                                 *)
ReEnqueueTaskQueue(t, q) ==
  IF t \in Workers /\ cur[t] = q
  THEN /\ local' = [local EXCEPT ![t] = Append(@, q)]
       /\ reposted' = TRUE
       /\ UNCHANGED pVars
  ELSE /\ Call(t, IF q \in Dedicated THEN "owner" ELSE "enq", q)
       /\ UNCHANGED <<local, reposted>>

Inserted(s, i, e) == SubSeq(s, 1, i) \o <<e>> \o SubSeq(s, i + 1, Len(s))

(* Where a post goes: to the end, unless delayed tasks have come into the      *)
(* queue.  What happens then is in TaskQueue; here it may go anywhere.         *)
Places(q) == IF q \in delayed THEN 0..Len(incoming[q]) ELSE {Len(incoming[q])}

(* PushImmediateTask: only a post to an empty queue calls on. *)
Push(t, q) ==
  /\ Ready(t) /\ posted < MaxTasks
  /\ t \in Workers => Running(t) /\ (cur[t] = q => Repost)
  /\ posted' = posted + 1
  /\ \E i \in Places(q) : incoming' = [incoming EXCEPT ![q] = Inserted(@, i, posted + 1)]
  /\ IF incoming[q] = <<>> THEN ReEnqueueTaskQueue(t, q) ELSE UNCHANGED <<pVars, local, reposted>>
  /\ UNCHANGED <<private, sVars, gVars, fVars, pc, at, cur, ded, batch, started, withdrawn, delayed>>

(* PromoteAndReEnqueueTaskQueue: a delayed task has become due. *)
Promote(q) ==
  /\ Ready(Manager) /\ posted < MaxTasks
  /\ posted' = posted + 1
  /\ incoming' = [incoming EXCEPT ![q] = Append(@, posted + 1)]
  /\ delayed' = delayed \cup {q}
  /\ Call(Manager, "due", q)
  /\ UNCHANGED <<private, sVars, gVars, fVars, wVars, started, reposted, withdrawn>>

PromoteReady ==
  /\ ppc[Manager] = "due"
  /\ LET q == pq[Manager] IN
     IF HasWork(q) THEN Call(Manager, IF q \in Dedicated THEN "owner" ELSE "enq", q) ELSE Done(Manager)
  /\ UNCHANGED <<qVars, sVars, gVars, fVars, wVars, posted, hVars>>

(* Mutant of FindOwner: the owner of a dedicated queue is not told. *)
FindOwnerUntold(t) ==
  /\ ppc[t] = "owner"
  /\ Call(t, "enq", pq[t])
  /\ UNCHANGED <<qVars, sVars, gVars, fVars, wVars, posted, hVars>>

(* A dedicated queue: its owner, if it has one, is signalled without the lock. *)
FindOwner(t) ==
  /\ ppc[t] = "owner"
  /\ Call(t, IF owner[pq[t]] # None THEN "wake" ELSE "enq", pq[t])
  /\ UNCHANGED <<qVars, sVars, gVars, fVars, wVars, posted, hVars>>

WakeDedicatedWorker(t) ==
  /\ ppc[t] = "wake"
  /\ event' = [event EXCEPT ![pq[t]] = TRUE]
  /\ Done(t)
  /\ UNCHANGED <<qVars, heap, queued, owner, has_worker, gVars, fVars, wVars, posted, hVars>>

(* EnqueueTaskSourceLocked; the sort key decides where the entry goes. *)
Enqueue(t) ==
  /\ ppc[t] = "enq"
  /\ LET q == pq[t] IN
     IF owner[q] # None \/ queued[q]
     THEN UNCHANGED <<heap, queued>> /\ Done(t)
     ELSE /\ \E i \in 0..Len(heap[ShardOf[q]]) :
                heap' = [heap EXCEPT ![ShardOf[q]] = Inserted(@, i, q)]
          /\ queued' = [queued EXCEPT ![q] = TRUE]
          /\ Call(t, "bump", q)
  /\ UNCHANGED <<qVars, owner, event, has_worker, gVars, fVars, wVars, posted, hVars>>

(* NotifyWorkAvailable: the generation moves, then one sleeper is signalled. *)
NotifyBump(t) ==
  /\ ppc[t] = "bump"
  /\ fresh' = {}
  /\ Call(t, "signal", pq[t])
  /\ UNCHANGED <<qVars, sVars, sleeping, fVars, wVars, posted, hVars>>

NotifySignal(t) ==
  /\ ppc[t] = "signal"
  /\ IF sleeping = {} THEN UNCHANGED sleeping
     ELSE \E w \in sleeping : sleeping' = sleeping \ {w}
  /\ Done(t)
  /\ UNCHANGED <<qVars, sVars, fresh, fVars, wVars, posted, hVars>>

Post(t) == \/ FindOwner(t) \/ WakeDedicatedWorker(t) \/ Enqueue(t)
           \/ NotifyBump(t) \/ NotifySignal(t)

----------------------------------------------------------------------------
(* The head of the worker's loop: its dedicated queue, its local queue, heap. *)

TopDedicated(w) ==
  /\ pc[w] = "top" /\ Ready(w) /\ ded[w] # None
  /\ Goto(w, "take")
  /\ cur' = [cur EXCEPT ![w] = ded[w]]
  /\ UNCHANGED <<qVars, sVars, gVars, fVars, at, ded, local, batch, pVars, posted, hVars>>

(* AssignDedicatedWorker(q), and the worker goes on to a batch or not. *)
Assign(w, q) ==
  IF owner[q] \in {None, w}
  THEN /\ owner' = [owner EXCEPT ![q] = w]
       /\ queued' = [queued EXCEPT ![q] = @ /\ owner[q] = w]
       /\ ded' = [ded EXCEPT ![w] = q]
       /\ cur' = [cur EXCEPT ![w] = q]
       /\ Goto(w, "take")
  ELSE Leave(w, "top") /\ UNCHANGED <<owner, queued, ded>>

TopLocal(w) ==
  /\ pc[w] = "top" /\ Ready(w) /\ ded[w] = None
  /\ local[w] # <<>>
  /\ local' = [local EXCEPT ![w] = Tail(@)]
  /\ LET q == Head(local[w]) IN
     IF q \in Dedicated
     THEN Assign(w, q)
     ELSE /\ Goto(w, "take")
          /\ cur' = [cur EXCEPT ![w] = q]
          /\ UNCHANGED <<owner, queued, ded>>
  /\ UNCHANGED <<qVars, heap, event, has_worker, gVars, fVars, at, batch, pVars, posted, hVars>>

(* GetNextTaskSourceTimed: the generation is read before the shards are.      *)
Observe(w) ==
  /\ Ready(w)
  /\ \/ pc[w] = "top" /\ ded[w] = None /\ local[w] = <<>>
     \/ pc[w] = "observe"
  /\ fresh' = fresh \cup {w}
  /\ at' = [at EXCEPT ![w] = 0]
  /\ Goto(w, "scan")
  /\ UNCHANGED <<qVars, sVars, sleeping, fVars, cur, ded, local, batch, pVars, posted, hVars>>

(* The shard scanned after shard s; the mutant runs past the last one. *)
FollowingPastEnd(s) == s + 1
Following(s) == IF s = Shards - 1 THEN 0 ELSE s + 1

(* DequeueTaskSourceLocked.  An entry is passed over and lost if its queue is *)
(* no longer marked queued, an earlier entry of it was met, or WillRunTask    *)
(* says that a worker has it; the mutant leaves out WillRunTask.              *)
AllowedUnclaimed(s) == {i \in DOMAIN heap[s] : LET q == heap[s][i] IN
  /\ queued[q]
  /\ \A j \in 1..i-1 : heap[s][j] # q}
Allowed(s) == {i \in DOMAIN heap[s] : LET q == heap[s][i] IN
  /\ queued[q] /\ ~has_worker[q]
  /\ \A j \in 1..i-1 : heap[s][j] # q}
Popped(s, n) == {heap[s][i] : i \in 1..n}

Scan(w) ==
  /\ pc[w] = "scan"
  /\ LET s == at[w] IN
     IF Allowed(s) = {}
     THEN /\ heap' = [heap EXCEPT ![s] = <<>>]
          /\ queued' = [q \in Queues |-> queued[q] /\ q \notin Popped(s, Len(heap[s]))]
          /\ at' = [at EXCEPT ![w] = Following(s)]
          /\ Goto(w, IF s = Shards - 1 THEN "decide" ELSE "scan")
          /\ UNCHANGED <<has_worker, cur>>
     ELSE \E n \in Allowed(s) :
          /\ \A i \in Allowed(s) : n <= i
          /\ heap' = [heap EXCEPT ![s] = SubSeq(@, n + 1, Len(@))]
          /\ queued' = [q \in Queues |-> queued[q] /\ q \notin Popped(s, n)]
          /\ has_worker' = [has_worker EXCEPT ![heap[s][n]] = TRUE]
          /\ cur' = [cur EXCEPT ![w] = heap[s][n]]
          /\ at' = [at EXCEPT ![w] = 0]
          /\ Goto(w, "got")
  /\ UNCHANGED <<qVars, owner, event, gVars, fVars, ded, local, batch, pVars, posted, hVars>>

(* Mutant of Decide: it sleeps whatever the generation. *)
DecideBlindly(w) ==
  /\ pc[w] = "decide"
  /\ sleeping' = sleeping \cup {w}
  /\ Goto(w, "wait")
  /\ UNCHANGED <<qVars, sVars, fresh, fVars, at, cur, ded, local, batch, pVars, posted, hVars>>

(* Under wait_lock_: sleep only if the generation has not moved. *)
Decide(w) ==
  /\ pc[w] = "decide"
  /\ IF w \in fresh
     THEN sleeping' = sleeping \cup {w} /\ Goto(w, "wait")
     ELSE UNCHANGED sleeping /\ Goto(w, "observe")
  /\ UNCHANGED <<qVars, sVars, fresh, fVars, at, cur, ded, local, batch, pVars, posted, hVars>>

(* The wait on wait_cv_ was signalled. *)
Wake(w) ==
  /\ pc[w] = "wait" /\ w \notin sleeping
  /\ IF w \in fresh THEN sleeping' = sleeping \cup {w} /\ UNCHANGED pc
                    ELSE Goto(w, "observe") /\ UNCHANGED sleeping
  /\ UNCHANGED <<qVars, sVars, fresh, fVars, at, cur, ded, local, batch, pVars, posted, hVars>>

(* It ended by itself: a worker with nothing to do whose time is up exits. *)
WakeUnasked(w) ==
  /\ pc[w] = "wait"
  /\ IF w \in fresh THEN Reclaim /\ Goto(w, "exited") ELSE Goto(w, "observe")
  /\ sleeping' = sleeping \ {w}
  /\ UNCHANGED <<qVars, sVars, fresh, fVars, at, cur, ded, local, batch, pVars, posted, hVars>>

----------------------------------------------------------------------------
(* The execution fence. *)

(* BeginFence: the release event is reset, then the fence is counted. *)
BeginFence ==
  /\ fpc = "idle" /\ fences < MaxFences
  /\ fences' = fences + 1
  /\ fence_event' = FALSE
  /\ fpc' = "arm"
  /\ UNCHANGED <<fence, qVars, sVars, gVars, wVars, pVars, posted, hVars>>

CountFence ==
  /\ fpc = "arm"
  /\ fence' = fence + 1
  /\ fpc' = "idle"
  /\ UNCHANGED <<fences, fence_event, qVars, sVars, gVars, wVars, pVars, posted, hVars>>

(* Mutant of EndFence: only a fence that was nested is signalled. *)
EndFenceNested ==
  /\ fpc = "idle" /\ fence > 0
  /\ fence' = fence - 1
  /\ fpc' = IF fence = 2 THEN "signal" ELSE "idle"
  /\ UNCHANGED <<fences, fence_event, qVars, sVars, gVars, wVars, pVars, posted, hVars>>

(* EndFence: the last one signals the release event. *)
EndFence ==
  /\ fpc = "idle" /\ fence > 0
  /\ fence' = fence - 1
  /\ fpc' = IF fence = 1 THEN "signal" ELSE "idle"
  /\ UNCHANGED <<fences, fence_event, qVars, sVars, gVars, wVars, pVars, posted, hVars>>

SignalFence ==
  /\ fpc = "signal"
  /\ fence_event' = TRUE
  /\ fpc' = "idle"
  /\ UNCHANGED <<fence, fences, qVars, sVars, gVars, wVars, pVars, posted, hVars>>

Fence == BeginFence \/ CountFence \/ EndFence \/ SignalFence

(* A claimed queue: back to the heap while fenced, else on to its batch. *)
Got(w) ==
  /\ pc[w] = "got"
  /\ IF fence > 0
     THEN /\ queued' = [queued EXCEPT ![cur[w]] = FALSE]
          /\ withdrawn' = withdrawn \cup {cur[w]}
          /\ Goto(w, "putback")
     ELSE /\ Goto(w, IF cur[w] \in Dedicated THEN "assign" ELSE "take")
          /\ UNCHANGED <<queued, withdrawn>>
  /\ UNCHANGED <<qVars, heap, owner, event, has_worker, gVars, fVars, at, cur, ded, local, batch,
                 pVars, posted, started, reposted, delayed>>

PutBack(w) ==
  /\ pc[w] = "putback"
  /\ CallIf(HasWork(cur[w]), w, "enq", cur[w])
  /\ Leave(w, "fence")
  /\ UNCHANGED <<qVars, sVars, gVars, fVars, at, ded, local, batch, posted, hVars>>

FenceTest(w) ==
  /\ pc[w] = "fence" /\ Ready(w)
  /\ Goto(w, IF fence > 0 THEN "fencewait" ELSE "top")
  /\ UNCHANGED <<qVars, sVars, gVars, fVars, at, cur, ded, local, batch, pVars, posted, hVars>>

FenceWake(w) ==
  /\ pc[w] = "fencewait" /\ fence_event
  /\ Goto(w, "fence")
  /\ UNCHANGED <<qVars, sVars, gVars, fVars, at, cur, ded, local, batch, pVars, posted, hVars>>

AssignClaimed(w) ==
  /\ pc[w] = "assign"
  /\ Assign(w, cur[w])
  /\ UNCHANGED <<qVars, heap, event, has_worker, gVars, fVars, at, local, batch, pVars, posted, hVars>>

----------------------------------------------------------------------------
(* ProcessTaskBatch. *)

StartTask(q, b) == started' = [started EXCEPT ![q] = Append(@, Head(b))]

(* Where the consumer of q takes from: it swaps its private queue in when that *)
(* is empty.  The mutant looks at the shared queue first.                      *)
SourceShared(q) == IF q \in Dedicated /\ incoming[q] = <<>> THEN private[q] ELSE incoming[q]
Source(q) == IF q \in Dedicated /\ private[q] # <<>> THEN private[q] ELSE incoming[q]

(* TakeImmediateTasks: up to BatchSize tasks; a BLOCK_SHUTDOWN task cuts the  *)
(* batch short.                                                               *)
Take(w) ==
  /\ pc[w] = "take"
  /\ LET q   == cur[w]
         src == Source(q)
     IN  IF src = <<>>
         THEN Goto(w, "turned") /\ UNCHANGED <<qVars, batch, started>>
         ELSE \E n \in 1..Len(src) :
              /\ n <= BatchSize
              /\ batch' = [batch EXCEPT ![w] = SubSeq(src, 1, n)]
              /\ IF q \in Dedicated
                 THEN /\ private' = [private EXCEPT ![q] = SubSeq(src, n + 1, Len(src))]
                      /\ incoming' = [incoming EXCEPT ![q] = IF private[q] = <<>> THEN <<>> ELSE @]
                 ELSE /\ incoming' = [incoming EXCEPT ![q] = SubSeq(src, n + 1, Len(src))]
                      /\ UNCHANGED private
              /\ StartTask(q, src)
              /\ Goto(w, IF n = BatchSize THEN "runfull" ELSE "run")
  /\ UNCHANGED <<sVars, gVars, fVars, at, cur, ded, local, pVars, posted, reposted, withdrawn, delayed>>

(* A task ends; after a full batch the turn goes on if budget remains. *)
Finish(w) ==
  /\ Running(w) /\ Ready(w)
  /\ batch' = [batch EXCEPT ![w] = Tail(@)]
  /\ IF Len(batch[w]) > 1
     THEN StartTask(cur[w], Tail(batch[w])) /\ UNCHANGED pc
     ELSE /\ \/ Goto(w, "turned")
             \/ pc[w] = "runfull" /\ Goto(w, "take")
          /\ UNCHANGED started
  /\ UNCHANGED <<qVars, sVars, gVars, fVars, at, cur, ded, local, pVars, posted, reposted, withdrawn, delayed>>

(* The end of a turn: OnTaskQueueProcessed gives the queue up (DidProcessTask)*)
(* before it looks for more work; a dedicated owner goes on or parks.         *)
Turned(w) ==
  /\ pc[w] = "turned"
  /\ IF ded[w] = None
     THEN /\ has_worker' = [has_worker EXCEPT ![cur[w]] = FALSE]
          /\ Goto(w, "recheck") /\ UNCHANGED cur
     ELSE /\ IF HasWorkOnConsumerSide(cur[w]) THEN Leave(w, "top") ELSE Goto(w, "park") /\ UNCHANGED cur
          /\ UNCHANGED has_worker
  /\ UNCHANGED <<qVars, heap, queued, owner, event, gVars, fVars, at, ded, local, batch, pVars,
                 posted, hVars>>

Recheck(w) ==
  /\ pc[w] = "recheck"
  /\ IF HasWork(cur[w]) THEN Goto(w, "unmark") /\ UNCHANGED cur ELSE Leave(w, "top")
  /\ UNCHANGED <<qVars, sVars, gVars, fVars, at, ded, local, batch, pVars, posted, hVars>>

(* OnTaskSourceProcessed: the mark is cleared so that the queue can go back. *)
Unmark(w) ==
  /\ pc[w] = "unmark"
  /\ queued' = [queued EXCEPT ![cur[w]] = FALSE]
  /\ Goto(w, "requeue")
  /\ UNCHANGED <<qVars, heap, owner, event, has_worker, gVars, fVars, at, cur, ded, local, batch,
                 pVars, posted, hVars>>

Requeue(w) ==
  /\ pc[w] = "requeue"
  /\ CallIf(HasWork(cur[w]), w, "enq", cur[w])
  /\ Leave(w, "top")
  /\ UNCHANGED <<qVars, sVars, gVars, fVars, at, ded, local, batch, posted, hVars>>

----------------------------------------------------------------------------
(* WaitForDedicatedWork and ReleaseDedicatedQueue. *)

Park(w) ==
  /\ pc[w] \in {"park", "parklast"}
  /\ CASE HasWorkOnConsumerSide(cur[w]) -> Leave(w, "top")
       [] pc[w] = "park" /\ ~HasWorkOnConsumerSide(cur[w]) -> Goto(w, "parked") /\ UNCHANGED cur
       [] OTHER -> Goto(w, "release") /\ UNCHANGED cur
  /\ UNCHANGED <<qVars, sVars, gVars, fVars, at, ded, local, batch, pVars, posted, hVars>>

ParkWake(w) ==
  /\ pc[w] = "parked" /\ event[cur[w]]
  /\ event' = [event EXCEPT ![cur[w]] = FALSE]
  /\ Goto(w, "park")
  /\ UNCHANGED <<qVars, heap, queued, owner, has_worker, gVars, fVars, at, cur, ded, local, batch,
                 pVars, posted, hVars>>

(* The reclaim time is up: one more look for work, then the queue is released.*)
ParkTimeout(w) ==
  /\ pc[w] = "parked" /\ Reclaim
  /\ Goto(w, "parklast")
  /\ UNCHANGED <<qVars, sVars, gVars, fVars, at, cur, ded, local, batch, pVars, posted, hVars>>

Release(w) ==
  /\ pc[w] = "release"
  /\ owner' = [owner EXCEPT ![cur[w]] = None]
  /\ withdrawn' = withdrawn \cup {cur[w]}
  /\ Goto(w, "released")
  /\ UNCHANGED <<qVars, heap, queued, event, has_worker, gVars, fVars, at, cur, ded, local, batch,
                 pVars, posted, started, reposted, delayed>>

Released(w) ==
  /\ pc[w] = "released"
  /\ CallIf(HasWorkOnConsumerSide(cur[w]), w, "enq", cur[w])
  /\ ded' = [ded EXCEPT ![w] = None]
  /\ Leave(w, "top")
  /\ UNCHANGED <<qVars, sVars, gVars, fVars, at, local, batch, posted, hVars>>

----------------------------------------------------------------------------
Init ==
  /\ incoming = [q \in Queues |-> <<>>] /\ private = [q \in Queues |-> <<>>]
  /\ heap = [s \in 0..Shards-1 |-> <<>>]
  /\ queued = [q \in Queues |-> FALSE]
  /\ owner = [q \in Queues |-> None]
  /\ event = [q \in Queues |-> FALSE]
  /\ has_worker = [q \in Queues |-> FALSE]
  /\ fresh = {} /\ sleeping = {}
  /\ fence = 0 /\ fence_event = FALSE /\ fences = 0 /\ fpc = "idle"
  /\ pc = [w \in Workers |-> "top"] /\ at = [w \in Workers |-> 0]
  /\ cur = [w \in Workers |-> None] /\ ded = [w \in Workers |-> None]
  /\ local = [w \in Workers |-> <<>>] /\ batch = [w \in Workers |-> <<>>]
  /\ ppc = [t \in Threads |-> "idle"] /\ pq = [t \in Threads |-> None]
  /\ posted = 0
  /\ started = [q \in Queues |-> <<>>] /\ reposted = FALSE /\ withdrawn = {} /\ delayed = {}

Work(w) ==
  \/ TopDedicated(w) \/ TopLocal(w) \/ Observe(w) \/ Scan(w) \/ Decide(w) \/ Wake(w)
  \/ Got(w) \/ PutBack(w) \/ FenceTest(w) \/ FenceWake(w) \/ AssignClaimed(w)
  \/ Take(w) \/ Finish(w) \/ Turned(w) \/ Recheck(w) \/ Unmark(w) \/ Requeue(w)
  \/ Park(w) \/ ParkWake(w) \/ Release(w) \/ Released(w)

Next ==
  \/ \E t \in Threads : Post(t)
  \/ \E t \in Workers \cup Posters, q \in Queues : Push(t, q)
  \/ \E q \in Queues : Promote(q)
  \/ PromoteReady
  \/ \E w \in Workers : Work(w) \/ WakeUnasked(w) \/ ParkTimeout(w)
  \/ Fence

Spec == Init /\ [][Next]_vars

(* Fairness: threads inside a post and workers that can go on are scheduled, *)
(* and the tasks themselves end.                                             *)
FairSpec == /\ Spec
            /\ WF_vars(PromoteReady)
            /\ \A t \in Threads : WF_vars(Post(t))
            /\ \A w \in Workers : WF_vars(Work(w))
----------------------------------------------------------------------------
WorkerPC == {"top", "observe", "scan", "decide", "wait", "exited", "got", "putback", "fence",
             "fencewait", "assign", "take", "run", "runfull", "turned", "recheck", "unmark",
             "requeue", "park", "parklast", "parked", "release", "released"}
PostPC   == {"idle", "due", "owner", "wake", "enq", "bump", "signal"}

(* Where a worker has a queue in hand. *)
Busy == WorkerPC \ {"top", "observe", "scan", "decide", "wait", "exited", "fence", "fencewait"}

(* The type invariant, by groups of variables. *)
QueueTypes == incoming \in [Queues -> Seq(Nat)] /\ private \in [Queues -> Seq(Nat)]
SourceTypes ==
  /\ heap \in [0..Shards-1 -> Seq(Queues)]
  /\ queued \in [Queues -> BOOLEAN]
  /\ owner \in [Queues -> Workers \cup {None}]
  /\ event \in [Queues -> BOOLEAN]
  /\ has_worker \in [Queues -> BOOLEAN]
WakeTypes == fresh \subseteq Workers /\ sleeping \subseteq Workers
FenceTypes ==
  /\ fence \in Nat /\ fence_event \in BOOLEAN /\ fences \in Nat
  /\ fpc \in {"idle", "arm", "signal"}
WorkerTypes ==
  /\ pc \in [Workers -> WorkerPC] /\ at \in [Workers -> 0..Shards-1]
  /\ cur \in [Workers -> Queues \cup {None}] /\ ded \in [Workers -> Queues \cup {None}]
  /\ local \in [Workers -> Seq(Queues)] /\ batch \in [Workers -> Seq(Nat)]
  /\ \A w \in Workers : pc[w] \in Busy => cur[w] \in Queues
  /\ \A w \in Workers : Running(w) => batch[w] # <<>>
PostTypes ==
  /\ ppc \in [Threads -> PostPC] /\ pq \in [Threads -> Queues \cup {None}]
  /\ \A t \in Threads : ppc[t] # "idle" => pq[t] \in Queues
HistoryTypes ==
  /\ posted \in Nat
  /\ started \in [Queues -> Seq(Nat)] /\ reposted \in BOOLEAN
  /\ withdrawn \subseteq Queues /\ delayed \subseteq Queues
TypeOK ==
  /\ QueueTypes /\ SourceTypes /\ WakeTypes /\ FenceTypes
  /\ WorkerTypes /\ PostTypes /\ HistoryTypes

(* At most one worker runs tasks of a queue (TaskSource::ExecutionMode). *)
OneWorker == \A v, w \in Workers : Running(v) /\ Running(w) /\ cur[v] = cur[w] => v = w

(* It holds as long as no worker has kept a queue for itself by posting to it:*)
(* has_worker_ is then enough, whatever entries the heap has lost or doubled  *)
(* and whoever is fenced or released.                                         *)
OneWorkerUnlessReposted == ~reposted => OneWorker

(* The tasks of a queue start in the order they were posted, if no delayed     *)
(* task has come between them.                                                *)
InOrder == \A q \in Queues \ delayed : \A i, j \in DOMAIN started[q] : i < j => started[q][i] < started[q][j]
InOrderUnlessReposted == ~reposted => InOrder

(* Nothing is left behind: when every worker sleeps, is parked or is gone and *)
(* no post is under way, every queue is empty.  The wake-up protocol of       *)
(* NotifyWorkAvailable, the entries DequeueTaskSourceLocked discards and the  *)
(* re-enqueue of OnTaskQueueProcessed must work together for that.            *)
Asleep(w) == \/ pc[w] = "wait" /\ w \in sleeping
             \/ pc[w] = "exited"
             \/ pc[w] = "parked" /\ ~event[cur[w]]
Quiet == (\A w \in Workers : Asleep(w)) /\ (\A t \in Threads : Ready(t))
Left  == {q \in Queues : HasWorkOnConsumerSide(q)}
SomeWaits == \E w \in Workers : pc[w] = "wait"
NothingLeft == Quiet /\ SomeWaits => Left \subseteq withdrawn

(* The same with nobody fenced and no exception made for a queue that a fence *)
(* or a reclaim has withdrawn.                                                *)
NothingStranded == Quiet /\ SomeWaits /\ fence = 0 => Left = {}

(* The strengthening of NothingLeft, in seven parts. First, what a worker has *)
(* in hand: nothing of its own while it looks for work, a dedicated queue     *)
(* only as its owner, and in its local queue only the queue it last ran.      *)
Has(s, x) == \E i \in DOMAIN s : s[i] = x
SeekPC == {"observe", "scan", "decide", "wait", "exited", "got", "putback", "fence", "fencewait", "assign"}
TurnPC == {"take", "run", "runfull", "turned"}
DonePC == {"recheck", "unmark", "requeue"}
ParkPC == {"park", "parklast", "parked", "release", "released"}
Hand(w) ==
  /\ w \in sleeping => pc[w] = "wait"
  /\ pc[w] \notin {"top", "run", "runfull", "fence"} => Ready(w)
  /\ pc[w] \in SeekPC => ded[w] = None /\ local[w] = <<>>
  /\ pc[w] = "assign" => cur[w] \in Dedicated
  /\ pc[w] \in TurnPC => ded[w] = IF cur[w] \in Dedicated THEN cur[w] ELSE None
  /\ pc[w] \in DonePC => ded[w] = None /\ cur[w] \notin Dedicated
  /\ pc[w] \in ParkPC => ded[w] = cur[w]
  /\ ded[w] \in Dedicated \cup {None}
  /\ \A p \in Queues : Has(local[w], p) =>
       /\ \A q \in Queues : Has(local[w], q) => q = p
       /\ pc[w] \in Busy => cur[w] = p
       /\ ded[w] \in {None, p}
HandInv == \A w \in Workers : Hand(w)

(* The owner of a dedicated queue has it, and tasks are in its work_queue_     *)
(* only while it does.                                                        *)
OwnerInv ==
  /\ \A w \in Workers, q \in Queues : owner[q] = w <=> ded[w] = q /\ pc[w] # "released"
  /\ \A w \in Workers : pc[w] = "released" => cur[w] \in withdrawn
  /\ \A q \in Queues : private[q] # <<>> => q \in Dedicated /\ (owner[q] # None \/ q \in withdrawn)
  /\ \A w \in Workers : pc[w] = "parked" => private[cur[w]] = <<>>

(* A queue that is marked has an entry. *)
EntryInv == \A q \in Queues : queued[q] => Has(heap[ShardOf[q]], q)

(* A queue that is claimed is in the hands of a worker that is to look at it   *)
(* again: an entry of it may be discarded.                                    *)
Holds(w, q, P) == cur[w] = q /\ ded[w] = None /\ pc[w] \in P
HeldInv == \A q \in Queues \ withdrawn :
  has_worker[q] /\ owner[q] = None => \E w \in Workers : Holds(w, q, TurnPC \cup {"got", "assign"})

(* A queue with work has a call on its way, an entry, a worker that has it and *)
(* looks again, or an owner that is up or about to be woken.                   *)
Calls(q, P) == \E t \in Threads : pq[t] = q /\ ppc[t] \in P
Minds(w, q) == \/ Holds(w, q, TurnPC \cup DonePC \cup {"got", "assign"})
               \/ ded[w] = None /\ Has(local[w], q)
Tended(q) ==
  IF owner[q] = None
  THEN Calls(q, {"due", "owner", "enq"}) \/ queued[q] \/ \E w \in Workers : Minds(w, q)
  ELSE pc[owner[q]] = "parked" => event[q] \/ Calls(q, {"due", "owner", "wake"})
WorkInv == \A q \in Queues \ withdrawn : HasWorkOnConsumerSide(q) => Tended(q)

(* A worker whose generation is current has missed only entries whose thread   *)
(* is about to move it.                                                       *)
Passed(w, s) == pc[w] \in {"decide", "wait"} \/ (pc[w] = "scan" /\ s < at[w])
FreshInv == \A w \in fresh, q \in Queues : queued[q] /\ Passed(w, ShardOf[q]) => Calls(q, {"bump"})

(* As long as somebody sleeps there are, for the queues that are marked, as    *)
(* many workers that will scan and threads that will signal: a worker that     *)
(* takes a dedicated queue does not come back for the next entry.              *)
Seeks(w) ==
  /\ pc[w] # "exited" /\ w \notin sleeping /\ ded[w] = None
  /\ pc[w] \in Busy => cur[w] \notin Dedicated
  /\ \A q \in Dedicated : ~Has(local[w], q)
Helpers == {<<0, w>> : w \in {v \in Workers : Seeks(v)}}
     \cup {<<1, t>> : t \in {u \in Threads : ppc[u] \in {"bump", "signal"}}}
Entered == {q \in Queues : queued[q]}
MatchInv ==
  sleeping # {} =>
    \E f \in [Entered -> Helpers] : \A p, q \in Entered : f[p] = f[q] => p = q

(* A worker held by a fence is never forgotten: as long as the release event  *)
(* is not set there is a fence still to be ended, or a signal still to come.  *)
FenceWakes ==
  (\E w \in Workers : pc[w] = "fencewait") /\ ~fence_event => fence > 0 \/ fpc # "idle"

(* Every task posted is started, with more workers than dedicated queues.     *)
TasksStart ==
  \A k \in 1..MaxTasks :
    (posted >= k) ~> \E q \in Queues : \E i \in DOMAIN started[q] : started[q][i] = k
=============================================================================
