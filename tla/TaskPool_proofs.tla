-------------------------- MODULE TaskPool_proofs --------------------------
(***************************************************************************)
(* Proofs about TaskPool for any number of workers, posters, queues and    *)
(* shards: type correctness, that a fence forgets no worker, that          *)
(* has_worker_ keeps a queue with one worker at a time until a worker      *)
(* keeps a queue for itself, that until then the tasks of a queue start in *)
(* the order in which they were posted, and that a pool in which everybody *)
(* sleeps has left no task behind.                                         *)
(***************************************************************************)
EXTENDS TaskPool, SequenceTheorems, WellFoundedInduction, TLAPS

----------------------------------------------------------------------------
(* What is left of a sequence after its first elements, and its front. *)
LEMMA Pieces ==
  ASSUME NEW S, NEW s \in Seq(S), NEW n \in 1..Len(s)
  PROVE  /\ SubSeq(s, n + 1, Len(s)) \in Seq(S)
         /\ SubSeq(s, 1, n) \in Seq(S)
         /\ SubSeq(s, 1, n) # <<>>
         /\ s # <<>> /\ Head(s) \in S
  <1>1. SubSeq(s, 1, n) \in Seq(S) /\ Len(SubSeq(s, 1, n)) = n
    BY SubSeqProperties
  <1>2. SubSeq(s, n + 1, Len(s)) \in Seq(S)
    BY SubSeqProperties
  <1>3. s # <<>> /\ Head(s) \in S
    BY HeadTailProperties, EmptySeq
  <1>. QED
    BY <1>1, <1>2, <1>3, EmptySeq

(* The rest of a sequence and, when there is one, its first element. *)
LEMMA Rest ==
  ASSUME NEW S, NEW s \in Seq(S), s # <<>>
  PROVE  /\ Tail(s) \in Seq(S)
         /\ Head(s) \in S
         /\ Len(s) > 1 => Tail(s) # <<>> /\ Head(Tail(s)) \in S
  <1>1. Tail(s) \in Seq(S) /\ Head(s) \in S /\ Len(Tail(s)) = Len(s) - 1
    BY HeadTailProperties
  <1>2. ASSUME Len(s) > 1
        PROVE  Tail(s) # <<>> /\ Head(Tail(s)) \in S
    <2>1. PICK r \in Seq(S) : r = Tail(s)
      BY <1>1
    <2>2. Len(r) # 0
      BY <1>1, <1>2, <2>1
    <2>3. r # <<>>
      BY <2>2, EmptySeq
    <2>. QED
      BY <2>1, <2>3, HeadTailProperties
  <1>. QED
    BY <1>1, <1>2

(* An entry put anywhere into a heap leaves a heap. *)
LEMMA InsertedType ==
  ASSUME NEW S, NEW h \in Seq(S), NEW i \in 0..Len(h), NEW q \in S
  PROVE  Inserted(h, i, q) \in Seq(S)
  <1>1. SubSeq(h, 1, i) \in Seq(S) /\ SubSeq(h, i + 1, Len(h)) \in Seq(S)
    BY SubSeqProperties, LenProperties
  <1>2. <<q>> \in Seq(S)
    OBVIOUS
  <1>3. SubSeq(h, 1, i) \o <<q>> \in Seq(S)
    BY <1>1, <1>2, ConcatProperties
  <1>. QED
    BY <1>1, <1>3, ConcatProperties DEF Inserted

(* A shard number follows a shard number. *)
LEMMA FollowingShard ==
  /\ 0 \in 0..Shards-1
  /\ \A s \in 0..Shards-1 : Following(s) \in 0..Shards-1
  BY ShardAssumption DEF Following

----------------------------------------------------------------------------
(* Type correctness, one group of variables at a time.  What an action leaves *)
(* alone keeps its type.                                                      *)
LEMMA Frame ==
  ASSUME TypeOK
  PROVE  /\ UNCHANGED qVars => QueueTypes'
         /\ UNCHANGED sVars => SourceTypes'
         /\ UNCHANGED gVars => WakeTypes'
         /\ UNCHANGED fVars => FenceTypes'
         /\ UNCHANGED wVars => WorkerTypes'
         /\ UNCHANGED pVars => PostTypes'
         /\ UNCHANGED <<posted, hVars>> => HistoryTypes'
  <1>1. UNCHANGED qVars => QueueTypes'
    BY DEF TypeOK, QueueTypes, qVars
  <1>2. UNCHANGED sVars => SourceTypes'
    BY DEF TypeOK, SourceTypes, sVars
  <1>3. UNCHANGED gVars => WakeTypes'
    BY DEF TypeOK, WakeTypes, gVars
  <1>4. UNCHANGED fVars => FenceTypes'
    BY DEF TypeOK, FenceTypes, fVars
  <1>5. UNCHANGED wVars => WorkerTypes'
    BY DEF TypeOK, WorkerTypes, wVars, Running
  <1>6. UNCHANGED pVars => PostTypes'
    BY DEF TypeOK, PostTypes, pVars
  <1>7. UNCHANGED <<posted, hVars>> => HistoryTypes'
    BY DEF TypeOK, HistoryTypes, hVars
  <1>. QED
    BY <1>1, <1>2, <1>3, <1>4, <1>5, <1>6, <1>7

(* A thread that starts, goes on with or ends a call is typed. *)
LEMMA CallTypes ==
  ASSUME PostTypes, NEW t \in Threads
  PROVE  /\ \A l \in PostPC, q \in Queues : Call(t, l, q) => PostTypes'
         /\ Done(t) => PostTypes'
  <1>. USE NoneAssumption DEF PostTypes, Call, Done, PostPC
  <1>1. ASSUME NEW l \in PostPC, NEW q \in Queues, Call(t, l, q)
        PROVE  PostTypes'
    BY <1>1
  <1>2. ASSUME Done(t)
        PROVE  PostTypes'
    BY <1>2
  <1>. QED
    BY <1>1, <1>2

(* A worker that only moves on, with or without its queue, is typed. *)
LEMMA MoveTypes ==
  ASSUME WorkerTypes, NEW w \in Workers, UNCHANGED <<at, ded, local, batch>>
  PROVE  /\ \A l \in WorkerPC \ {"run", "runfull"} :
              Goto(w, l) /\ cur' = cur /\ (l \in Busy => cur[w] \in Queues) => WorkerTypes'
         /\ \A l \in WorkerPC \ Busy : Leave(w, l) => WorkerTypes'
  <1>. USE NoneAssumption DEF WorkerTypes, Running
  <1>1. ASSUME NEW l \in WorkerPC \ {"run", "runfull"}, Goto(w, l), cur' = cur,
               l \in Busy => cur[w] \in Queues
        PROVE  WorkerTypes'
    BY <1>1 DEF Goto
  <1>2. ASSUME NEW l \in WorkerPC \ Busy, Leave(w, l)
        PROVE  WorkerTypes'
    BY <1>2 DEF Goto, Leave, Busy, WorkerPC
  <1>. QED
    BY <1>1, <1>2

(* So is a worker that becomes, or fails to become, the owner of a queue. *)
LEMMA AssignTypes ==
  ASSUME WorkerTypes, SourceTypes, NEW w \in Workers, NEW q \in Queues, Assign(w, q),
         UNCHANGED <<at, batch, heap, event, has_worker>>,
         local' \in [Workers -> Seq(Queues)]
  PROVE  WorkerTypes' /\ SourceTypes'
  <1>1. CASE owner[q] \in {None, w}
    <2>1. /\ owner' = [owner EXCEPT ![q] = w]
          /\ queued' = [queued EXCEPT ![q] = @ /\ owner[q] = w]
          /\ ded' = [ded EXCEPT ![w] = q]
          /\ cur' = [cur EXCEPT ![w] = q]
          /\ Goto(w, "take")
      BY <1>1 DEF Assign
    <2>2. SourceTypes'
      BY <2>1 DEF SourceTypes
    <2>3. WorkerTypes'
      BY <2>1 DEF WorkerTypes, Running, Goto, WorkerPC, Busy
    <2>. QED
      BY <2>2, <2>3
  <1>2. CASE owner[q] \notin {None, w}
    <2>1. Leave(w, "top") /\ UNCHANGED <<owner, queued, ded>>
      BY <1>2 DEF Assign
    <2>2. SourceTypes'
      BY <2>1 DEF SourceTypes
    <2>3. WorkerTypes'
      BY <2>1 DEF WorkerTypes, Running, Goto, Leave, WorkerPC, Busy
    <2>. QED
      BY <2>2, <2>3
  <1>. QED
    BY <1>1, <1>2

(* Every step keeps the types. *)
LEMMA TypeStep ==
  ASSUME TypeOK, [Next]_vars
  PROVE  TypeOK'
  <1>1. ASSUME NEW t \in Threads, FindOwner(t)
       PROVE  TypeOK'
    <2>1. PostTypes'
      BY <1>1, Frame, CallTypes DEF FindOwner, TypeOK, PostPC, Threads, CallIf, WorkerTypes, PostTypes, Busy, WorkerPC
    <2>. QED
      BY <1>1, Frame, <2>1 DEF FindOwner, TypeOK
  <1>2. ASSUME NEW t \in Threads, WakeDedicatedWorker(t)
       PROVE  TypeOK'
    <2>1. SourceTypes'
      BY <1>2 DEF WakeDedicatedWorker, TypeOK, SourceTypes
    <2>2. PostTypes'
      BY <1>2, Frame, CallTypes DEF WakeDedicatedWorker, TypeOK, PostPC, Threads, CallIf, WorkerTypes, PostTypes, Busy, WorkerPC
    <2>. QED
      BY <1>2, Frame, <2>1, <2>2 DEF WakeDedicatedWorker, TypeOK
  <1>3. ASSUME NEW t \in Threads, Enqueue(t)
       PROVE  TypeOK'
    <2>a. pq[t] \in Queues
      BY <1>3 DEF Enqueue, TypeOK, PostTypes
    <2>b. heap[ShardOf[pq[t]]] \in Seq(Queues)
      BY <2>a, ShardAssumption DEF TypeOK, SourceTypes
    <2>c. \A i \in 0..Len(heap[ShardOf[pq[t]]]) : Inserted(heap[ShardOf[pq[t]]], i, pq[t]) \in Seq(Queues)
      BY <2>a, <2>b, InsertedType
    <2>d. heap' \in [0..Shards-1 -> Seq(Queues)]
      <3>1. UNCHANGED heap \/ \E i \in 0..Len(heap[ShardOf[pq[t]]]) :
              heap' = [heap EXCEPT ![ShardOf[pq[t]]] = Inserted(heap[ShardOf[pq[t]]], i, pq[t])]
        BY <1>3 DEF Enqueue
      <3>. QED
        BY <2>c, <3>1 DEF TypeOK, SourceTypes
    <2>e. queued' \in [Queues -> BOOLEAN]
      BY <1>3 DEF Enqueue, TypeOK, SourceTypes
    <2>1. SourceTypes'
      BY <1>3, <2>d, <2>e DEF Enqueue, TypeOK, SourceTypes
    <2>2. PostTypes'
      BY <1>3, Frame, CallTypes DEF Enqueue, TypeOK, PostPC, Threads, CallIf, WorkerTypes, PostTypes, Busy, WorkerPC
    <2>. QED
      BY <1>3, Frame, <2>1, <2>2 DEF Enqueue, TypeOK
  <1>4. ASSUME NEW t \in Threads, NotifyBump(t)
       PROVE  TypeOK'
    <2>1. WakeTypes'
      BY <1>4 DEF NotifyBump, TypeOK, WakeTypes
    <2>2. PostTypes'
      BY <1>4, Frame, CallTypes DEF NotifyBump, TypeOK, PostPC, Threads, CallIf, WorkerTypes, PostTypes, Busy, WorkerPC
    <2>. QED
      BY <1>4, Frame, <2>1, <2>2 DEF NotifyBump, TypeOK
  <1>5. ASSUME NEW t \in Threads, NotifySignal(t)
       PROVE  TypeOK'
    <2>1. WakeTypes'
      BY <1>5 DEF NotifySignal, TypeOK, WakeTypes
    <2>2. PostTypes'
      BY <1>5, Frame, CallTypes DEF NotifySignal, TypeOK, PostPC, Threads, CallIf, WorkerTypes, PostTypes, Busy, WorkerPC
    <2>. QED
      BY <1>5, Frame, <2>1, <2>2 DEF NotifySignal, TypeOK
  <1>6. ASSUME NEW w \in Workers, TopDedicated(w)
       PROVE  TypeOK'
    <2>1. WorkerTypes'
      BY <1>6 DEF TopDedicated, TypeOK, WorkerTypes, Running, Goto, WorkerPC, Busy
    <2>. QED
      BY <1>6, Frame, <2>1 DEF TopDedicated, TypeOK
  <1>7. ASSUME NEW w \in Workers, TopLocal(w)
       PROVE  TypeOK'
    <2>a. Head(local[w]) \in Queues /\ Tail(local[w]) \in Seq(Queues)
      BY <1>7, Rest DEF TopLocal, TypeOK, WorkerTypes
    <2>b. heap' = heap /\ event' = event /\ has_worker' = has_worker /\ at' = at /\ batch' = batch
      BY <1>7 DEF TopLocal
    <2>c. local' \in [Workers -> Seq(Queues)]
      BY <1>7, <2>a DEF TopLocal, TypeOK, WorkerTypes
    <2>d. ASSUME Head(local[w]) \in Dedicated
          PROVE  SourceTypes' /\ WorkerTypes'
      BY <1>7, <2>a, <2>b, <2>c, <2>d, AssignTypes DEF TopLocal, TypeOK, SourceTypes
    <2>e. ASSUME Head(local[w]) \notin Dedicated
          PROVE  SourceTypes' /\ WorkerTypes'
      <3>1. WorkerTypes'
        BY <1>7, <2>a, <2>b, <2>c, <2>e DEF TopLocal, TypeOK, WorkerTypes, Running, Goto, WorkerPC, Busy
      <3>2. SourceTypes'
        BY <1>7, <2>b, <2>e DEF TopLocal, TypeOK, SourceTypes
      <3>. QED
        BY <3>1, <3>2
    <2>1. SourceTypes' /\ WorkerTypes'
      BY <2>d, <2>e
    <2>. QED
      BY <1>7, Frame, <2>1 DEF TopLocal, TypeOK
  <1>8. ASSUME NEW w \in Workers, Observe(w)
       PROVE  TypeOK'
    <2>1. WakeTypes'
      BY <1>8 DEF Observe, TypeOK, WakeTypes
    <2>2. WorkerTypes'
      BY <1>8, FollowingShard DEF Observe, TypeOK, WorkerTypes, Running, Goto, WorkerPC, Busy
    <2>. QED
      BY <1>8, Frame, <2>1, <2>2 DEF Observe, TypeOK
  <1>9. ASSUME NEW w \in Workers, Scan(w)
       PROVE  TypeOK'
    <2>a. PICK s \in 0..Shards-1 : s = at[w]
      BY DEF TypeOK, WorkerTypes
    <2>b. heap[s] \in Seq(Queues)
      BY DEF TypeOK, SourceTypes
    <2>c. ASSUME Allowed(s) = {}
          PROVE  SourceTypes' /\ WorkerTypes'
      <3>1. SourceTypes'
        BY <1>9, <2>a, <2>c, EmptySeq DEF Scan, TypeOK, SourceTypes
      <3>a. PICK l \in {"decide", "scan"} : Goto(w, l)
        BY <1>9, <2>a, <2>c DEF Scan
      <3>b. at' = [at EXCEPT ![w] = Following(s)] /\ UNCHANGED <<cur, ded, local, batch>>
        BY <1>9, <2>a, <2>c DEF Scan
      <3>2. WorkerTypes'
        BY <3>a, <3>b, FollowingShard DEF TypeOK, WorkerTypes, Running, Goto, WorkerPC, Busy
      <3>. QED
        BY <3>1, <3>2
    <2>d. ASSUME Allowed(s) # {}
          PROVE  SourceTypes' /\ WorkerTypes'
      <3>1. PICK n \in Allowed(s) :
              /\ heap' = [heap EXCEPT ![s] = SubSeq(@, n + 1, Len(@))]
              /\ queued' = [q \in Queues |-> queued[q] /\ q \notin Popped(s, n)]
              /\ has_worker' = [has_worker EXCEPT ![heap[s][n]] = TRUE]
              /\ cur' = [cur EXCEPT ![w] = heap[s][n]]
              /\ at' = [at EXCEPT ![w] = 0]
              /\ Goto(w, "got")
        BY <1>9, <2>a, <2>d DEF Scan
      <3>2. n \in 1..Len(heap[s])
        BY <2>b DEF Allowed
      <3>3. heap[s][n] \in Queues /\ SubSeq(heap[s], n + 1, Len(heap[s])) \in Seq(Queues)
        BY <2>b, <3>2, ElementOfSeq, Pieces
      <3>4. SourceTypes'
        BY <1>9, <3>1, <3>3 DEF Scan, TypeOK, SourceTypes
      <3>a. UNCHANGED <<ded, local, batch>>
        BY <1>9 DEF Scan
      <3>5. WorkerTypes'
        BY <3>1, <3>3, <3>a, FollowingShard DEF TypeOK, WorkerTypes, Running, Goto, WorkerPC, Busy
      <3>. QED
        BY <3>4, <3>5
    <2>1. SourceTypes' /\ WorkerTypes'
      BY <2>c, <2>d
    <2>. QED
      BY <1>9, Frame, <2>1 DEF Scan, TypeOK
  <1>10. ASSUME NEW w \in Workers, Decide(w)
       PROVE  TypeOK'
    <2>1. WakeTypes'
      BY <1>10 DEF Decide, TypeOK, WakeTypes
    <2>2. WorkerTypes'
      BY <1>10, MoveTypes DEF Decide, TypeOK, WorkerTypes, Busy, WorkerPC
    <2>. QED
      BY <1>10, Frame, <2>1, <2>2 DEF Decide, TypeOK
  <1>11. ASSUME NEW w \in Workers, Wake(w)
       PROVE  TypeOK'
    <2>1. WakeTypes'
      BY <1>11 DEF Wake, TypeOK, WakeTypes
    <2>a. w \in fresh => UNCHANGED wVars
      BY <1>11 DEF Wake, wVars
    <2>b. w \notin fresh => WorkerTypes'
      BY <1>11, MoveTypes DEF Wake, TypeOK, Busy, WorkerPC
    <2>2. WorkerTypes'
      BY <2>a, <2>b, Frame
    <2>. QED
      BY <1>11, Frame, <2>1, <2>2 DEF Wake, TypeOK
  <1>12. ASSUME NEW w \in Workers, Got(w)
       PROVE  TypeOK'
    <2>1. SourceTypes'
      BY <1>12 DEF Got, TypeOK, SourceTypes
    <2>2. WorkerTypes'
      BY <1>12, MoveTypes DEF Got, TypeOK, WorkerTypes, Busy, WorkerPC
    <2>3. HistoryTypes'
      BY <1>12 DEF Got, TypeOK, HistoryTypes, WorkerTypes, Busy, WorkerPC
    <2>. QED
      BY <1>12, Frame, <2>1, <2>2, <2>3 DEF Got, TypeOK
  <1>13. ASSUME NEW w \in Workers, PutBack(w)
       PROVE  TypeOK'
    <2>1. WorkerTypes'
      BY <1>13, MoveTypes DEF PutBack, TypeOK, WorkerTypes, Busy, WorkerPC
    <2>2. PostTypes'
      BY <1>13, Frame, CallTypes DEF PutBack, TypeOK, PostPC, Threads, CallIf, WorkerTypes, PostTypes, Busy, WorkerPC
    <2>. QED
      BY <1>13, Frame, <2>1, <2>2 DEF PutBack, TypeOK
  <1>14. ASSUME NEW w \in Workers, FenceTest(w)
       PROVE  TypeOK'
    <2>1. WorkerTypes'
      BY <1>14, MoveTypes DEF FenceTest, TypeOK, WorkerTypes, Busy, WorkerPC
    <2>. QED
      BY <1>14, Frame, <2>1 DEF FenceTest, TypeOK
  <1>15. ASSUME NEW w \in Workers, FenceWake(w)
       PROVE  TypeOK'
    <2>1. WorkerTypes'
      BY <1>15, MoveTypes DEF FenceWake, TypeOK, WorkerTypes, Busy, WorkerPC
    <2>. QED
      BY <1>15, Frame, <2>1 DEF FenceWake, TypeOK
  <1>16. ASSUME NEW w \in Workers, AssignClaimed(w)
       PROVE  TypeOK'
    <2>a. cur[w] \in Queues
      BY <1>16 DEF AssignClaimed, TypeOK, WorkerTypes, Busy, WorkerPC
    <2>1. SourceTypes' /\ WorkerTypes'
      BY <1>16, <2>a, AssignTypes DEF AssignClaimed, TypeOK, WorkerTypes
    <2>. QED
      BY <1>16, Frame, <2>1 DEF AssignClaimed, TypeOK
  <1>17. ASSUME NEW w \in Workers, Take(w)
       PROVE  TypeOK'
    <2>a. cur[w] \in Queues
      BY <1>17 DEF Take, TypeOK, WorkerTypes, Busy, WorkerPC
    <2>b. PICK src \in Seq(Nat) : src = Source(cur[w])
      BY <2>a DEF Source, TypeOK, QueueTypes
    <2>c. ASSUME src = <<>>
          PROVE  QueueTypes' /\ WorkerTypes' /\ HistoryTypes'
      <3>1. Goto(w, "turned") /\ UNCHANGED <<qVars, batch, started>>
        BY <1>17, <2>b, <2>c DEF Take
      <3>. QED
        BY <1>17, <2>a, <3>1, Frame, MoveTypes DEF Take, TypeOK, Busy, WorkerPC, hVars
    <2>d. ASSUME src # <<>>
          PROVE  QueueTypes' /\ WorkerTypes' /\ HistoryTypes'
      <3>1. PICK n \in 1..Len(src) :
              /\ batch' = [batch EXCEPT ![w] = SubSeq(src, 1, n)]
              /\ IF cur[w] \in Dedicated
                 THEN /\ private' = [private EXCEPT ![cur[w]] = SubSeq(src, n + 1, Len(src))]
                      /\ incoming' = [incoming EXCEPT ![cur[w]] = IF private[cur[w]] = <<>> THEN <<>> ELSE @]
                 ELSE /\ incoming' = [incoming EXCEPT ![cur[w]] = SubSeq(src, n + 1, Len(src))]
                      /\ UNCHANGED private
              /\ StartTask(cur[w], src)
              /\ Goto(w, IF n = BatchSize THEN "runfull" ELSE "run")
        BY <1>17, <2>b, <2>d DEF Take
      <3>2. /\ SubSeq(src, n + 1, Len(src)) \in Seq(Nat) /\ SubSeq(src, 1, n) \in Seq(Nat)
            /\ SubSeq(src, 1, n) # <<>> /\ Head(src) \in Nat
        BY <2>b, Pieces
      <3>3. QueueTypes'
        BY <3>1, <3>2 DEF TypeOK, QueueTypes
      <3>4. PICK l \in {"run", "runfull"} : Goto(w, l)
        BY <3>1
      <3>5. WorkerTypes'
        BY <1>17, <2>a, <3>1, <3>2, <3>4 DEF Take, TypeOK, WorkerTypes, Running, Goto, WorkerPC, Busy
      <3>6. Append(started[cur[w]], Head(src)) \in Seq(Nat)
        BY <2>a, <3>2, AppendProperties DEF TypeOK, HistoryTypes
      <3>7. HistoryTypes'
        BY <1>17, <3>1, <3>6 DEF Take, StartTask, TypeOK, HistoryTypes
      <3>. QED
        BY <3>3, <3>5, <3>7
    <2>1. QueueTypes' /\ WorkerTypes' /\ HistoryTypes'
      BY <2>c, <2>d
    <2>. QED
      BY <1>17, Frame, <2>1 DEF Take, TypeOK
  <1>18. ASSUME NEW w \in Workers, Finish(w)
       PROVE  TypeOK'
    <2>a. cur[w] \in Queues /\ batch[w] \in Seq(Nat) /\ batch[w] # <<>>
      BY <1>18 DEF Finish, Running, TypeOK, WorkerTypes, Busy, WorkerPC
    <2>b. Tail(batch[w]) \in Seq(Nat)
      BY <2>a, Rest
    <2>c. ASSUME Len(batch[w]) > 1
          PROVE  WorkerTypes' /\ HistoryTypes'
      <3>1. StartTask(cur[w], Tail(batch[w])) /\ UNCHANGED pc
        BY <1>18, <2>c DEF Finish
      <3>2. Tail(batch[w]) # <<>> /\ Head(Tail(batch[w])) \in Nat
        BY <2>a, <2>c, Rest
      <3>3. WorkerTypes'
        BY <1>18, <2>b, <3>1, <3>2 DEF Finish, TypeOK, WorkerTypes, Running
      <3>4. Append(started[cur[w]], Head(Tail(batch[w]))) \in Seq(Nat)
        BY <2>a, <3>2, AppendProperties DEF TypeOK, HistoryTypes
      <3>5. HistoryTypes'
        BY <1>18, <3>1, <3>4 DEF Finish, StartTask, TypeOK, HistoryTypes
      <3>. QED
        BY <3>3, <3>5
    <2>d. ASSUME ~(Len(batch[w]) > 1)
          PROVE  WorkerTypes' /\ HistoryTypes'
      <3>1. UNCHANGED started
        BY <1>18, <2>d DEF Finish
      <3>2. PICK l \in {"turned", "take"} : Goto(w, l)
        BY <1>18, <2>d DEF Finish
      <3>3. WorkerTypes'
        BY <1>18, <2>a, <2>b, <3>2 DEF Finish, TypeOK, WorkerTypes, Running, Goto, WorkerPC, Busy
      <3>4. HistoryTypes'
        BY <1>18, <3>1 DEF Finish, TypeOK, HistoryTypes
      <3>. QED
        BY <3>3, <3>4
    <2>1. WorkerTypes' /\ HistoryTypes'
      BY <2>c, <2>d
    <2>. QED
      BY <1>18, Frame, <2>1 DEF Finish, TypeOK
  <1>19. ASSUME NEW w \in Workers, Turned(w)
       PROVE  TypeOK'
    <2>1. SourceTypes'
      BY <1>19 DEF Turned, TypeOK, SourceTypes
    <2>2. WorkerTypes'
      BY <1>19, MoveTypes DEF Turned, TypeOK, WorkerTypes, Busy, WorkerPC
    <2>. QED
      BY <1>19, Frame, <2>1, <2>2 DEF Turned, TypeOK
  <1>20. ASSUME NEW w \in Workers, Recheck(w)
       PROVE  TypeOK'
    <2>1. WorkerTypes'
      BY <1>20, MoveTypes DEF Recheck, TypeOK, WorkerTypes, Busy, WorkerPC
    <2>. QED
      BY <1>20, Frame, <2>1 DEF Recheck, TypeOK
  <1>21. ASSUME NEW w \in Workers, Unmark(w)
       PROVE  TypeOK'
    <2>1. SourceTypes'
      BY <1>21 DEF Unmark, TypeOK, SourceTypes
    <2>2. WorkerTypes'
      BY <1>21, MoveTypes DEF Unmark, TypeOK, WorkerTypes, Busy, WorkerPC
    <2>. QED
      BY <1>21, Frame, <2>1, <2>2 DEF Unmark, TypeOK
  <1>22. ASSUME NEW w \in Workers, Requeue(w)
       PROVE  TypeOK'
    <2>1. WorkerTypes'
      BY <1>22, MoveTypes DEF Requeue, TypeOK, WorkerTypes, Busy, WorkerPC
    <2>2. PostTypes'
      BY <1>22, Frame, CallTypes DEF Requeue, TypeOK, PostPC, Threads, CallIf, WorkerTypes, PostTypes, Busy, WorkerPC
    <2>. QED
      BY <1>22, Frame, <2>1, <2>2 DEF Requeue, TypeOK
  <1>23. ASSUME NEW w \in Workers, Park(w)
       PROVE  TypeOK'
    <2>1. WorkerTypes'
      BY <1>23, MoveTypes DEF Park, TypeOK, WorkerTypes, Busy, WorkerPC
    <2>. QED
      BY <1>23, Frame, <2>1 DEF Park, TypeOK
  <1>24. ASSUME NEW w \in Workers, ParkWake(w)
       PROVE  TypeOK'
    <2>1. SourceTypes'
      BY <1>24 DEF ParkWake, TypeOK, SourceTypes
    <2>2. WorkerTypes'
      BY <1>24, MoveTypes DEF ParkWake, TypeOK, WorkerTypes, Busy, WorkerPC
    <2>. QED
      BY <1>24, Frame, <2>1, <2>2 DEF ParkWake, TypeOK
  <1>25. ASSUME NEW w \in Workers, Release(w)
       PROVE  TypeOK'
    <2>1. SourceTypes'
      BY <1>25 DEF Release, TypeOK, SourceTypes
    <2>2. WorkerTypes'
      BY <1>25, MoveTypes DEF Release, TypeOK, WorkerTypes, Busy, WorkerPC
    <2>3. HistoryTypes'
      BY <1>25 DEF Release, TypeOK, HistoryTypes, WorkerTypes, Busy, WorkerPC
    <2>. QED
      BY <1>25, Frame, <2>1, <2>2, <2>3 DEF Release, TypeOK
  <1>26. ASSUME NEW w \in Workers, Released(w)
       PROVE  TypeOK'
    <2>1. WorkerTypes'
      BY <1>26 DEF Released, TypeOK, WorkerTypes, Running, Goto, Leave, WorkerPC, Busy
    <2>2. PostTypes'
      BY <1>26, Frame, CallTypes DEF Released, TypeOK, PostPC, Threads, CallIf, WorkerTypes, PostTypes, Busy, WorkerPC
    <2>. QED
      BY <1>26, Frame, <2>1, <2>2 DEF Released, TypeOK
  <1>27. ASSUME NEW w \in Workers, WakeUnasked(w)
       PROVE  TypeOK'
    <2>1. WakeTypes'
      BY <1>27 DEF WakeUnasked, TypeOK, WakeTypes
    <2>2. WorkerTypes'
      BY <1>27, MoveTypes DEF WakeUnasked, TypeOK, WorkerTypes, Busy, WorkerPC
    <2>. QED
      BY <1>27, Frame, <2>1, <2>2 DEF WakeUnasked, TypeOK
  <1>28. ASSUME NEW w \in Workers, ParkTimeout(w)
       PROVE  TypeOK'
    <2>1. WorkerTypes'
      BY <1>28, MoveTypes DEF ParkTimeout, TypeOK, WorkerTypes, Busy, WorkerPC
    <2>. QED
      BY <1>28, Frame, <2>1 DEF ParkTimeout, TypeOK
  <1>30. ASSUME NEW t \in Workers \cup Posters, NEW q \in Queues, Push(t, q)
        PROVE  TypeOK'
    <2>1. QueueTypes' /\ HistoryTypes'
      <3>1. incoming[q] \in Seq(Nat) /\ Len(incoming[q]) \in Nat
        BY LenProperties DEF TypeOK, QueueTypes
      <3>2. PICK i \in Places(q) : incoming' = [incoming EXCEPT ![q] = Inserted(@, i, posted + 1)]
        BY <1>30 DEF Push
      <3>3. Inserted(incoming[q], i, posted + 1) \in Seq(Nat)
        <4>1. i \in 0..Len(incoming[q]) /\ posted + 1 \in Nat
          BY <3>1, <3>2 DEF Places, TypeOK, HistoryTypes
        <4>. QED
          BY <3>1, <4>1, InsertedType
      <3>4. QueueTypes'
        BY <1>30, <3>2, <3>3 DEF Push, TypeOK, QueueTypes
      <3>5. reposted' \in BOOLEAN
        BY <1>30 DEF Push, ReEnqueueTaskQueue, TypeOK, HistoryTypes
      <3>. QED
        BY <1>30, <3>4, <3>5 DEF Push, TypeOK, HistoryTypes
    <2>2. PostTypes'
      BY <1>30, Frame, CallTypes DEF Push, ReEnqueueTaskQueue, TypeOK, Threads, PostPC
    <2>3. WorkerTypes'
      <3>1. local' \in [Workers -> Seq(Queues)]
        <4>1. CASE t \in Workers
          <5>1. Append(local[t], q) \in Seq(Queues)
            BY <4>1, AppendProperties DEF TypeOK, WorkerTypes
          <5>. QED
            BY <1>30, <5>1 DEF Push, ReEnqueueTaskQueue, TypeOK, WorkerTypes
        <4>2. CASE t \notin Workers
          BY <1>30, <4>2 DEF Push, ReEnqueueTaskQueue, TypeOK, WorkerTypes
        <4>. QED
          BY <4>1, <4>2
      <3>2. UNCHANGED <<pc, at, cur, ded, batch>>
        BY <1>30 DEF Push
      <3>. QED
        BY <3>1, <3>2 DEF TypeOK, WorkerTypes, Running
    <2>. QED
      BY <1>30, <2>1, <2>2, <2>3, Frame DEF Push, TypeOK
  <1>31. ASSUME NEW q \in Queues, Promote(q)
        PROVE  TypeOK'
    <2>1. QueueTypes' /\ HistoryTypes'
      <3>1. Append(incoming[q], posted + 1) \in Seq(Nat)
        BY AppendProperties DEF TypeOK, QueueTypes, HistoryTypes
      <3>. QED
        BY <1>31, <3>1 DEF Promote, TypeOK, QueueTypes, HistoryTypes, hVars
    <2>2. PostTypes'
      BY <1>31, CallTypes DEF Promote, TypeOK, Threads, PostPC
    <2>. QED
      BY <1>31, <2>1, <2>2, Frame DEF Promote, TypeOK
  <1>32. ASSUME PromoteReady
        PROVE  TypeOK'
    <2>1. PostTypes'
      BY <1>32, CallTypes DEF PromoteReady, TypeOK, Threads, PostPC, PostTypes
    <2>. QED
      BY <1>32, <2>1, Frame DEF PromoteReady, TypeOK
  <1>33. ASSUME Fence
        PROVE  TypeOK'
    <2>1. FenceTypes'
      <3>1. CASE BeginFence
        <4>1. fence_event' \in BOOLEAN
          BY <3>1, Zenon DEF BeginFence
        <4>. QED
          BY <3>1, <4>1 DEF BeginFence, TypeOK, FenceTypes
      <3>2. CASE CountFence
        BY <3>2 DEF CountFence, TypeOK, FenceTypes
      <3>3. CASE EndFence
        BY <3>3 DEF EndFence, TypeOK, FenceTypes
      <3>4. CASE SignalFence
        BY <3>4 DEF SignalFence, TypeOK, FenceTypes
      <3>. QED
        BY <1>33, <3>1, <3>2, <3>3, <3>4 DEF Fence
    <2>. QED
      BY <1>33, <2>1, Frame DEF Fence, BeginFence, CountFence, EndFence, SignalFence, TypeOK
  <1>34. CASE UNCHANGED vars
    BY <1>34, Frame DEF vars, TypeOK
  <1>. QED
    BY <1>1, <1>2, <1>3, <1>4, <1>5, <1>6, <1>7, <1>8, <1>9, <1>10, <1>11, <1>12, <1>13, <1>14, <1>15,
       <1>16, <1>17, <1>18, <1>19, <1>20, <1>21, <1>22, <1>23, <1>24, <1>25, <1>26, <1>27, <1>28,
       <1>30, <1>31, <1>32, <1>33, <1>34
    DEF Next, Post, Work

(* The initial state is typed. *)
LEMMA TypeInit == Init => TypeOK
  <1>. SUFFICES ASSUME Init
                PROVE  TypeOK
    OBVIOUS
  <1>1. QueueTypes /\ HistoryTypes
    BY EmptySeq DEF Init, QueueTypes, HistoryTypes
  <1>2. SourceTypes /\ WakeTypes
    BY EmptySeq, ShardAssumption DEF Init, SourceTypes, WakeTypes
  <1>3. FenceTypes
    BY DEF Init, FenceTypes
  <1>4. WorkerTypes
    BY EmptySeq, FollowingShard DEF Init, WorkerTypes, WorkerPC, Busy, Running
  <1>5. PostTypes
    BY DEF Init, PostTypes, PostPC
  <1>. QED
    BY <1>1, <1>2, <1>3, <1>4, <1>5 DEF TypeOK

(* Every reachable state of the pool is well typed: among other things a      *)
(* worker past the scan always has a queue in hand, and runs a task it took.  *)
THEOREM TypeCorrect == Spec => []TypeOK
  <1>1. TypeOK /\ [Next]_vars => TypeOK'
    BY TypeStep
  <1>. QED
    BY TypeInit, <1>1, PTL DEF Spec

----------------------------------------------------------------------------
(* Every action of a worker but FenceTest moves that worker alone, and not to *)
(* the wait of a fence.                                                       *)
Moves(w) == UNCHANGED pc \/ \E l \in WorkerPC \ {"fencewait"} : Goto(w, l)

(* Every step of a worker but the test of the fence moves it this way. *)
LEMMA WorkerMoves ==
  ASSUME NEW w \in Workers, Work(w) \/ WakeUnasked(w) \/ ParkTimeout(w), ~FenceTest(w)
  PROVE  Moves(w)
  <1>1. TopDedicated(w) => Moves(w)
    BY DEF TopDedicated, Moves, WorkerPC
  <1>2. TopLocal(w) => Moves(w)
    BY DEF TopLocal, Assign, Leave, Moves, WorkerPC
  <1>3. Observe(w) => Moves(w)
    BY DEF Observe, Moves, WorkerPC
  <1>4. Scan(w) => Moves(w)
    BY DEF Scan, Moves, WorkerPC
  <1>5. Decide(w) => Moves(w)
    BY DEF Decide, Moves, WorkerPC
  <1>6. Wake(w) => Moves(w)
    BY DEF Wake, Moves, WorkerPC
  <1>7. Got(w) => Moves(w)
    BY DEF Got, Moves, WorkerPC
  <1>8. PutBack(w) => Moves(w)
    BY DEF PutBack, Leave, Moves, WorkerPC
  <1>9. FenceWake(w) => Moves(w)
    BY DEF FenceWake, Moves, WorkerPC
  <1>10. AssignClaimed(w) => Moves(w)
    BY DEF AssignClaimed, Assign, Leave, Moves, WorkerPC
  <1>11. Take(w) => Moves(w)
    BY DEF Take, Moves, WorkerPC
  <1>12. Finish(w) => Moves(w)
    BY DEF Finish, Moves, WorkerPC
  <1>13. Turned(w) => Moves(w)
    BY DEF Turned, Leave, Moves, WorkerPC
  <1>14. Recheck(w) => Moves(w)
    BY DEF Recheck, Leave, Moves, WorkerPC
  <1>15. Unmark(w) => Moves(w)
    BY DEF Unmark, Moves, WorkerPC
  <1>16. Requeue(w) => Moves(w)
    BY DEF Requeue, Leave, Moves, WorkerPC
  <1>17. Park(w) => Moves(w)
    BY DEF Park, Leave, Moves, WorkerPC
  <1>18. ParkWake(w) => Moves(w)
    BY DEF ParkWake, Moves, WorkerPC
  <1>19. Release(w) => Moves(w)
    BY DEF Release, Moves, WorkerPC
  <1>20. Released(w) => Moves(w)
    BY DEF Released, Leave, Moves, WorkerPC
  <1>21. WakeUnasked(w) => Moves(w)
    BY DEF WakeUnasked, Moves, WorkerPC
  <1>22. ParkTimeout(w) => Moves(w)
    BY DEF ParkTimeout, Moves, WorkerPC
  <1>. QED
    BY <1>1, <1>2, <1>3, <1>4, <1>5, <1>6, <1>7, <1>8, <1>9, <1>10, <1>11,
       <1>12, <1>13, <1>14, <1>15, <1>16, <1>17, <1>18, <1>19, <1>20, <1>21, <1>22 DEF Work

(* A fence forgets no worker: every EndFence that lets the count drop to zero *)
(* is followed by the signal its waiters need (EndFence in thread_pool.cpp).  *)
THEOREM FenceReleases == Spec => []FenceWakes
  <1>1. Init => FenceWakes
    BY DEF Init, FenceWakes
  <1>2. ASSUME TypeOK, FenceWakes, [Next]_vars
        PROVE  FenceWakes'
    <2>1. CASE Fence
      <3>1. UNCHANGED pc
        BY <2>1 DEF Fence, BeginFence, CountFence, EndFence, SignalFence, wVars
      <3>2. CASE BeginFence
        BY <3>2, <3>1, <1>2 DEF BeginFence, FenceWakes
      <3>3. CASE CountFence
        BY <3>3, <3>1, <1>2 DEF CountFence, FenceWakes, TypeOK, FenceTypes
      <3>4. CASE EndFence
        BY <3>4, <3>1, <1>2 DEF EndFence, FenceWakes, TypeOK, FenceTypes
      <3>5. CASE SignalFence
        BY <3>5, <3>1, <1>2 DEF SignalFence, FenceWakes
      <3>. QED
        BY <2>1, <3>2, <3>3, <3>4, <3>5 DEF Fence
    <2>2. ASSUME NEW w \in Workers, FenceTest(w)
          PROVE  FenceWakes'
      BY <2>2, <1>2 DEF FenceTest, FenceWakes, Goto, fVars, TypeOK, WorkerTypes
    <2>3. CASE ~Fence /\ \A w \in Workers : ~FenceTest(w)
      <3>1. UNCHANGED fVars
        BY <1>2, <2>3 DEF vars, Next, Post, Work, FindOwner, WakeDedicatedWorker, Enqueue, NotifyBump,
          NotifySignal, Push, Promote, PromoteReady, TopDedicated, TopLocal, Observe, Scan, Decide, Wake,
          Got, PutBack, FenceWake, AssignClaimed, Take, Finish, Turned, Recheck, Unmark, Requeue, Park,
          ParkWake, Release, Released, WakeUnasked, ParkTimeout
      <3>2. \A v \in Workers : pc'[v] = "fencewait" => pc[v] = "fencewait"
        <4>1. UNCHANGED pc \/ \E w \in Workers : Moves(w)
          BY <1>2, <2>3, WorkerMoves DEF Next, vars, wVars, Post, FindOwner, WakeDedicatedWorker, Enqueue,
            NotifyBump, NotifySignal, Push, Promote, PromoteReady
        <4>. QED
          BY <1>2, <4>1 DEF Moves, Goto, TypeOK, WorkerTypes
      <3>. QED
        BY <1>2, <3>1, <3>2 DEF FenceWakes, fVars
    <2>. QED
      BY <2>1, <2>2, <2>3
  <1>. QED
    BY <1>1, <1>2, TypeCorrect, PTL DEF Spec

----------------------------------------------------------------------------
(* The queues that worker w has claimed: the one it is about to run or runs,  *)
(* and the one it is dedicated to.                                            *)
Claiming == {"got", "assign", "take", "run", "runfull", "turned"}
Owning   == {"top", "take", "run", "runfull", "turned", "park", "parklast", "parked", "release", "released"}
Claims(w, q) == (pc[w] \in Claiming /\ cur[w] = q) \/ ded[w] = q

(* The inductive invariant.  A claimed queue is marked by has_worker_ and has *)
(* one claimer; a dedicated worker has nothing else in hand; and nobody has   *)
(* anything in its local queue.                                               *)
Marked    == \A w \in Workers, q \in Queues : Claims(w, q) => has_worker[q]
Exclusive == \A v, w \in Workers, q \in Queues : Claims(v, q) /\ Claims(w, q) => v = w
Devoted   == \A w \in Workers : ded[w] # None =>
               pc[w] \in Owning /\ (pc[w] # "top" => cur[w] = ded[w])
NoLocal   == \A w \in Workers : local[w] = <<>>
ClaimInv  == ~reposted => Marked /\ Exclusive /\ Devoted /\ NoLocal

(* An action that does not touch what the invariant is about. *)
LEMMA ClaimFrame ==
  ASSUME TypeOK, ClaimInv, UNCHANGED <<pc, cur, ded, has_worker, local>>, reposted => reposted'
  PROVE  ClaimInv'
  BY DEF ClaimInv, Marked, Exclusive, Devoted, NoLocal, Claims, TypeOK, HistoryTypes

(* A worker that gives up nothing and claims nothing new. *)
LEMMA ClaimLess ==
  ASSUME TypeOK, ClaimInv, NEW w \in Workers,
         UNCHANGED <<has_worker, local, reposted>>,
         \A v \in Workers \ {w} : pc'[v] = pc[v] /\ cur'[v] = cur[v] /\ ded'[v] = ded[v],
         ~reposted => \A q \in Queues : Claims(w, q)' => Claims(w, q),
         ~reposted /\ ded'[w] # None => pc'[w] \in Owning /\ (pc'[w] # "top" => cur'[w] = ded'[w])
  PROVE  ClaimInv'
  <1>. SUFFICES ASSUME ~reposted
                PROVE  Marked' /\ Exclusive' /\ Devoted' /\ NoLocal'
    BY DEF ClaimInv
  <1>1. \A v \in Workers, q \in Queues : Claims(v, q)' => Claims(v, q)
    BY DEF Claims
  <1>2. Marked'
    BY <1>1 DEF ClaimInv, Marked
  <1>3. Exclusive'
    BY <1>1 DEF ClaimInv, Exclusive
  <1>4. Devoted'
    BY DEF ClaimInv, Devoted
  <1>5. NoLocal'
    BY DEF ClaimInv, NoLocal
  <1>. QED
    BY <1>2, <1>3, <1>4, <1>5

(* A worker of this list claims nothing it had not claimed, and keeps to its  *)
(* dedicated queue.                                                           *)
Keeps(w) ==
  /\ UNCHANGED <<has_worker, local, reposted>>
  /\ \A v \in Workers \ {w} : pc'[v] = pc[v] /\ cur'[v] = cur[v] /\ ded'[v] = ded[v]
  /\ ~reposted => \A q \in Queues : Claims(w, q)' => Claims(w, q)
  /\ ~reposted /\ ded'[w] # None => pc'[w] \in Owning /\ (pc'[w] # "top" => cur'[w] = ded'[w])

(* The steps of a worker that take up no queue it had not in hand. *)
LEMMA WorkerKeeps ==
  ASSUME TypeOK, ClaimInv, NEW w \in Workers
  PROVE  /\ TopDedicated(w) => Keeps(w)
         /\ Observe(w) => Keeps(w)
         /\ Decide(w) => Keeps(w)
         /\ Wake(w) => Keeps(w)
         /\ Got(w) => Keeps(w)
         /\ PutBack(w) => Keeps(w)
         /\ FenceTest(w) => Keeps(w)
         /\ FenceWake(w) => Keeps(w)
         /\ AssignClaimed(w) => Keeps(w)
         /\ Take(w) => Keeps(w)
         /\ Finish(w) => Keeps(w)
         /\ Recheck(w) => Keeps(w)
         /\ Unmark(w) => Keeps(w)
         /\ Requeue(w) => Keeps(w)
         /\ Park(w) => Keeps(w)
         /\ ParkWake(w) => Keeps(w)
         /\ Release(w) => Keeps(w)
         /\ Released(w) => Keeps(w)
         /\ WakeUnasked(w) => Keeps(w)
         /\ ParkTimeout(w) => Keeps(w)
  <1>. USE DEF Keeps, Claims, Claiming, Owning, ClaimInv, Devoted, TypeOK, WorkerTypes, sVars, wVars, hVars
  <1>1. TopDedicated(w) => Keeps(w)
    BY DEF TopDedicated, Goto
  <1>2. Observe(w) => Keeps(w)
    BY DEF Observe, Goto
  <1>3. Decide(w) => Keeps(w)
    BY DEF Decide, Goto
  <1>4. Wake(w) => Keeps(w)
    BY DEF Wake, Goto
  <1>5. Got(w) => Keeps(w)
    BY DEF Got, Goto
  <1>6. PutBack(w) => Keeps(w)
    BY DEF PutBack, Leave, Goto
  <1>7. FenceTest(w) => Keeps(w)
    BY DEF FenceTest, Goto
  <1>8. FenceWake(w) => Keeps(w)
    BY DEF FenceWake, Goto
  <1>9. AssignClaimed(w) => Keeps(w)
    BY DEF AssignClaimed, Assign, Leave, Goto
  <1>10. Take(w) => Keeps(w)
    BY DEF Take, Running, Goto
  <1>11. Finish(w) => Keeps(w)
    BY DEF Finish, Running, Goto
  <1>12. Recheck(w) => Keeps(w)
    BY DEF Recheck, Leave, Goto
  <1>13. Unmark(w) => Keeps(w)
    BY DEF Unmark, Goto
  <1>14. Requeue(w) => Keeps(w)
    BY DEF Requeue, Leave, Goto
  <1>15. Park(w) => Keeps(w)
    BY DEF Park, Leave, Goto
  <1>16. ParkWake(w) => Keeps(w)
    BY DEF ParkWake, Goto
  <1>17. Release(w) => Keeps(w)
    BY DEF Release, Goto
  <1>18. Released(w) => Keeps(w)
    BY NoneAssumption DEF Released, Leave, Goto
  <1>19. WakeUnasked(w) => Keeps(w)
    BY DEF WakeUnasked, Goto
  <1>20. ParkTimeout(w) => Keeps(w)
    BY DEF ParkTimeout, Goto
  <1>. QED
    BY <1>1, <1>2, <1>3, <1>4, <1>5, <1>6, <1>7, <1>8, <1>9, <1>10, <1>11, <1>12, <1>13, <1>14, <1>15, <1>16, <1>17, <1>18, <1>19, <1>20

(* A worker that takes a queue from its local queue shows that one was put     *)
(* there.                                                                     *)
LEMMA LocalClaim ==
  ASSUME TypeOK, ClaimInv, NEW w \in Workers, TopLocal(w)
  PROVE  ClaimInv'
  BY DEF TopLocal, hVars, ClaimInv, NoLocal

(* The scan claims only a queue nobody is marked for. *)
LEMMA ScanClaim ==
  ASSUME TypeOK, ClaimInv, NEW w \in Workers, Scan(w)
  PROVE  ClaimInv'
  <1>. SUFFICES ASSUME ~reposted
                PROVE  Marked' /\ Exclusive' /\ Devoted' /\ NoLocal'
    BY DEF Scan, hVars, ClaimInv
  <1>1. pc[w] = "scan" /\ UNCHANGED <<local, ded>>
    BY DEF Scan
  <1>2. ded[w] = None
    BY <1>1 DEF ClaimInv, Devoted, Owning
  <1>3. CASE Allowed(at[w]) = {}
    <2>1. PICK l \in {"decide", "scan"} : Goto(w, l)
      BY <1>3 DEF Scan
    <2>2. UNCHANGED <<has_worker, cur>>
      BY <1>3 DEF Scan
    <2>3. \A v \in Workers, q \in Queues : Claims(v, q)' => Claims(v, q)
      BY <1>1, <2>1, <2>2 DEF Claims, Claiming, Goto, TypeOK, WorkerTypes
    <2>. QED
      BY <1>1, <1>2, <2>1, <2>2, <2>3 DEF ClaimInv, Marked, Exclusive, Devoted, NoLocal, Goto, TypeOK, WorkerTypes
  <1>4. CASE Allowed(at[w]) # {}
    <2>1. PICK n \in Allowed(at[w]) :
            /\ has_worker' = [has_worker EXCEPT ![heap[at[w]][n]] = TRUE]
            /\ cur' = [cur EXCEPT ![w] = heap[at[w]][n]]
            /\ Goto(w, "got")
      BY <1>4 DEF Scan
    <2>2. PICK k : k = heap[at[w]][n]
      OBVIOUS
    <2>3. ~has_worker[k]
      BY <2>2 DEF Allowed
    <2>4. \A v \in Workers : ~Claims(v, k) \/ k \notin Queues
      BY <2>3 DEF ClaimInv, Marked
    <2>5. \A v \in Workers, q \in Queues : Claims(v, q)' => Claims(v, q) \/ (v = w /\ q = k)
      BY <1>1, <1>2, <2>1, <2>2, NoneAssumption DEF Claims, Claiming, Goto, TypeOK, WorkerTypes
    <2>6. \A q \in Queues : ~Claims(w, q)
      BY <1>1, <1>2, NoneAssumption DEF Claims, Claiming
    <2>7. \A q \in Queues : has_worker[q] \/ q = k => has_worker'[q]
      BY <2>1, <2>2 DEF TypeOK, SourceTypes
    <2>8. Marked'
      BY <2>5, <2>7 DEF ClaimInv, Marked
    <2>9. Exclusive'
      BY <2>4, <2>5, <2>6 DEF ClaimInv, Exclusive
    <2>10. Devoted' /\ NoLocal'
      BY <1>1, <1>2, <2>1 DEF ClaimInv, Devoted, NoLocal, Goto, TypeOK, WorkerTypes
    <2>. QED
      BY <2>8, <2>9, <2>10
  <1>. QED
    BY <1>3, <1>4

(* The end of a turn unmarks only the queue of a worker that gives it up. *)
LEMMA TurnedClaim ==
  ASSUME TypeOK, ClaimInv, NEW w \in Workers, Turned(w)
  PROVE  ClaimInv'
  <1>. SUFFICES ASSUME ~reposted
                PROVE  Marked' /\ Exclusive' /\ Devoted' /\ NoLocal'
    BY DEF Turned, hVars, ClaimInv
  <1>1. pc[w] = "turned" /\ UNCHANGED <<local, ded>>
    BY DEF Turned
  <1>2. CASE ded[w] = None
    <2>1. /\ has_worker' = [has_worker EXCEPT ![cur[w]] = FALSE]
          /\ Goto(w, "recheck") /\ UNCHANGED cur
      BY <1>2 DEF Turned
    <2>2. \A v \in Workers, q \in Queues : Claims(v, q)' => Claims(v, q) /\ v # w
      BY <1>1, <1>2, <2>1, NoneAssumption DEF Claims, Claiming, Goto, TypeOK, WorkerTypes
    <2>3. cur[w] \in Queues /\ Claims(w, cur[w])
      BY <1>1 DEF Claims, Claiming, TypeOK, WorkerTypes, Busy, WorkerPC
    <2>4. \A v \in Workers, q \in Queues : Claims(v, q)' => q # cur[w]
      BY <2>2, <2>3 DEF ClaimInv, Exclusive
    <2>5. Marked'
      BY <2>1, <2>2, <2>4 DEF ClaimInv, Marked, TypeOK, SourceTypes
    <2>6. Exclusive'
      BY <2>2 DEF ClaimInv, Exclusive
    <2>7. Devoted' /\ NoLocal'
      BY <1>1, <1>2, <2>1 DEF ClaimInv, Devoted, NoLocal, Goto, TypeOK, WorkerTypes
    <2>. QED
      BY <2>5, <2>6, <2>7
  <1>3. CASE ded[w] # None
    <2>1. UNCHANGED <<has_worker, reposted>>
      BY <1>3 DEF Turned, hVars
    <2>2. Leave(w, "top") \/ (Goto(w, "park") /\ UNCHANGED cur)
      BY <1>3 DEF Turned
    <2>3. cur[w] = ded[w]
      BY <1>1, <1>3 DEF ClaimInv, Devoted
    <2>4. ClaimInv'
      BY <1>1, <2>1, <2>2, <2>3, ClaimLess DEF Claims, Claiming, Owning, Leave, Goto, TypeOK, WorkerTypes
    <2>. QED
      BY <2>1, <2>4 DEF ClaimInv
  <1>. QED
    BY <1>2, <1>3

(* Every step keeps the invariant. *)
LEMMA ClaimStep ==
  ASSUME TypeOK, ClaimInv, [Next]_vars
  PROVE  ClaimInv'
  <1>1. ASSUME NEW t \in Threads, Post(t)
        PROVE  ClaimInv'
    BY <1>1, ClaimFrame DEF Post, FindOwner, WakeDedicatedWorker, Enqueue, NotifyBump, NotifySignal,
      sVars, wVars, hVars
  <1>2. ASSUME NEW t \in Workers \cup Posters, NEW q \in Queues, Push(t, q)
        PROVE  ClaimInv'
    <2>1. CASE reposted'
      BY <2>1 DEF ClaimInv
    <2>2. CASE ~reposted'
      <3>1. UNCHANGED <<local, reposted>>
        BY <1>2, <2>2 DEF Push, ReEnqueueTaskQueue
      <3>. QED
        BY <1>2, <3>1, ClaimFrame DEF Push, sVars
    <2>. QED
      BY <2>1, <2>2
  <1>3. ASSUME NEW q \in Queues, Promote(q)
        PROVE  ClaimInv'
    BY <1>3, ClaimFrame DEF Promote, sVars, wVars, hVars
  <1>4. CASE PromoteReady \/ Fence
    BY <1>4, ClaimFrame DEF PromoteReady, Fence, BeginFence, CountFence, EndFence, SignalFence,
      sVars, wVars, hVars
  <1>5. ASSUME NEW w \in Workers, Work(w) \/ WakeUnasked(w) \/ ParkTimeout(w)
        PROVE  ClaimInv'
    <2>1. CASE Keeps(w)
      BY <2>1, ClaimLess DEF Keeps
    <2>2. CASE TopLocal(w) \/ Scan(w) \/ Turned(w)
      BY <2>2, LocalClaim, ScanClaim, TurnedClaim
    <2>. QED
      BY <1>5, <2>1, <2>2, WorkerKeeps DEF Work
  <1>6. CASE UNCHANGED vars
    BY <1>6, ClaimFrame DEF vars, sVars, wVars, hVars
  <1>. QED
    BY <1>1, <1>2, <1>3, <1>4, <1>5, <1>6 DEF Next

(* However many workers and queues there are, and however the heap loses or    *)
(* doubles entries, fences come and go and owners release their queues, two    *)
(* workers run one queue only after a worker has kept a queue for itself: the  *)
(* claim through WillRunTask in DequeueTaskSourceLocked is exclusive.          *)
THEOREM ExclusiveClaim == Spec => []OneWorkerUnlessReposted
  <1>1. Init => ClaimInv
    BY NoneAssumption DEF Init, ClaimInv, Marked, Exclusive, Devoted, NoLocal, Claims, Claiming
  <1>2. TypeOK /\ ClaimInv /\ [Next]_vars => ClaimInv'
    BY ClaimStep
  <1>3. TypeOK /\ ClaimInv => OneWorkerUnlessReposted
    <2>. SUFFICES ASSUME TypeOK, ClaimInv, ~reposted, NEW v \in Workers, NEW w \in Workers,
                         Running(v), Running(w), cur[v] = cur[w]
                  PROVE  v = w
      BY DEF OneWorkerUnlessReposted, OneWorker
    <2>1. cur[v] \in Queues /\ Claims(v, cur[v]) /\ Claims(w, cur[v])
      BY DEF Running, Claims, Claiming, TypeOK, WorkerTypes, Busy, WorkerPC
    <2>. QED
      BY <2>1 DEF ClaimInv, Exclusive
  <1>. QED
    BY <1>1, <1>2, <1>3, TypeCorrect, PTL DEF Spec

----------------------------------------------------------------------------
(* The order of tasks, for sequences of task numbers. *)
Increasing(s) == \A i, j \in DOMAIN s : i < j => s[i] < s[j]
Below(s, r)   == \A i \in DOMAIN s, j \in DOMAIN r : s[i] < r[j]
UpTo(s, k)    == \A i \in DOMAIN s : s[i] <= k

(* The inductive invariant.  What has started of a queue, what its worker has  *)
(* in hand, what its consumer has taken over and what is still in the shared   *)
(* queue follow each other, each in order, and all of it has been posted.      *)
InHand(w, q) ==
  /\ Increasing(batch[w]) /\ UpTo(batch[w], posted)
  /\ Below(batch[w], private[q]) /\ Below(batch[w], incoming[q])
  /\ Below(started[q], Tail(batch[w]))
InLine(q) ==
  /\ Increasing(started[q]) /\ Increasing(private[q]) /\ Increasing(incoming[q])
  /\ UpTo(started[q], posted) /\ UpTo(private[q], posted) /\ UpTo(incoming[q], posted)
  /\ Below(started[q], private[q]) /\ Below(started[q], incoming[q]) /\ Below(private[q], incoming[q])
  /\ \A w \in Workers : Running(w) /\ cur[w] = q => InHand(w, q)
OrderInv ==
  /\ \A q \in Queues \ Dedicated : private[q] = <<>>
  /\ ~reposted => \A q \in Queues \ delayed : InLine(q)

(* A part of a sequence, its elements moved down by k, is ordered as it is. *)
Part(p, s, k) == \A i \in DOMAIN p : i + k \in DOMAIN s /\ p[i] = s[i + k]

(* A piece of an increasing sequence is in order, and below what the whole is below. *)
LEMMA PartOrder ==
  ASSUME NEW s \in Seq(Nat), NEW p \in Seq(Nat), NEW k \in Nat, Part(p, s, k)
  PROVE  /\ Increasing(s) => Increasing(p)
         /\ \A m \in Nat : UpTo(s, m) => UpTo(p, m)
         /\ \A r \in Seq(Nat) : (Below(s, r) => Below(p, r)) /\ (Below(r, s) => Below(r, p))
  <1>1. DOMAIN p = 1..Len(p) /\ Len(p) \in Nat
    BY LenProperties
  <1>2. Increasing(s) => Increasing(p)
    BY <1>1 DEF Increasing, Part
  <1>3. \A m \in Nat : UpTo(s, m) => UpTo(p, m)
    BY DEF UpTo, Part
  <1>4. \A r \in Seq(Nat) : (Below(s, r) => Below(p, r)) /\ (Below(r, s) => Below(r, p))
    BY DEF Below, Part
  <1>. QED
    BY <1>2, <1>3, <1>4

(* The first n elements and the rest are parts, and follow each other. *)
LEMMA CutOrder ==
  ASSUME NEW s \in Seq(Nat), NEW n \in 1..Len(s)
  PROVE  /\ Part(SubSeq(s, 1, n), s, 0) /\ Part(SubSeq(s, n + 1, Len(s)), s, n)
         /\ Increasing(s) => Below(SubSeq(s, 1, n), SubSeq(s, n + 1, Len(s)))
  <1>0. DOMAIN s = 1..Len(s) /\ Len(s) \in Nat /\ \A i \in 1..Len(s) : s[i] \in Nat
    BY LenProperties, ElementOfSeq
  <1>. DEFINE b == SubSeq(s, 1, n)
              r == SubSeq(s, n + 1, Len(s))
  <1>1. b \in Seq(Nat) /\ Len(b) = n /\ \A i \in 1..n : b[i] = s[i]
    <2>1. \A i \in 1..n : s[i] \in Nat
      BY <1>0
    <2>2. /\ SubSeq(s, 1, n) \in Seq(Nat)
          /\ Len(SubSeq(s, 1, n)) = IF 1 <= n THEN n - 1 + 1 ELSE 0
          /\ \A i \in 1..n-1+1 : SubSeq(s, 1, n)[i] = s[1+i-1]
      BY <2>1, SubSeqProperties
    <2>. QED
      BY <1>0, <2>2
  <1>2. r \in Seq(Nat) /\ Len(r) = Len(s) - n /\ \A i \in 1..Len(s)-n : r[i] = s[i + n]
    <2>1. \A i \in n+1..Len(s) : s[i] \in Nat
      BY <1>0
    <2>2. /\ SubSeq(s, n+1, Len(s)) \in Seq(Nat)
          /\ Len(SubSeq(s, n+1, Len(s))) = IF n+1 <= Len(s) THEN Len(s) - (n+1) + 1 ELSE 0
          /\ \A i \in 1..Len(s)-(n+1)+1 : SubSeq(s, n+1, Len(s))[i] = s[(n+1)+i-1]
      BY <1>0, <2>1, SubSeqProperties
    <2>3. Len(r) = Len(s) - n
      <3>1. PICK m \in Nat : m = Len(s) /\ n \in 1..m
        BY <1>0
      <3>2. (IF n+1 <= m THEN m - (n+1) + 1 ELSE 0) = m - n
        BY <3>1
      <3>. QED
        BY <2>2, <3>1, <3>2
    <2>4. ASSUME NEW i \in 1..Len(s)-n
          PROVE  r[i] = s[i + n]
      <3>1. i \in 1..Len(s)-(n+1)+1 /\ (n+1)+i-1 = i + n
        BY <1>0
      <3>. QED
        BY <2>2, <3>1
    <2>. QED
      BY <2>2, <2>3, <2>4
  <1>3. DOMAIN b = 1..n /\ DOMAIN r = 1..(Len(s) - n)
    BY <1>1, <1>2, LenProperties
  <1>. HIDE DEF b, r
  <1>4. Part(b, s, 0) /\ Part(r, s, n)
    BY <1>0, <1>1, <1>2, <1>3 DEF Part
  <1>5. Increasing(s) => Below(b, r)
    <2>. SUFFICES ASSUME Increasing(s), NEW i \in 1..n, NEW j \in 1..(Len(s) - n)
                  PROVE  b[i] < r[j]
      BY <1>3 DEF Below
    <2>1. i \in DOMAIN s /\ j + n \in DOMAIN s /\ i < j + n
      BY <1>0
    <2>2. b[i] = s[i] /\ r[j] = s[j + n]
      BY <1>1, <1>2
    <2>. QED
      BY <2>1, <2>2 DEF Increasing
  <1>. QED
    BY <1>4, <1>5 DEF b, r

(* The tail of an increasing sequence is a part that follows its head. *)
LEMMA TailOrder ==
  ASSUME NEW s \in Seq(Nat), s # <<>>
  PROVE  /\ Part(Tail(s), s, 1) /\ Tail(s) \in Seq(Nat)
         /\ 1 \in DOMAIN s /\ Head(s) = s[1]
         /\ Increasing(s) => \A j \in DOMAIN Tail(s) : Head(s) < Tail(s)[j]
  <1>1. DOMAIN s = 1..Len(s) /\ Len(s) \in Nat /\ Len(s) # 0
    BY LenProperties, EmptySeq
  <1>2. Tail(s) \in Seq(Nat) /\ Len(Tail(s)) = Len(s) - 1 /\ \A i \in 1..Len(Tail(s)) : Tail(s)[i] = s[i + 1]
    BY HeadTailProperties
  <1>3. DOMAIN Tail(s) = 1..(Len(s) - 1)
    BY <1>2, LenProperties
  <1>4. 1 \in DOMAIN s /\ Head(s) = s[1]
    BY <1>1
  <1>5. Part(Tail(s), s, 1)
    BY <1>1, <1>2, <1>3 DEF Part
  <1>6. Increasing(s) => \A j \in DOMAIN Tail(s) : Head(s) < Tail(s)[j]
    BY <1>1, <1>2, <1>3, <1>4 DEF Increasing
  <1>. QED
    BY <1>2, <1>4, <1>5, <1>6

(* An element that follows a sequence, and comes before another, may join it. *)
LEMMA AppendOrder ==
  ASSUME NEW s \in Seq(Nat), NEW e \in Nat
  PROVE  /\ Append(s, e) \in Seq(Nat)
         /\ Increasing(s) /\ (\A i \in DOMAIN s : s[i] < e) => Increasing(Append(s, e))
         /\ \A m \in Nat : UpTo(s, m) /\ e <= m => UpTo(Append(s, e), m)
         /\ \A r \in Seq(Nat) : Below(s, r) /\ (\A j \in DOMAIN r : e < r[j]) => Below(Append(s, e), r)
         /\ \A r \in Seq(Nat) : Below(r, s) /\ (\A j \in DOMAIN r : r[j] < e) => Below(r, Append(s, e))
  <1>. DEFINE t == Append(s, e)
  <1>1. t \in Seq(Nat) /\ Len(t) = Len(s) + 1 /\ (\A i \in 1..Len(s) : t[i] = s[i]) /\ t[Len(s) + 1] = e
    BY AppendProperties
  <1>2. DOMAIN s = 1..Len(s) /\ Len(s) \in Nat /\ DOMAIN t = 1..(Len(s) + 1)
    BY <1>1, LenProperties
  <1>. HIDE DEF t
  <1>3. Increasing(s) /\ (\A i \in DOMAIN s : s[i] < e) => Increasing(t)
    <2>. SUFFICES ASSUME Increasing(s), \A i \in DOMAIN s : s[i] < e,
                         NEW i \in 1..(Len(s) + 1), NEW j \in 1..(Len(s) + 1), i < j
                  PROVE  t[i] < t[j]
      BY <1>2 DEF Increasing
    <2>1. i \in 1..Len(s) /\ t[i] = s[i]
      BY <1>1, <1>2
    <2>2. CASE j = Len(s) + 1
      BY <1>1, <1>2, <2>1, <2>2
    <2>3. CASE j \in 1..Len(s)
      BY <1>1, <1>2, <2>1, <2>3 DEF Increasing
    <2>. QED
      BY <1>2, <2>2, <2>3
  <1>4. \A m \in Nat : UpTo(s, m) /\ e <= m => UpTo(t, m)
    BY <1>1, <1>2 DEF UpTo
  <1>5. \A r \in Seq(Nat) : Below(s, r) /\ (\A j \in DOMAIN r : e < r[j]) => Below(t, r)
    <2>. SUFFICES ASSUME NEW r \in Seq(Nat), Below(s, r), \A j \in DOMAIN r : e < r[j],
                         NEW i \in 1..(Len(s) + 1), NEW j \in DOMAIN r
                  PROVE  t[i] < r[j]
      BY <1>2 DEF Below
    <2>1. CASE i = Len(s) + 1
      BY <1>1, <2>1
    <2>2. CASE i \in 1..Len(s)
      BY <1>1, <1>2, <2>2 DEF Below
    <2>. QED
      BY <1>2, <2>1, <2>2
  <1>6. \A r \in Seq(Nat) : Below(r, s) /\ (\A j \in DOMAIN r : r[j] < e) => Below(r, t)
    <2>. SUFFICES ASSUME NEW r \in Seq(Nat), Below(r, s), \A j \in DOMAIN r : r[j] < e,
                         NEW i \in 1..(Len(s) + 1), NEW j \in DOMAIN r
                  PROVE  r[j] < t[i]
      BY <1>2 DEF Below
    <2>1. CASE i = Len(s) + 1
      BY <1>1, <2>1
    <2>2. CASE i \in 1..Len(s)
      BY <1>1, <1>2, <2>2 DEF Below
    <2>. QED
      BY <1>2, <2>1, <2>2
  <1>. QED
    BY <1>1, <1>3, <1>4, <1>5, <1>6 DEF t

(* A post to a queue without delayed tasks goes to its end. *)
LEMMA InsertedLast ==
  ASSUME NEW s \in Seq(Nat), NEW e \in Nat
  PROVE  Inserted(s, Len(s), e) = Append(s, e)
  <1>1. SubSeq(s, 1, Len(s)) = s
    BY SubSeqFull
  <1>2. Len(s) \in Nat
    BY LenProperties
  <1>3. SubSeq(s, Len(s) + 1, Len(s)) = <<>>
    BY <1>2, SubSeqEmpty
  <1>4. s \o <<e>> = Append(s, e)
    BY AppendIsConcat
  <1>5. Append(s, e) \in Seq(Nat)
    BY AppendProperties
  <1>6. Append(s, e) \o <<>> = Append(s, e)
    BY <1>5, ConcatEmptySeq
  <1>. QED
    BY <1>1, <1>3, <1>4, <1>6 DEF Inserted

(* Steps that start, take and post nothing. *)
LEMMA OrderFrame ==
  ASSUME OrderInv, UNCHANGED <<incoming, private, started, batch, posted, delayed>>, reposted => reposted',
         \A v \in Workers : Running(v)' => Running(v) /\ cur'[v] = cur[v]
  PROVE  OrderInv'
  <1>1. ASSUME ~reposted', NEW q \in Queues \ delayed
        PROVE  InLine(q)'
    <2>1. InLine(q)
      BY <1>1 DEF OrderInv
    <2>2. ASSUME NEW w \in Workers, Running(w)', cur'[w] = q
          PROVE  InHand(w, q)'
      <3>1. InHand(w, q)
        BY <2>1, <2>2 DEF InLine
      <3>. QED
        BY <3>1 DEF InHand
    <2>. QED
      BY <2>1, <2>2 DEF InLine
  <1>. QED
    BY <1>1 DEF OrderInv

(* A queue to which nothing is posted keeps its order. *)
LEMMA OtherQueue ==
  ASSUME TypeOK, NEW q \in Queues, InLine(q), posted' = posted + 1,
         incoming'[q] = incoming[q], UNCHANGED <<private, started, batch, pc, cur>>
  PROVE  InLine(q)'
  <1>. DEFINE More(s) == UpTo(s, posted) => UpTo(s, posted')
  <1>1. /\ incoming[q] \in Seq(Nat) /\ private[q] \in Seq(Nat) /\ started[q] \in Seq(Nat)
        /\ posted \in Nat /\ \A w \in Workers : batch[w] \in Seq(Nat)
    BY DEF TypeOK, QueueTypes, HistoryTypes, WorkerTypes
  <1>2. \A s \in Seq(Nat) : More(s)
    <2>. SUFFICES ASSUME NEW s \in Seq(Nat), NEW i \in DOMAIN s, s[i] <= posted
                  PROVE  s[i] <= posted + 1
      BY DEF UpTo
    <2>1. s[i] \in Nat
      BY LenProperties, ElementOfSeq
    <2>. QED
      BY <1>1, <2>1
  <1>3. ASSUME NEW w \in Workers, Running(w)', cur'[w] = q
        PROVE  InHand(w, q)'
    <2>1. InHand(w, q)
      BY <1>3 DEF InLine, Running
    <2>. QED
      BY <1>1, <1>2, <2>1 DEF InHand
  <1>. HIDE DEF More
  <1>4. UpTo(started[q], posted') /\ UpTo(private[q], posted') /\ UpTo(incoming[q], posted')
    BY <1>1, <1>2 DEF InLine, More
  <1>. QED
    BY <1>3, <1>4 DEF InLine

(* A post to the end of a queue. *)
LEMMA PushOrder ==
  ASSUME TypeOK, OrderInv, NEW t \in Workers \cup Posters, NEW q \in Queues, Push(t, q)
  PROVE  OrderInv'
  <1>1. /\ UNCHANGED <<private, started, batch, pc, cur, delayed>> /\ posted' = posted + 1
        /\ reposted => reposted'
    BY DEF Push, ReEnqueueTaskQueue, TypeOK, HistoryTypes
  <1>2. PICK i \in Places(q) : incoming' = [incoming EXCEPT ![q] = Inserted(@, i, posted + 1)]
    BY DEF Push
  <1>3. ASSUME ~reposted', NEW r \in Queues \ delayed, r # q
        PROVE  InLine(r)'
    <2>1. incoming'[r] = incoming[r] /\ InLine(r)
      BY <1>1, <1>2, <1>3 DEF OrderInv, TypeOK, QueueTypes
    <2>. QED
      BY <1>1, <2>1, OtherQueue
  <1>4. ASSUME ~reposted', q \notin delayed
        PROVE  InLine(q)'
    <2>. DEFINE e == posted + 1
                s == incoming[q]
    <2>1. /\ s \in Seq(Nat) /\ private[q] \in Seq(Nat) /\ started[q] \in Seq(Nat)
          /\ posted \in Nat /\ e \in Nat /\ \A w \in Workers : batch[w] \in Seq(Nat)
      BY DEF TypeOK, QueueTypes, HistoryTypes, WorkerTypes
    <2>2. incoming'[q] = Append(s, e)
      <3>1. i = Len(s)
        BY <1>2, <1>4 DEF Places
      <3>2. Inserted(s, Len(s), e) = Append(s, e)
        BY <2>1, InsertedLast
      <3>. QED
        BY <1>2, <3>1, <3>2 DEF TypeOK, QueueTypes
    <2>3. InLine(q)
      BY <1>1, <1>4 DEF OrderInv
    <2>4. ASSUME NEW x \in Seq(Nat), UpTo(x, posted)
          PROVE  UpTo(x, e) /\ \A j \in DOMAIN x : x[j] < e
      <3>1. \A j \in DOMAIN x : x[j] \in Nat
        BY LenProperties, ElementOfSeq
      <3>. QED
        BY <2>1, <2>4, <3>1 DEF UpTo
    <2>5. ASSUME NEW x \in Seq(Nat), UpTo(x, posted), Below(x, s)
          PROVE  Below(x, Append(s, e))
      <3>1. \A j \in DOMAIN x : x[j] < e
        BY <2>4, <2>5
      <3>. HIDE DEF e, s
      <3>. QED
        BY <2>1, <2>5, <3>1, AppendOrder
    <2>6. Increasing(Append(s, e)) /\ UpTo(Append(s, e), e)
      <3>1. UpTo(s, e) /\ (\A j \in DOMAIN s : s[j] < e) /\ Increasing(s) /\ e <= e
        BY <2>1, <2>3, <2>4 DEF InLine
      <3>. HIDE DEF e, s
      <3>. QED
        BY <2>1, <3>1, AppendOrder
    <2>7. ASSUME NEW w \in Workers, Running(w)', cur'[w] = q
          PROVE  InHand(w, q)'
      <3>1. InHand(w, q)
        BY <1>1, <2>3, <2>7 DEF InLine, Running
      <3>2. UpTo(batch[w], e) /\ Below(batch[w], Append(s, e))
        BY <2>1, <2>4, <2>5, <3>1 DEF InHand
      <3>. QED
        BY <1>1, <2>2, <3>1, <3>2 DEF InHand
    <2>8. /\ UpTo(started[q], e) /\ Below(started[q], Append(s, e))
          /\ UpTo(private[q], e) /\ Below(private[q], Append(s, e))
      BY <2>1, <2>3, <2>4, <2>5 DEF InLine
    <2>. QED
      BY <1>1, <2>2, <2>3, <2>6, <2>7, <2>8 DEF InLine
  <1>. QED
    BY <1>1, <1>3, <1>4 DEF OrderInv

(* A task that becomes due excuses its queue. *)
LEMMA PromoteOrder ==
  ASSUME TypeOK, OrderInv, NEW q \in Queues, Promote(q)
  PROVE  OrderInv'
  <1>1. /\ UNCHANGED <<private, started, batch, pc, cur, reposted>> /\ posted' = posted + 1
        /\ delayed' = delayed \cup {q} /\ \A r \in Queues \ {q} : incoming'[r] = incoming[r]
    BY DEF Promote, wVars, TypeOK, QueueTypes
  <1>2. ASSUME ~reposted', NEW r \in Queues \ delayed'
        PROVE  InLine(r)'
    BY <1>1, <1>2, OtherQueue DEF OrderInv
  <1>. QED
    BY <1>1, <1>2 DEF OrderInv

(* Nobody else runs the queue that a worker is about to run, or runs. *)
LEMMA Alone ==
  ASSUME TypeOK, ClaimInv, ~reposted, NEW w \in Workers, pc[w] \in {"take", "run", "runfull"}
  PROVE  cur[w] \in Queues /\ \A v \in Workers : Running(v) /\ cur[v] = cur[w] => v = w
  <1>1. cur[w] \in Queues /\ Claims(w, cur[w])
    BY DEF Claims, Claiming, TypeOK, WorkerTypes, Busy, WorkerPC
  <1>2. \A v \in Workers : Running(v) /\ cur[v] = cur[w] => Claims(v, cur[w])
    BY DEF Running, Claims, Claiming
  <1>. QED
    BY <1>1, <1>2 DEF ClaimInv, Exclusive

(* A batch is taken from the front, and its first task is started. *)
LEMMA TakeOrder ==
  ASSUME TypeOK, ClaimInv, OrderInv, NEW w \in Workers, Take(w)
  PROVE  OrderInv'
  <1>q. PICK q \in Queues : q = cur[w]
    BY DEF Take, TypeOK, WorkerTypes, Busy, WorkerPC
  <1>. DEFINE src == Source(q)
  <1>0. /\ pc[w] = "take" /\ q = cur[w] /\ UNCHANGED <<cur, posted, reposted, delayed>>
        /\ \A v \in Workers \ {w} : pc'[v] = pc[v]
    BY <1>q DEF Take, TypeOK, WorkerTypes, Goto
  <1>1. CASE src = <<>>
    <2>1. Goto(w, "turned") /\ UNCHANGED <<incoming, private, batch, started>>
      BY <1>0, <1>1 DEF Take, qVars
    <2>2. \A v \in Workers : Running(v)' => Running(v) /\ cur'[v] = cur[v]
      BY <1>0, <2>1 DEF Goto, Running, TypeOK, WorkerTypes
    <2>. QED
      BY <1>0, <2>1, <2>2, OrderFrame
  <1>2. CASE src # <<>>
    <2>1. PICK n \in 1..Len(src) :
            /\ batch' = [batch EXCEPT ![w] = SubSeq(src, 1, n)]
            /\ IF q \in Dedicated
               THEN /\ private' = [private EXCEPT ![q] = SubSeq(src, n + 1, Len(src))]
                    /\ incoming' = [incoming EXCEPT ![q] = IF private[q] = <<>> THEN <<>> ELSE @]
               ELSE /\ incoming' = [incoming EXCEPT ![q] = SubSeq(src, n + 1, Len(src))]
                    /\ UNCHANGED private
            /\ started' = [started EXCEPT ![q] = Append(@, Head(src))]
      BY <1>0, <1>2 DEF Take, StartTask
    <2>2. /\ incoming[q] \in Seq(Nat) /\ private[q] \in Seq(Nat) /\ started[q] \in Seq(Nat)
          /\ posted \in Nat /\ src \in Seq(Nat)
      BY <1>0 DEF TypeOK, QueueTypes, HistoryTypes, Source
    <2>. DEFINE b == SubSeq(src, 1, n)
                r == SubSeq(src, n + 1, Len(src))
                h == Head(src)
                st == Append(started[q], h)
    <2>3. b \in Seq(Nat) /\ b # <<>> /\ r \in Seq(Nat) /\ h \in Nat
      BY <2>2, Pieces
    <2>4. \A p \in Queues \ Dedicated : private'[p] = <<>>
      BY <2>1 DEF OrderInv, TypeOK, QueueTypes
    <2>5. \A p \in Queues \ {q} : incoming'[p] = incoming[p] /\ private'[p] = private[p] /\ started'[p] = started[p]
      BY <1>0, <2>1 DEF TypeOK, QueueTypes, HistoryTypes
    <2>6. batch'[w] = b /\ \A v \in Workers \ {w} : batch'[v] = batch[v]
      BY <2>1 DEF TypeOK, WorkerTypes
    <2>7. ASSUME ~reposted, NEW p \in Queues \ delayed, p # q
          PROVE  InLine(p)'
      <3>1. InLine(p)
        BY <2>7 DEF OrderInv
      <3>2. ASSUME NEW v \in Workers, Running(v)', cur'[v] = p
            PROVE  InHand(v, p)'
        <4>1. v # w /\ Running(v) /\ cur[v] = p
          BY <1>0, <2>7, <3>2 DEF Running
        <4>2. InHand(v, p)
          BY <3>1, <4>1 DEF InLine
        <4>. QED
          BY <1>0, <2>5, <2>6, <2>7, <4>1, <4>2 DEF InHand
      <3>. QED
        BY <1>0, <2>5, <2>7, <3>1, <3>2 DEF InLine
    <2>8. ASSUME ~reposted, q \notin delayed
          PROVE  InLine(q)'
      <3>1. InLine(q)
        BY <1>0, <2>8 DEF OrderInv
      <3>2. Increasing(src) /\ UpTo(src, posted) /\ Below(started[q], src)
        BY <3>1 DEF InLine, Source
      <3>3. Part(b, src, 0) /\ Part(r, src, n) /\ Below(b, r)
        BY <2>2, <3>2, CutOrder
      <3>4. h = src[1] /\ 1 \in DOMAIN src /\ b[1] = h /\ 1 \in DOMAIN b /\ Head(b) = h
        <4>1. h = src[1] /\ 1 \in DOMAIN src
          BY <1>2, <2>2, TailOrder
        <4>2. Head(b) = b[1] /\ 1 \in DOMAIN b
          BY <2>3, TailOrder
        <4>. HIDE DEF b, r, h, src
        <4>3. b[1] = src[1 + 0]
          BY <3>3, <4>2 DEF Part
        <4>. QED
          BY <4>1, <4>2, <4>3
      <3>. HIDE DEF b, r, h, src
      <3>5. Increasing(b) /\ UpTo(b, posted) /\ Below(started[q], b)
        BY <2>2, <2>3, <3>2, <3>3, PartOrder
      <3>6. n \in Nat
        BY <2>2, LenProperties
      <3>7. Increasing(r) /\ UpTo(r, posted) /\ Below(started[q], r)
        BY <2>2, <2>3, <3>2, <3>3, <3>6, PartOrder
      <3>8. st \in Seq(Nat) /\ Increasing(st) /\ UpTo(st, posted)
        <4>1. \A i \in DOMAIN started[q] : started[q][i] < h
          BY <3>2, <3>4 DEF Below
        <4>2. h <= posted /\ Increasing(started[q]) /\ UpTo(started[q], posted)
          BY <3>1, <3>2, <3>4 DEF UpTo, InLine
        <4>. QED
          BY <2>2, <2>3, <4>1, <4>2, AppendOrder
      <3>9. ASSUME NEW y \in Seq(Nat), Below(started[q], y), \A j \in DOMAIN y : h < y[j]
            PROVE  Below(st, y)
        BY <2>2, <2>3, <3>9, AppendOrder
      <3>10. ASSUME NEW y \in Seq(Nat), Below(started[q], y), Below(b, y)
             PROVE  Below(st, y)
        <4>1. \A j \in DOMAIN y : h < y[j]
          BY <3>4, <3>10 DEF Below
        <4>. QED
          BY <3>9, <3>10, <4>1
      <3>11. Below(st, Tail(b))
        <4>1. Tail(b) \in Seq(Nat) /\ Part(Tail(b), b, 1) /\ \A j \in DOMAIN Tail(b) : h < Tail(b)[j]
          BY <2>3, <3>4, <3>5, TailOrder
        <4>2. Below(started[q], Tail(b))
          BY <2>2, <2>3, <3>5, <4>1, PartOrder
        <4>. QED
          BY <3>9, <4>1, <4>2
      <3>12. <<>> \in Seq(Nat) /\ \A y : Below(y, <<>>) /\ Below(<<>>, y)
        BY DEF Below
      <3>13. Increasing(<<>>) /\ UpTo(<<>>, posted)
        BY DEF Increasing, UpTo
      <3>14. Below(st, r)
        BY <2>3, <3>3, <3>7, <3>10
      <3>15. /\ Increasing(private'[q]) /\ UpTo(private'[q], posted)
             /\ Increasing(incoming'[q]) /\ UpTo(incoming'[q], posted)
             /\ Below(b, private'[q]) /\ Below(b, incoming'[q])
             /\ Below(st, private'[q]) /\ Below(st, incoming'[q])
             /\ Below(private'[q], incoming'[q])
        <4>1. CASE q \in Dedicated /\ private[q] # <<>>
          <5>1. private'[q] = r /\ incoming'[q] = incoming[q] /\ src = private[q]
            BY <1>0, <2>1, <4>1 DEF src, Source, r, TypeOK, QueueTypes
          <5>2. /\ Increasing(incoming[q]) /\ UpTo(incoming[q], posted)
                /\ Below(started[q], incoming[q]) /\ Below(src, incoming[q])
            BY <3>1, <5>1 DEF InLine
          <5>3. Below(b, incoming[q])
            BY <2>2, <2>3, <3>3, <5>2, PartOrder
          <5>4. Below(r, incoming[q])
            BY <2>2, <2>3, <3>3, <3>6, <5>2, PartOrder
          <5>5. Below(st, incoming[q])
            BY <2>2, <3>10, <5>2, <5>3
          <5>. QED
            BY <3>3, <3>7, <3>14, <5>1, <5>2, <5>3, <5>4, <5>5
        <4>2. CASE q \in Dedicated /\ private[q] = <<>>
          <5>1. private'[q] = r /\ incoming'[q] = <<>>
            BY <1>0, <2>1, <4>2 DEF r, TypeOK, QueueTypes
          <5>. QED
            BY <3>3, <3>7, <3>12, <3>13, <3>14, <5>1
        <4>3. CASE q \notin Dedicated
          <5>1. private'[q] = <<>> /\ incoming'[q] = r
            BY <1>0, <2>1, <2>4, <4>3 DEF r, TypeOK, QueueTypes
          <5>. QED
            BY <3>3, <3>7, <3>12, <3>13, <3>14, <5>1
        <4>. QED
          BY <4>1, <4>2, <4>3
      <3>16. started'[q] = st
        BY <1>0, <2>1 DEF h, src, TypeOK, HistoryTypes
      <3>17. ASSUME NEW v \in Workers, Running(v)', cur'[v] = q
             PROVE  InHand(v, q)'
        <4>1. v = w
          <5>1. v # w => Running(v) /\ cur[v] = q
            BY <1>0, <3>17 DEF Running
          <5>. QED
            BY <1>0, <2>8, <5>1, Alone
        <4>. HIDE DEF st
        <4>. QED
          BY <1>0, <2>6, <3>5, <3>11, <3>15, <3>16, <4>1 DEF InHand
      <3>. HIDE DEF st
      <3>. QED
        BY <1>0, <3>8, <3>15, <3>16, <3>17 DEF InLine
    <2>. QED
      BY <1>0, <2>4, <2>7, <2>8 DEF OrderInv
  <1>. QED
    BY <1>1, <1>2

(* The next task of a batch is started, or the batch is over. *)
LEMMA FinishOrder ==
  ASSUME TypeOK, ClaimInv, OrderInv, NEW w \in Workers, Finish(w)
  PROVE  OrderInv'
  <1>. DEFINE q == cur[w]
              b == batch[w]
              h == Head(Tail(b))
              st == Append(started[q], h)
  <1>0. /\ pc[w] \in {"run", "runfull"} /\ q \in Queues
        /\ UNCHANGED <<incoming, private, cur, posted, reposted, delayed>>
        /\ \A v \in Workers \ {w} : pc'[v] = pc[v]
        /\ batch'[w] = Tail(b) /\ \A v \in Workers \ {w} : batch'[v] = batch[v]
    BY DEF Finish, Running, TypeOK, WorkerTypes, Busy, WorkerPC, Goto, qVars
  <1>1. b \in Seq(Nat) /\ b # <<>> /\ posted \in Nat
        /\ incoming[q] \in Seq(Nat) /\ private[q] \in Seq(Nat) /\ started[q] \in Seq(Nat)
    BY <1>0 DEF TypeOK, WorkerTypes, HistoryTypes, QueueTypes, Running
  <1>2. \A p \in Queues \ {q} : started'[p] = started[p]
    BY <1>0 DEF Finish, StartTask, TypeOK, HistoryTypes
  <1>3. ASSUME ~reposted, NEW p \in Queues \ delayed, p # q
        PROVE  InLine(p)'
    <2>1. InLine(p)
      BY <1>3 DEF OrderInv
    <2>2. ASSUME NEW v \in Workers, Running(v)', cur'[v] = p
          PROVE  InHand(v, p)'
      <3>1. v # w /\ Running(v) /\ cur[v] = p
        BY <1>0, <1>3, <2>2 DEF Running
      <3>2. InHand(v, p)
        BY <2>1, <3>1 DEF InLine
      <3>. QED
        BY <1>0, <1>2, <1>3, <3>1, <3>2 DEF InHand
    <2>. QED
      BY <1>0, <1>2, <1>3, <2>1, <2>2 DEF InLine
  <1>4. ASSUME ~reposted, q \notin delayed
        PROVE  InLine(q)'
    <2>1. InLine(q) /\ InHand(w, q)
      BY <1>0, <1>4 DEF OrderInv, InLine, Running
    <2>2. \A v \in Workers : Running(v)' /\ cur'[v] = q => v = w
      <3>1. \A v \in Workers : Running(v)' /\ cur'[v] = q /\ v # w => Running(v) /\ cur[v] = q
        BY <1>0 DEF Running
      <3>. QED
        BY <1>0, <1>4, <3>1, Alone
    <2>3. CASE Len(b) > 1
      <3>1. started'[q] = st
        BY <1>0, <2>3 DEF Finish, StartTask, TypeOK, HistoryTypes
      <3>2. Tail(b) \in Seq(Nat) /\ Tail(b) # <<>> /\ h \in Nat
        BY <1>1, <2>3, Rest
      <3>3. Part(Tail(b), b, 1)
        BY <1>1, TailOrder
      <3>4. /\ Increasing(b) /\ UpTo(b, posted) /\ Below(b, private[q]) /\ Below(b, incoming[q])
            /\ Below(started[q], Tail(b))
        BY <2>1 DEF InHand
      <3>5. /\ Increasing(Tail(b)) /\ UpTo(Tail(b), posted)
            /\ Below(Tail(b), private[q]) /\ Below(Tail(b), incoming[q])
        <4>. HIDE DEF b, q
        <4>. QED
          BY <1>1, <3>2, <3>3, <3>4, PartOrder
      <3>6. /\ 1 \in DOMAIN Tail(b) /\ h = Tail(b)[1]
            /\ Tail(Tail(b)) \in Seq(Nat) /\ Part(Tail(Tail(b)), Tail(b), 1)
            /\ \A j \in DOMAIN Tail(Tail(b)) : h < Tail(Tail(b))[j]
        BY <3>2, <3>5, TailOrder
      <3>. HIDE DEF b, q, h
      <3>7. /\ h <= posted /\ (\A i \in DOMAIN started[q] : started[q][i] < h)
            /\ (\A j \in DOMAIN private[q] : h < private[q][j])
            /\ (\A j \in DOMAIN incoming[q] : h < incoming[q][j])
        BY <3>4, <3>5, <3>6 DEF UpTo, Below
      <3>8. Below(started[q], Tail(Tail(b)))
        BY <1>1, <3>2, <3>4, <3>6, PartOrder
      <3>9. /\ Increasing(started[q]) /\ UpTo(started[q], posted)
            /\ Below(started[q], private[q]) /\ Below(started[q], incoming[q])
        BY <2>1 DEF InLine
      <3>10. /\ Increasing(st) /\ UpTo(st, posted)
             /\ Below(st, private[q]) /\ Below(st, incoming[q]) /\ Below(st, Tail(Tail(b)))
        BY <1>1, <3>2, <3>6, <3>7, <3>8, <3>9, AppendOrder
      <3>. HIDE DEF st
      <3>11. InHand(w, q)'
        BY <1>0, <3>1, <3>5, <3>10 DEF InHand, q
      <3>. QED
        BY <1>0, <2>1, <2>2, <3>1, <3>10, <3>11 DEF InLine, q
    <2>4. CASE ~(Len(b) > 1)
      <3>1. UNCHANGED started /\ (Goto(w, "turned") \/ Goto(w, "take"))
        BY <2>4 DEF Finish
      <3>2. ~Running(w)'
        BY <3>1 DEF Goto, Running, TypeOK, WorkerTypes
      <3>. QED
        BY <1>0, <2>1, <2>2, <3>1, <3>2 DEF InLine
    <2>. QED
      BY <2>3, <2>4
  <1>. QED
    BY <1>0, <1>3, <1>4 DEF OrderInv

(* A worker that neither takes nor ends a task does not begin to run. *)
LEMMA Rests ==
  ASSUME TypeOK, NEW w \in Workers, Work(w) \/ WakeUnasked(w) \/ ParkTimeout(w), ~Take(w), ~Finish(w)
  PROVE  /\ UNCHANGED <<incoming, private, started, batch, posted, delayed, reposted>>
         /\ \A v \in Workers : Running(v)' => Running(v) /\ cur'[v] = cur[v]
  <1>. USE DEF Goto, Leave, Running, TypeOK, WorkerTypes, qVars, hVars
  <1>. DEFINE Quietly == /\ UNCHANGED <<incoming, private, started, batch, posted, delayed, reposted>>
                         /\ \A v \in Workers : Running(v)' => Running(v) /\ cur'[v] = cur[v]
  <1>1. TopDedicated(w) \/ TopLocal(w) \/ Observe(w) => Quietly
    BY DEF TopDedicated, TopLocal, Assign, Observe
  <1>2. Scan(w) => Quietly
    BY DEF Scan
  <1>3. Decide(w) \/ Wake(w) \/ WakeUnasked(w) => Quietly
    BY DEF Decide, Wake, WakeUnasked
  <1>4. Got(w) \/ PutBack(w) \/ FenceTest(w) \/ FenceWake(w) \/ AssignClaimed(w) => Quietly
    BY DEF Got, PutBack, FenceTest, FenceWake, AssignClaimed, Assign
  <1>5. Turned(w) \/ Recheck(w) \/ Unmark(w) \/ Requeue(w) => Quietly
    BY DEF Turned, Recheck, Unmark, Requeue
  <1>6. Park(w) \/ ParkWake(w) \/ ParkTimeout(w) \/ Release(w) \/ Released(w) => Quietly
    BY DEF Park, ParkWake, ParkTimeout, Release, Released
  <1>. QED
    BY <1>1, <1>2, <1>3, <1>4, <1>5, <1>6 DEF Work

(* Every step keeps the order. *)
LEMMA OrderStep ==
  ASSUME TypeOK, ClaimInv, OrderInv, [Next]_vars
  PROVE  OrderInv'
  <1>1. ASSUME NEW t \in Threads, Post(t)
        PROVE  OrderInv'
    BY <1>1, OrderFrame DEF Post, FindOwner, WakeDedicatedWorker, Enqueue, NotifyBump, NotifySignal,
      qVars, wVars, hVars, Running
  <1>2. ASSUME NEW w \in Workers, Work(w) \/ WakeUnasked(w) \/ ParkTimeout(w)
        PROVE  OrderInv'
    <2>1. CASE Take(w) \/ Finish(w)
      BY <2>1, TakeOrder, FinishOrder
    <2>2. CASE ~Take(w) /\ ~Finish(w)
      BY <1>2, <2>2, Rests, OrderFrame
    <2>. QED
      BY <2>1, <2>2
  <1>3. ASSUME PromoteReady \/ Fence \/ UNCHANGED vars
        PROVE  OrderInv'
    BY <1>3, OrderFrame DEF PromoteReady, Fence, BeginFence, CountFence, EndFence, SignalFence, vars,
      qVars, wVars, hVars, Running
  <1>. QED
    BY <1>1, <1>2, <1>3, PushOrder, PromoteOrder DEF Next

(* However many workers and queues there are: as long as no worker has kept a  *)
(* queue for itself, the tasks of a queue without delayed tasks start in the   *)
(* order they were posted, through shared queue, private queue and batch.      *)
THEOREM InOrderStarts == Spec => []InOrderUnlessReposted
  <1>1. Init => ClaimInv
    BY NoneAssumption DEF Init, ClaimInv, Marked, Exclusive, Devoted, NoLocal, Claims, Claiming
  <1>2. Init => OrderInv
    BY DEF Init, OrderInv, InLine, Increasing, Below, UpTo, Running
  <1>3. TypeOK /\ ClaimInv /\ OrderInv /\ [Next]_vars => ClaimInv' /\ OrderInv'
    BY ClaimStep, OrderStep
  <1>4. OrderInv => InOrderUnlessReposted
    BY DEF OrderInv, InLine, Increasing, InOrderUnlessReposted, InOrder
  <1>. QED
    BY <1>1, <1>2, <1>3, <1>4, TypeCorrect, PTL DEF Spec

----------------------------------------------------------------------------
(* The first place at which an element of a sequence is met. *)
LEMMA FirstMet ==
  ASSUME NEW S, NEW s \in Seq(S), NEW j \in DOMAIN s
  PROVE  \E i \in 1..j : s[i] = s[j] /\ \A k \in 1..i-1 : s[k] # s[j]
  <1>1. DOMAIN s = 1..Len(s) /\ Len(s) \in Nat
    BY LenProperties
  <1>2. PICK T : T = {i \in 1..j : s[i] = s[j]}
    OBVIOUS
  <1>3. T \subseteq Nat /\ j \in T
    BY <1>1, <1>2
  <1>4. PICK i \in T : \A y \in T : ~(<<y, i>> \in OpToRel(<, Nat))
    BY <1>3, NatLessThanWellFounded, WFMin
  <1>5. \A y \in T : ~(y < i)
    BY <1>3, <1>4 DEF OpToRel
  <1>. QED
    BY <1>1, <1>2, <1>5

(* What a sequence has. *)
LEMMA HasConcat ==
  ASSUME NEW S, NEW a \in Seq(S), NEW b \in Seq(S), NEW x, Has(a, x) \/ Has(b, x)
  PROVE  Has(a \o b, x)
  <1>1. PICK c \in Seq(S) : c = a \o b
    BY ConcatProperties
  <1>2. /\ Len(c) = Len(a) + Len(b)
        /\ \A i \in 1..Len(a) + Len(b) : c[i] = IF i <= Len(a) THEN a[i] ELSE b[i - Len(a)]
    BY <1>1, ConcatProperties
  <1>3. PICK m \in Nat, n \in Nat : m = Len(a) /\ n = Len(b)
    BY LenProperties
  <1>4. DOMAIN a = 1..m /\ DOMAIN b = 1..n /\ DOMAIN c = 1..m + n
    BY <1>2, <1>3, LenProperties
  <1>5. \A k \in 1..m : k \in 1..m + n /\ c[k] = a[k]
    BY <1>2, <1>3
  <1>6. ASSUME NEW k \in 1..n
        PROVE  m + k \in 1..m + n /\ c[m + k] = b[k]
    <2>1. m + k \in 1..m + n /\ ~(m + k <= m) /\ (m + k) - m = k
      OBVIOUS
    <2>2. c[m + k] = b[(m + k) - m]
      BY <1>2, <1>3, <2>1
    <2>. QED
      BY <2>1, <2>2
  <1>. QED
    BY <1>1, <1>4, <1>5, <1>6 DEF Has

(* What follows the first elements of a sequence has all the others. *)
LEMMA HasRest ==
  ASSUME NEW S, NEW s \in Seq(S), NEW n \in 0..Len(s)
  PROVE  /\ SubSeq(s, n + 1, Len(s)) \in Seq(S)
         /\ \A k \in n+1..Len(s) : Has(SubSeq(s, n + 1, Len(s)), s[k])
  <1>1. PICK m \in Nat : m = Len(s) /\ DOMAIN s = 1..m
    BY LenProperties
  <1>2. \A k \in n+1..m : s[k] \in S
    BY <1>1, ElementOfSeq
  <1>3. PICK b : b = SubSeq(s, n + 1, m)
    OBVIOUS
  <1>4. /\ b \in Seq(S)
        /\ Len(b) = IF n + 1 <= m THEN m - (n + 1) + 1 ELSE 0
        /\ \A i \in 1..m - (n + 1) + 1 : b[i] = s[(n + 1) + i - 1]
    <2>1. n + 1 \in Int /\ m \in Int
      BY <1>1
    <2>. QED
      BY <1>2, <1>3, <2>1, SubSeqProperties
  <1>5. ASSUME NEW k \in n+1..m
        PROVE  k - n \in DOMAIN b /\ b[k - n] = s[k]
    <2>1. k - n \in 1..m - (n + 1) + 1 /\ (n + 1) + (k - n) - 1 = k /\ n + 1 <= m
      BY <1>1
    <2>2. Len(b) = m - (n + 1) + 1 /\ DOMAIN b = 1..Len(b)
      BY <1>4, <2>1, LenProperties
    <2>3. b[k - n] = s[(n + 1) + (k - n) - 1]
      BY <1>4, <2>1
    <2>. QED
      BY <2>1, <2>2, <2>3
  <1>6. \A k \in n+1..m : Has(b, s[k])
    BY <1>5 DEF Has
  <1>. QED
    BY <1>1, <1>3, <1>4, <1>6

(* What is put into a heap is there, and so is all that was there before. *)
LEMMA HasInserted ==
  ASSUME NEW S, NEW h \in Seq(S), NEW i \in 0..Len(h), NEW q \in S, NEW x, x = q \/ Has(h, x)
  PROVE  Has(Inserted(h, i, q), x)
  <1>1. PICK m \in Nat : m = Len(h) /\ DOMAIN h = 1..m
    BY LenProperties
  <1>2. PICK a \in Seq(S) : a = SubSeq(h, 1, i) /\ \A k \in 1..i : Has(a, h[k])
    <2>1. \A k \in 1..i : h[k] \in S
      BY <1>1, ElementOfSeq
    <2>2. /\ SubSeq(h, 1, i) \in Seq(S)
          /\ Len(SubSeq(h, 1, i)) = IF 1 <= i THEN i - 1 + 1 ELSE 0
          /\ \A k \in 1..i - 1 + 1 : SubSeq(h, 1, i)[k] = h[1 + k - 1]
      BY <1>1, <2>1, SubSeqProperties
    <2>3. i - 1 + 1 = i /\ \A k \in 1..i : 1 + k - 1 = k
      BY <1>1
    <2>4. DOMAIN SubSeq(h, 1, i) = 1..Len(SubSeq(h, 1, i))
      BY <2>2, LenProperties
    <2>5. \A k \in 1..i : k \in DOMAIN SubSeq(h, 1, i) /\ SubSeq(h, 1, i)[k] = h[k]
      BY <1>1, <2>2, <2>3, <2>4
    <2>6. \A k \in 1..i : Has(SubSeq(h, 1, i), h[k])
      BY <2>5 DEF Has
    <2>. QED
      BY <2>2, <2>6
  <1>3. PICK b \in Seq(S) : b = SubSeq(h, i + 1, Len(h)) /\ \A k \in i+1..m : Has(b, h[k])
    BY <1>1, HasRest
  <1>4. PICK e \in Seq(S) : e = <<q>> /\ Has(e, q)
    <2>1. <<q>> \in Seq(S) /\ 1 \in DOMAIN <<q>> /\ <<q>>[1] = q
      OBVIOUS
    <2>. QED
      BY <2>1 DEF Has
  <1>5. PICK c \in Seq(S) : c = a \o e
    BY ConcatProperties
  <1>6. PICK d \in Seq(S) : d = c \o b
    BY ConcatProperties
  <1>7. d = Inserted(h, i, q)
    BY <1>2, <1>3, <1>4, <1>5, <1>6 DEF Inserted
  <1>8. Has(a, x) \/ Has(b, x) \/ Has(e, x)
    <2>1. CASE x = q
      BY <1>4, <2>1
    <2>2. CASE Has(h, x)
      <3>1. PICK k \in DOMAIN h : h[k] = x
        BY <2>2 DEF Has
      <3>2. k \in 1..i \/ k \in i+1..m
        BY <1>1
      <3>. QED
        BY <1>2, <1>3, <3>1, <3>2
    <2>. QED
      BY <2>1, <2>2
  <1>9. Has(c, x) \/ Has(b, x)
    BY <1>5, <1>8, HasConcat
  <1>10. Has(d, x)
    BY <1>6, <1>9, HasConcat
  <1>. QED
    BY <1>7, <1>10

(* An empty sequence, one with an element more, one with an element less. *)
LEMMA HasNothing ==
  ASSUME NEW x
  PROVE  ~Has(<<>>, x)
  BY DEF Has

(* One element more. *)
LEMMA HasAppended ==
  ASSUME NEW S, NEW s \in Seq(S), NEW e \in S, NEW x
  PROVE  Has(Append(s, e), x) <=> Has(s, x) \/ x = e
  <1>1. PICK n \in Nat : n = Len(s) /\ DOMAIN s = 1..n
    BY LenProperties
  <1>2. PICK r \in Seq(S) : /\ r = Append(s, e) /\ DOMAIN r = 1..n + 1
                            /\ r[n + 1] = e /\ \A i \in 1..n : r[i] = s[i]
    <2>1. PICK r \in Seq(S) : r = Append(s, e)
      BY AppendProperties
    <2>2. Len(r) = n + 1 /\ r[n + 1] = e /\ \A i \in 1..n : r[i] = s[i]
      BY <1>1, <2>1, AppendProperties
    <2>3. DOMAIN r = 1..n + 1
      BY <2>2, LenProperties
    <2>. QED
      BY <2>1, <2>2, <2>3
  <1>3. Has(r, x) => Has(s, x) \/ x = e
    BY <1>1, <1>2 DEF Has
  <1>4. Has(s, x) \/ x = e => Has(r, x)
    BY <1>1, <1>2 DEF Has
  <1>. QED
    BY <1>2, <1>3, <1>4

(* One element less. *)
LEMMA HasTail ==
  ASSUME NEW S, NEW s \in Seq(S), s # <<>>
  PROVE  /\ Has(s, Head(s))
         /\ \A x : Has(Tail(s), x) => Has(s, x)
  <1>1. PICK n \in Nat : n = Len(s) /\ DOMAIN s = 1..n /\ n # 0
    BY LenProperties, EmptySeq
  <1>2. Head(s) = s[1]
    BY HeadTailProperties
  <1>3. Has(s, Head(s))
    BY <1>1, <1>2 DEF Has
  <1>4. PICK r \in Seq(S) : r = Tail(s) /\ DOMAIN r = 1..n - 1 /\ \A i \in 1..n - 1 : r[i] = s[i + 1]
    <2>1. PICK r \in Seq(S) : r = Tail(s)
      BY HeadTailProperties
    <2>2. Len(r) = n - 1 /\ \A i \in 1..n - 1 : r[i] = s[i + 1]
      BY <1>1, <2>1, HeadTailProperties
    <2>3. DOMAIN r = 1..n - 1
      BY <2>2, LenProperties
    <2>. QED
      BY <2>1, <2>2, <2>3
  <1>5. \A x : Has(r, x) => Has(s, x)
    BY <1>1, <1>4 DEF Has
  <1>. QED
    BY <1>3, <1>4, <1>5

----------------------------------------------------------------------------
(* What the workers have in hand. *)
LEMMA HandWorkers ==
  ASSUME TypeOK, HandInv, NEW w \in Workers
  PROVE  /\ TopDedicated(w) => HandInv'
         /\ Observe(w) => HandInv'
         /\ Decide(w) => HandInv'
         /\ Wake(w) => HandInv'
         /\ Got(w) => HandInv'
         /\ PutBack(w) => HandInv'
         /\ FenceTest(w) => HandInv'
         /\ FenceWake(w) => HandInv'
         /\ Take(w) => HandInv'
         /\ Finish(w) => HandInv'
         /\ Recheck(w) => HandInv'
         /\ Unmark(w) => HandInv'
         /\ Requeue(w) => HandInv'
         /\ Park(w) => HandInv'
         /\ ParkWake(w) => HandInv'
         /\ Release(w) => HandInv'
         /\ Released(w) => HandInv'
         /\ WakeUnasked(w) => HandInv'
         /\ ParkTimeout(w) => HandInv'
         /\ Scan(w) => HandInv'
         /\ Turned(w) => HandInv'
  <1>. USE NoneAssumption, HasNothing DEF HandInv, Hand, SeekPC, TurnPC, DonePC, ParkPC,
           Busy, WorkerPC, TypeOK, WorkerTypes, PostTypes, Threads, Ready, Goto, Leave, Call, CallIf,
           gVars, wVars, pVars
  <1>1. TopDedicated(w) => HandInv'
    BY DEF TopDedicated
  <1>2. Observe(w) => HandInv'
    BY DEF Observe
  <1>3. Decide(w) => HandInv'
    BY DEF Decide
  <1>4. Wake(w) => HandInv'
    BY DEF Wake
  <1>5. Got(w) => HandInv'
    BY DEF Got
  <1>6. PutBack(w) => HandInv'
    BY DEF PutBack
  <1>7. FenceTest(w) => HandInv'
    BY DEF FenceTest
  <1>8. FenceWake(w) => HandInv'
    BY DEF FenceWake
  <1>9. Take(w) => HandInv'
    BY DEF Take, Running
  <1>10. Finish(w) => HandInv'
    BY DEF Finish, Running
  <1>11. Recheck(w) => HandInv'
    BY DEF Recheck
  <1>12. Unmark(w) => HandInv'
    BY DEF Unmark
  <1>13. Requeue(w) => HandInv'
    BY DEF Requeue
  <1>14. Park(w) => HandInv'
    BY DEF Park
  <1>15. ParkWake(w) => HandInv'
    BY DEF ParkWake
  <1>16. Release(w) => HandInv'
    BY DEF Release
  <1>17. Released(w) => HandInv'
    BY DEF Released
  <1>18. WakeUnasked(w) => HandInv'
    BY DEF WakeUnasked
  <1>19. ParkTimeout(w) => HandInv'
    BY DEF ParkTimeout
  <1>20. ASSUME Scan(w)
        PROVE  HandInv'
    <2>1. UNCHANGED <<gVars, ded, local, pVars>> /\ pc[w] = "scan"
      BY <1>20 DEF Scan
    <2>2. CASE Allowed(at[w]) = {}
      <3>1. PICK l \in {"decide", "scan"} : Goto(w, l)
        BY <1>20, <2>2 DEF Scan
      <3>2. UNCHANGED cur
        BY <1>20, <2>2 DEF Scan
      <3>. QED
        BY <2>1, <3>1, <3>2
    <2>3. CASE Allowed(at[w]) # {}
      <3>1. PICK k : cur' = [cur EXCEPT ![w] = k] /\ Goto(w, "got")
        BY <1>20, <2>3 DEF Scan
      <3>. QED
        BY <2>1, <3>1
    <2>. QED
      BY <2>2, <2>3
  <1>21. ASSUME Turned(w)
        PROVE  HandInv'
    <2>1. UNCHANGED <<gVars, ded, local, pVars>> /\ pc[w] = "turned"
      BY <1>21 DEF Turned
    <2>2. CASE ded[w] = None
      <3>1. Goto(w, "recheck") /\ UNCHANGED cur
        BY <1>21, <2>2 DEF Turned
      <3>. QED
        BY <2>1, <2>2, <3>1
    <2>3. CASE ded[w] # None
      <3>1. Leave(w, "top") \/ (Goto(w, "park") /\ UNCHANGED cur)
        BY <1>21, <2>3 DEF Turned
      <3>2. CASE Leave(w, "top")
        BY <2>1, <2>3, <3>2
      <3>3. CASE Goto(w, "park") /\ UNCHANGED cur
        BY <2>1, <2>3, <3>3
      <3>. QED
        BY <3>1, <3>2, <3>3
    <2>. QED
      BY <2>2, <2>3
  <1>. QED
    BY <1>1, <1>2, <1>3, <1>4, <1>5, <1>6, <1>7, <1>8, <1>9, <1>10, <1>11, <1>12, <1>13, <1>14,
       <1>15, <1>16, <1>17, <1>18, <1>19, <1>20, <1>21

(* A worker that becomes, or fails to become, the owner of a queue. *)
LEMMA HandAssign ==
  ASSUME TypeOK, HandInv, NEW w \in Workers, NEW q \in Dedicated, Assign(w, q), Ready(w),
         pc[w] \in {"top", "assign"}, ded[w] = None, UNCHANGED <<gVars, pVars>>,
         \A v \in Workers \ {w} : local'[v] = local[v],
         \A p \in Queues : Has(local'[w], p) => p = q
  PROVE  HandInv'
  <1>. USE NoneAssumption, DedicatedAssumption, HasNothing DEF HandInv, Hand, SeekPC, TurnPC, DonePC, ParkPC,
           Busy, WorkerPC, TypeOK, WorkerTypes, PostTypes, Threads, Ready, Goto, Leave, Call, CallIf,
           gVars, wVars, pVars
  <1>1. CASE owner[q] \in {None, w}
    <2>1. ded' = [ded EXCEPT ![w] = q] /\ cur' = [cur EXCEPT ![w] = q] /\ Goto(w, "take")
      BY <1>1 DEF Assign
    <2>. QED
      BY <2>1
  <1>2. CASE owner[q] \notin {None, w}
    <2>1. Leave(w, "top") /\ UNCHANGED ded
      BY <1>2 DEF Assign
    <2>2. Hand(w)'
      BY <2>1
    <2>3. \A v \in Workers \ {w} : Hand(v)'
      BY <2>1
    <2>. HIDE DEF Hand
    <2>. QED
      BY <2>2, <2>3
  <1>. QED
    BY <1>1, <1>2

(* A queue that was claimed, or that comes from the local queue, is taken up. *)
LEMMA HandLocal ==
  ASSUME TypeOK, HandInv, NEW w \in Workers
  PROVE  (AssignClaimed(w) => HandInv') /\ (TopLocal(w) => HandInv')
  <1>1. ASSUME AssignClaimed(w)
        PROVE  HandInv'
    <2>1. /\ pc[w] = "assign" /\ Assign(w, cur[w]) /\ UNCHANGED <<gVars, pVars, local>>
          /\ Hand(w)
      BY <1>1 DEF AssignClaimed, HandInv
    <2>2. ded[w] = None /\ local[w] = <<>> /\ cur[w] \in Dedicated /\ Ready(w)
      BY <2>1 DEF Hand, SeekPC
    <2>. QED
      BY <2>1, <2>2, HandAssign, HasNothing
  <1>2. ASSUME TopLocal(w)
        PROVE  HandInv'
    <2>1. /\ pc[w] = "top" /\ Ready(w) /\ ded[w] = None /\ local[w] # <<>> /\ UNCHANGED <<gVars, pVars>>
          /\ local' = [local EXCEPT ![w] = Tail(@)] /\ Hand(w)
      BY <1>2 DEF TopLocal, HandInv
    <2>2. local[w] \in Seq(Queues) /\ local \in [Workers -> Seq(Queues)]
      BY DEF TypeOK, WorkerTypes
    <2>3. PICK q \in Queues : q = Head(local[w]) /\ Has(local[w], q)
      BY <2>1, <2>2, HasTail, HeadTailProperties
    <2>4. \A p \in Queues : Has(local'[w], p) => p = q
      <3>1. local'[w] = Tail(local[w])
        BY <2>1, <2>2
      <3>2. \A p \in Queues : Has(Tail(local[w]), p) => Has(local[w], p)
        BY <2>1, <2>2, HasTail
      <3>. QED
        BY <2>1, <2>3, <3>1, <3>2 DEF Hand
    <2>5. \A v \in Workers \ {w} : local'[v] = local[v]
      BY <2>1, <2>2
    <2>6. CASE q \in Dedicated
      <3>1. Assign(w, q)
        BY <1>2, <2>3, <2>6 DEF TopLocal
      <3>. QED
        BY <2>1, <2>4, <2>5, <2>6, <3>1, HandAssign
    <2>7. CASE q \notin Dedicated
      <3>1. Goto(w, "take") /\ cur' = [cur EXCEPT ![w] = q] /\ UNCHANGED ded
        BY <1>2, <2>3, <2>7 DEF TopLocal
      <3>. QED
        BY <2>1, <2>4, <2>5, <2>7, <3>1, NoneAssumption DEF HandInv, Hand, SeekPC, TurnPC,
           DonePC, ParkPC, Busy,
          WorkerPC, TypeOK, WorkerTypes, Ready, Goto, gVars, pVars
    <2>. QED
      BY <2>6, <2>7
  <1>. QED
    BY <1>1, <1>2

(* Every step keeps what the workers have in hand in order. *)
LEMMA HandStep ==
  ASSUME TypeOK, HandInv, [Next]_vars
  PROVE  HandInv'
  <1>1. ASSUME NEW t \in Threads, Post(t)
        PROVE  HandInv'
    <2>. USE DEF HandInv, Hand, Ready, Call, Done, TypeOK, PostTypes, Threads, wVars, gVars
    <2>1. CASE FindOwner(t)
      BY <2>1 DEF FindOwner
    <2>2. CASE WakeDedicatedWorker(t)
      BY <2>2 DEF WakeDedicatedWorker
    <2>3. CASE Enqueue(t)
      BY <2>3 DEF Enqueue
    <2>4. CASE NotifyBump(t)
      BY <2>4 DEF NotifyBump
    <2>5. CASE NotifySignal(t)
      BY <2>5 DEF NotifySignal
    <2>. QED
      BY <1>1, <2>1, <2>2, <2>3, <2>4, <2>5 DEF Post
  <1>2. ASSUME NEW t \in Workers \cup Posters, NEW q \in Queues, Push(t, q)
        PROVE  HandInv'
    <2>1. /\ Ready(t) /\ UNCHANGED <<gVars, pc, cur, ded>>
          /\ t \in Workers => Running(t)
      BY <1>2 DEF Push
    <2>2. CASE UNCHANGED <<pVars, local>>
      BY <2>1, <2>2 DEF HandInv, Hand, Ready, pVars, gVars
    <2>3. CASE t \in Workers /\ cur[t] = q /\ local' = [local EXCEPT ![t] = Append(@, q)] /\ UNCHANGED pVars
      <3>1. local[t] \in Seq(Queues) /\ local \in [Workers -> Seq(Queues)]
        BY <2>3 DEF TypeOK, WorkerTypes
      <3>2. \A p \in Queues : Has(local'[t], p) => Has(local[t], p) \/ p = q
        BY <2>3, <3>1, HasAppended
      <3>3. Hand(t)
        BY <2>3 DEF HandInv
      <3>4. pc[t] \in {"run", "runfull"}
        BY <2>1, <2>3 DEF Running
      <3>5. Hand(t)'
        BY <2>1, <2>3, <3>2, <3>3, <3>4 DEF Hand, SeekPC, TurnPC, DonePC, ParkPC, Busy,
           WorkerPC, Ready, pVars, gVars
      <3>6. \A v \in Workers \ {t} : Hand(v)'
        BY <2>1, <2>3, <3>1 DEF HandInv, Hand, Ready, pVars, gVars
      <3>. QED
        BY <3>5, <3>6 DEF HandInv
    <2>4. CASE UNCHANGED local /\ \E l \in {"owner", "enq"} : Call(t, l, q)
      BY <2>1, <2>4 DEF HandInv, Hand, SeekPC, Ready, Running, Call, TypeOK, PostTypes,
         Threads, gVars
    <2>. QED
      BY <1>2, <2>2, <2>3, <2>4 DEF Push, ReEnqueueTaskQueue, pVars
  <1>3. ASSUME NEW q \in Queues, Promote(q)
        PROVE  HandInv'
    BY <1>3, ThreadAssumption DEF Promote, HandInv, Hand, Ready, Call, TypeOK, PostTypes,
       Threads, wVars, gVars
  <1>4. CASE PromoteReady
    BY <1>4, ThreadAssumption DEF PromoteReady, HandInv, Hand, Ready, Call, Done, TypeOK,
       PostTypes, Threads, wVars, gVars
  <1>5. CASE Fence
    BY <1>5 DEF Fence, BeginFence, CountFence, EndFence, SignalFence, HandInv, Hand, Ready,
       wVars, gVars, pVars
  <1>6. ASSUME NEW w \in Workers, Work(w) \/ WakeUnasked(w) \/ ParkTimeout(w)
        PROVE  HandInv'
    BY <1>6, HandWorkers, HandLocal DEF Work
  <1>7. CASE UNCHANGED vars
    BY <1>7 DEF vars, HandInv, Hand, Ready, wVars, gVars, pVars
  <1>. QED
    BY <1>1, <1>2, <1>3, <1>4, <1>5, <1>6, <1>7 DEF Next

----------------------------------------------------------------------------
(* Who owns what.  Most workers move on without touching it. *)
Stays(w) ==
  /\ UNCHANGED <<owner, ded, private>>
  /\ withdrawn \subseteq withdrawn'
  /\ \A v \in Workers \ {w} : pc'[v] = pc[v] /\ cur'[v] = cur[v]
  /\ pc[w] # "released" /\ pc'[w] # "released"
  /\ pc'[w] = "parked" => private[cur'[w]] = <<>>

(* A step that leaves the owners alone keeps OwnerInv. *)
LEMMA OwnerStays ==
  ASSUME OwnerInv, NEW w \in Workers, Stays(w)
  PROVE  OwnerInv'
  <1>1. \A v \in Workers, q \in Queues : owner'[q] = v <=> ded'[v] = q /\ pc'[v] # "released"
    BY DEF OwnerInv, Stays
  <1>2. \A v \in Workers : pc'[v] = "released" => cur'[v] \in withdrawn'
    BY DEF OwnerInv, Stays
  <1>3. \A q \in Queues : private'[q] # <<>> => q \in Dedicated /\ (owner'[q] # None \/ q \in withdrawn')
    BY DEF OwnerInv, Stays
  <1>4. \A v \in Workers : pc'[v] = "parked" => private'[cur'[v]] = <<>>
    BY DEF OwnerInv, Stays
  <1>. QED
    BY <1>1, <1>2, <1>3, <1>4 DEF OwnerInv

(* The steps of a worker that leave the owners alone. *)
LEMMA WorkerStays ==
  ASSUME TypeOK, NEW w \in Workers
  PROVE  /\ TopDedicated(w) => Stays(w)
         /\ Observe(w) => Stays(w)
         /\ Decide(w) => Stays(w)
         /\ Wake(w) => Stays(w)
         /\ Got(w) => Stays(w)
         /\ PutBack(w) => Stays(w)
         /\ FenceTest(w) => Stays(w)
         /\ FenceWake(w) => Stays(w)
         /\ Finish(w) => Stays(w)
         /\ Recheck(w) => Stays(w)
         /\ Unmark(w) => Stays(w)
         /\ Requeue(w) => Stays(w)
         /\ Park(w) => Stays(w)
         /\ ParkWake(w) => Stays(w)
         /\ ParkTimeout(w) => Stays(w)
         /\ WakeUnasked(w) => Stays(w)
         /\ Turned(w) => Stays(w)
         /\ Scan(w) => Stays(w)
  <1>. USE DEF Stays, TypeOK, WorkerTypes, Goto, Leave, qVars, sVars, wVars, hVars
  <1>1. TopDedicated(w) => Stays(w)
    BY DEF TopDedicated
  <1>2. Observe(w) => Stays(w)
    BY DEF Observe
  <1>3. Decide(w) => Stays(w)
    BY DEF Decide
  <1>4. Wake(w) => Stays(w)
    BY DEF Wake
  <1>5. Got(w) => Stays(w)
    BY DEF Got
  <1>6. PutBack(w) => Stays(w)
    BY DEF PutBack
  <1>7. FenceTest(w) => Stays(w)
    BY DEF FenceTest
  <1>8. FenceWake(w) => Stays(w)
    BY DEF FenceWake
  <1>9. Finish(w) => Stays(w)
    BY DEF Finish, Running
  <1>10. Recheck(w) => Stays(w)
    BY DEF Recheck
  <1>11. Unmark(w) => Stays(w)
    BY DEF Unmark
  <1>12. Requeue(w) => Stays(w)
    BY DEF Requeue
  <1>13. Park(w) => Stays(w)
    BY DEF Park, HasWorkOnConsumerSide
  <1>14. ParkWake(w) => Stays(w)
    BY DEF ParkWake
  <1>15. ParkTimeout(w) => Stays(w)
    BY DEF ParkTimeout
  <1>16. WakeUnasked(w) => Stays(w)
    BY DEF WakeUnasked
  <1>17. Turned(w) => Stays(w)
    BY DEF Turned
  <1>18. ASSUME Scan(w)
        PROVE  Stays(w)
    <2>1. UNCHANGED <<owner, ded, private, withdrawn>> /\ pc[w] = "scan"
      BY <1>18 DEF Scan
    <2>2. CASE Allowed(at[w]) = {}
      <3>1. PICK l \in {"decide", "scan"} : Goto(w, l)
        BY <1>18, <2>2 DEF Scan
      <3>2. UNCHANGED cur
        BY <1>18, <2>2 DEF Scan
      <3>. QED
        BY <2>1, <3>1, <3>2
    <2>3. CASE Allowed(at[w]) # {}
      <3>1. PICK k : cur' = [cur EXCEPT ![w] = k] /\ Goto(w, "got")
        BY <1>18, <2>3 DEF Scan
      <3>. QED
        BY <2>1, <3>1
    <2>. QED
      BY <2>2, <2>3
  <1>. QED
    BY <1>1, <1>2, <1>3, <1>4, <1>5, <1>6, <1>7, <1>8, <1>9, <1>10, <1>11, <1>12, <1>13, <1>14,
       <1>15, <1>16, <1>17, <1>18

(* A worker becomes the owner of a queue that has none. *)
LEMMA OwnerAssign ==
  ASSUME TypeOK, OwnerInv, NEW w \in Workers, NEW q \in Dedicated, Assign(w, q),
         pc[w] \in {"top", "assign"}, ded[w] = None, UNCHANGED <<private, withdrawn>>
  PROVE  OwnerInv'
  <1>. USE NoneAssumption, DedicatedAssumption DEF TypeOK, SourceTypes, WorkerTypes
  <1>1. CASE owner[q] \in {None, w}
    <2>1. /\ ded' = [ded EXCEPT ![w] = q] /\ cur' = [cur EXCEPT ![w] = q] /\ Goto(w, "take")
          /\ owner' = [owner EXCEPT ![q] = w]
      BY <1>1 DEF Assign
    <2>2. owner[q] = None
      BY <1>1 DEF OwnerInv
    <2>3. \A v \in Workers, p \in Queues : owner'[p] = v <=> ded'[v] = p /\ pc'[v] # "released"
      BY <2>1, <2>2 DEF OwnerInv, Goto
    <2>4. \A v \in Workers : pc'[v] = "released" => cur'[v] \in withdrawn'
      BY <2>1 DEF OwnerInv, Goto
    <2>5. \A p \in Queues : private'[p] # <<>> => p \in Dedicated /\ (owner'[p] # None \/ p \in withdrawn')
      BY <2>1 DEF OwnerInv
    <2>6. \A v \in Workers : pc'[v] = "parked" => private'[cur'[v]] = <<>>
      BY <2>1 DEF OwnerInv, Goto
    <2>. QED
      BY <2>3, <2>4, <2>5, <2>6 DEF OwnerInv
  <1>2. CASE owner[q] \notin {None, w}
    <2>1. Leave(w, "top") /\ UNCHANGED <<owner, ded>>
      BY <1>2 DEF Assign
    <2>2. Stays(w)
      BY <2>1 DEF Stays, Leave, Goto
    <2>. QED
      BY <2>2, OwnerStays
  <1>. QED
    BY <1>1, <1>2

(* A queue that was claimed, or that comes from the local queue, gets its owner. *)
LEMMA OwnerLocal ==
  ASSUME TypeOK, HandInv, OwnerInv, NEW w \in Workers
  PROVE  (AssignClaimed(w) => OwnerInv') /\ (TopLocal(w) => OwnerInv')
  <1>1. ASSUME AssignClaimed(w)
        PROVE  OwnerInv'
    <2>1. pc[w] = "assign" /\ Assign(w, cur[w]) /\ UNCHANGED <<private, withdrawn>>
      BY <1>1 DEF AssignClaimed, qVars, hVars
    <2>2. ded[w] = None /\ cur[w] \in Dedicated
      BY <2>1 DEF HandInv, Hand, SeekPC
    <2>. QED
      BY <2>1, <2>2, OwnerAssign
  <1>2. ASSUME TopLocal(w)
        PROVE  OwnerInv'
    <2>1. pc[w] = "top" /\ ded[w] = None /\ UNCHANGED <<private, withdrawn>>
      BY <1>2 DEF TopLocal, qVars, hVars
    <2>2. CASE Head(local[w]) \in Dedicated
      <3>1. Assign(w, Head(local[w]))
        BY <1>2, <2>2 DEF TopLocal
      <3>. QED
        BY <2>1, <2>2, <3>1, OwnerAssign
    <2>3. CASE Head(local[w]) \notin Dedicated
      <3>1. PICK k : Goto(w, "take") /\ cur' = [cur EXCEPT ![w] = k] /\ UNCHANGED <<owner, ded>>
        BY <1>2, <2>3 DEF TopLocal
      <3>2. Stays(w)
        BY <2>1, <3>1 DEF Stays, Goto, TypeOK, WorkerTypes
      <3>. QED
        BY <3>2, OwnerStays
    <2>. QED
      BY <2>2, <2>3
  <1>. QED
    BY <1>1, <1>2

(* An owner takes from its queue; it releases it; it has released it. *)
LEMMA OwnerTake ==
  ASSUME TypeOK, HandInv, OwnerInv, NEW w \in Workers, Take(w)
  PROVE  OwnerInv'
  <1>1. /\ pc[w] = "take" /\ UNCHANGED <<owner, ded, cur, withdrawn>>
        /\ \E l \in {"turned", "run", "runfull"} : Goto(w, l)
    BY DEF Take, sVars
  <1>2. PICK q \in Queues : q = cur[w]
    BY <1>1 DEF TypeOK, WorkerTypes, Busy, WorkerPC
  <1>3. \A p \in Queues \ {q} : private'[p] = private[p]
    BY <1>2 DEF Take, TypeOK, QueueTypes, qVars
  <1>4. q \notin Dedicated => UNCHANGED private
    BY <1>2 DEF Take, qVars
  <1>5. q \in Dedicated => ded[w] = q /\ owner[q] = w
    BY <1>1, <1>2 DEF HandInv, Hand, TurnPC, OwnerInv
  <1>6. ASSUME NEW v \in Workers, pc'[v] = "parked"
        PROVE  private'[cur'[v]] = <<>>
    <2>1. v # w /\ pc[v] = "parked"
      BY <1>1, <1>6 DEF Goto, TypeOK, WorkerTypes
    <2>2. cur[v] \in Queues /\ ded[v] = cur[v] /\ owner[cur[v]] = v
      BY <2>1 DEF HandInv, Hand, ParkPC, OwnerInv, TypeOK, WorkerTypes, Busy, WorkerPC
    <2>3. cur[v] # q \/ q \notin Dedicated
      BY <1>5, <2>1, <2>2
    <2>. QED
      BY <1>1, <1>3, <1>4, <2>1, <2>2, <2>3 DEF OwnerInv
  <1>7. \A p \in Queues : private'[p] # <<>> => p \in Dedicated /\ (owner'[p] # None \/ p \in withdrawn')
    <2>. SUFFICES ASSUME NEW p \in Queues, private'[p] # <<>>
                  PROVE  p \in Dedicated /\ (owner[p] # None \/ p \in withdrawn)
      BY <1>1
    <2>1. CASE p = q /\ q \in Dedicated
      BY <1>5, <2>1, NoneAssumption
    <2>2. CASE ~(p = q /\ q \in Dedicated)
      BY <1>3, <1>4, <2>2 DEF OwnerInv
    <2>. QED
      BY <2>1, <2>2
  <1>8. \A v \in Workers : /\ pc'[v] = "released" <=> pc[v] = "released"
                           /\ cur'[v] = cur[v]
    BY <1>1 DEF Goto, TypeOK, WorkerTypes
  <1>. QED
    BY <1>1, <1>6, <1>7, <1>8 DEF OwnerInv

(* An owner releases its queue, and is done with it. *)
LEMMA OwnerRelease ==
  ASSUME TypeOK, HandInv, OwnerInv, NEW w \in Workers
  PROVE  (Release(w) => OwnerInv') /\ (Released(w) => OwnerInv')
  <1>. USE NoneAssumption DEF TypeOK, SourceTypes, WorkerTypes
  <1>1. ASSUME Release(w)
        PROVE  OwnerInv'
    <2>1. /\ pc[w] = "release" /\ Goto(w, "released") /\ UNCHANGED <<ded, cur, private>>
          /\ owner' = [owner EXCEPT ![cur[w]] = None]
          /\ withdrawn' = withdrawn \cup {cur[w]}
      BY <1>1 DEF Release, qVars
    <2>2. cur[w] \in Queues /\ ded[w] = cur[w]
      BY <2>1 DEF HandInv, Hand, ParkPC, Busy, WorkerPC
    <2>3. \A v \in Workers, p \in Queues : owner'[p] = v <=> ded'[v] = p /\ pc'[v] # "released"
      BY <2>1, <2>2 DEF OwnerInv, Goto
    <2>4. \A v \in Workers : pc'[v] = "released" => cur'[v] \in withdrawn'
      BY <2>1 DEF OwnerInv, Goto
    <2>5. \A p \in Queues : private'[p] # <<>> => p \in Dedicated /\ (owner'[p] # None \/ p \in withdrawn')
      BY <2>1 DEF OwnerInv
    <2>6. \A v \in Workers : pc'[v] = "parked" => private'[cur'[v]] = <<>>
      BY <2>1 DEF OwnerInv, Goto
    <2>. QED
      BY <2>3, <2>4, <2>5, <2>6 DEF OwnerInv
  <1>2. ASSUME Released(w)
        PROVE  OwnerInv'
    <2>1. /\ pc[w] = "released" /\ Leave(w, "top") /\ UNCHANGED <<owner, private, withdrawn>>
          /\ ded' = [ded EXCEPT ![w] = None]
      BY <1>2 DEF Released, qVars, sVars, hVars
    <2>3. \A v \in Workers, p \in Queues : owner'[p] = v <=> ded'[v] = p /\ pc'[v] # "released"
      BY <2>1 DEF OwnerInv, Goto, Leave
    <2>4. \A v \in Workers : pc'[v] = "released" => cur'[v] \in withdrawn'
      BY <2>1 DEF OwnerInv, Goto, Leave
    <2>5. \A p \in Queues : private'[p] # <<>> => p \in Dedicated /\ (owner'[p] # None \/ p \in withdrawn')
      BY <2>1 DEF OwnerInv
    <2>6. \A v \in Workers : pc'[v] = "parked" => private'[cur'[v]] = <<>>
      BY <2>1 DEF OwnerInv, Goto, Leave
    <2>. QED
      BY <2>3, <2>4, <2>5, <2>6 DEF OwnerInv
  <1>. QED
    BY <1>1, <1>2

(* Every step keeps OwnerInv. *)
LEMMA OwnerStep ==
  ASSUME TypeOK, HandInv, OwnerInv, [Next]_vars
  PROVE  OwnerInv'
  <1>1. ASSUME NEW w \in Workers, Work(w) \/ WakeUnasked(w) \/ ParkTimeout(w)
        PROVE  OwnerInv'
    BY <1>1, OwnerStays, WorkerStays, OwnerLocal, OwnerTake, OwnerRelease DEF Work
  <1>2. CASE UNCHANGED <<owner, ded, private, withdrawn, pc, cur>>
    BY <1>2 DEF OwnerInv
  <1>3. ASSUME NEW t \in Threads, Post(t)
        PROVE  UNCHANGED <<owner, ded, private, withdrawn, pc, cur>>
    BY <1>3 DEF Post, FindOwner, WakeDedicatedWorker, Enqueue, NotifyBump, NotifySignal, qVars,
       sVars, wVars, hVars
  <1>4. ASSUME NEW t \in Workers \cup Posters, NEW q \in Queues, Push(t, q)
        PROVE  UNCHANGED <<owner, ded, private, withdrawn, pc, cur>>
    BY <1>4 DEF Push, sVars
  <1>5. ASSUME (\E q \in Queues : Promote(q)) \/ PromoteReady \/ Fence \/ UNCHANGED vars
        PROVE  UNCHANGED <<owner, ded, private, withdrawn, pc, cur>>
    BY <1>5 DEF Promote, PromoteReady, Fence, BeginFence, CountFence, EndFence, SignalFence,
       vars, qVars, sVars, wVars, hVars
  <1>. QED
    BY <1>1, <1>2, <1>3, <1>4, <1>5 DEF Next

----------------------------------------------------------------------------
(* What a scan does.  Either it empties the shard, whose marked queues are all *)
(* claimed, and goes on to the next; or it claims a queue.                     *)
Sweeps(w) ==
  /\ UNCHANGED <<has_worker, cur>>
  /\ at' = [at EXCEPT ![w] = Following(at[w])]
  /\ Goto(w, IF at[w] = Shards - 1 THEN "decide" ELSE "scan")
  /\ \A q \in Queues : ShardOf[q] = at[w] => ~queued'[q]
Picks(w, k) ==
  /\ queued[k] /\ ~queued'[k] /\ ~has_worker[k]
  /\ has_worker' = [has_worker EXCEPT ![k] = TRUE]
  /\ cur' = [cur EXCEPT ![w] = k]
  /\ Goto(w, "got")

(* A marked entry that the scan of its shard may not take belongs to a claimed queue. *)
LEMMA ScanPasses ==
  ASSUME TypeOK, NEW s \in 0..Shards-1, NEW j \in DOMAIN heap[s],
         \A i \in 1..j : heap[s][i] = heap[s][j] => i \notin Allowed(s),
         queued[heap[s][j]]
  PROVE  has_worker[heap[s][j]]
  <1>1. heap[s] \in Seq(Queues)
    BY DEF TypeOK, SourceTypes
  <1>2. PICK i \in 1..j : heap[s][i] = heap[s][j] /\ \A k \in 1..i-1 : heap[s][k] # heap[s][j]
    BY <1>1, FirstMet
  <1>3. i \in DOMAIN heap[s]
    BY <1>1, LenProperties
  <1>. QED
    BY <1>2, <1>3 DEF Allowed

(* A scan loses the entry of a queue only if it picks the queue or the queue is claimed. *)
LEMMA ScanOutcome ==
  ASSUME TypeOK, EntryInv, NEW w \in Workers, Scan(w)
  PROVE  /\ EntryInv'
         /\ \A q \in Queues : queued'[q] => queued[q]
         /\ Sweeps(w) \/ \E k \in Queues : Picks(w, k)
         /\ \A q \in Queues : queued[q] /\ ~queued'[q] =>
              has_worker[q] \/ (pc'[w] = "got" /\ cur'[w] = q)
  <1>1. PICK s \in 0..Shards-1 : s = at[w]
    BY DEF TypeOK, WorkerTypes
  <1>2. PICK h \in Seq(Queues) : h = heap[s]
    BY DEF TypeOK, SourceTypes
  <1>3. PICK m \in Nat : m = Len(h) /\ DOMAIN h = 1..m
    BY LenProperties
  <1>4. heap \in [0..Shards-1 -> Seq(Queues)] /\ queued \in [Queues -> BOOLEAN] /\ ShardOf \in [Queues -> 0..Shards-1]
    BY ShardAssumption DEF TypeOK, SourceTypes
  <1>5. CASE Allowed(s) = {}
    <2>1. /\ heap' = [heap EXCEPT ![s] = <<>>]
          /\ queued' = [q \in Queues |-> queued[q] /\ q \notin Popped(s, m)]
          /\ at' = [at EXCEPT ![w] = Following(s)]
          /\ Goto(w, IF s = Shards - 1 THEN "decide" ELSE "scan")
          /\ UNCHANGED <<has_worker, cur>>
      BY <1>1, <1>2, <1>3, <1>5 DEF Scan
    <2>2. \A q \in Queues : queued'[q] => queued[q] /\ q \notin Popped(s, m)
      BY <2>1
    <2>3. \A q \in Queues : Has(h, q) => q \in Popped(s, m)
      BY <1>2, <1>3 DEF Has, Popped
    <2>4. \A q \in Queues : ShardOf[q] = s => ~queued'[q]
      BY <1>2, <2>2, <2>3 DEF EntryInv
    <2>5. EntryInv'
      <3>. SUFFICES ASSUME NEW q \in Queues, queued'[q]
                    PROVE  Has(heap'[ShardOf[q]], q)
        BY DEF EntryInv
      <3>1. ShardOf[q] # s /\ queued[q]
        BY <2>2, <2>4
      <3>2. heap'[ShardOf[q]] = heap[ShardOf[q]]
        BY <1>4, <2>1, <3>1
      <3>. QED
        BY <3>1, <3>2 DEF EntryInv
    <2>6. Sweeps(w)
      BY <1>1, <2>1, <2>4 DEF Sweeps
    <2>7. ASSUME NEW q \in Queues, queued[q], ~queued'[q]
          PROVE  has_worker[q]
      <3>1. q \in Popped(s, m)
        BY <1>4, <2>1, <2>7
      <3>2. PICK j \in 1..m : h[j] = q
        BY <1>2, <3>1 DEF Popped
      <3>. QED
        BY <1>2, <1>3, <1>5, <2>7, <3>2, ScanPasses
    <2>. QED
      BY <2>2, <2>5, <2>6, <2>7
  <1>6. CASE Allowed(s) # {}
    <2>1. PICK n \in Allowed(s) :
            /\ \A i \in Allowed(s) : n <= i
            /\ heap' = [heap EXCEPT ![s] = SubSeq(@, n + 1, Len(@))]
            /\ queued' = [q \in Queues |-> queued[q] /\ q \notin Popped(s, n)]
            /\ has_worker' = [has_worker EXCEPT ![heap[s][n]] = TRUE]
            /\ cur' = [cur EXCEPT ![w] = heap[s][n]]
            /\ Goto(w, "got")
      BY <1>1, <1>6 DEF Scan
    <2>2. n \in 1..m
      BY <1>2, <1>3, <2>1 DEF Allowed
    <2>3. PICK k \in Queues : k = h[n]
      BY <1>3, <2>2, ElementOfSeq
    <2>4. queued[k] /\ ~has_worker[k]
      BY <1>2, <2>1, <2>3 DEF Allowed
    <2>5. \A q \in Queues : queued'[q] => queued[q] /\ q \notin Popped(s, n)
      BY <2>1
    <2>6. k \in Popped(s, n)
      BY <1>2, <2>2, <2>3 DEF Popped
    <2>7. Picks(w, k)
      BY <1>2, <2>1, <2>3, <2>4, <2>5, <2>6 DEF Picks
    <2>8. EntryInv'
      <3>. SUFFICES ASSUME NEW q \in Queues, queued'[q]
                    PROVE  Has(heap'[ShardOf[q]], q)
        BY DEF EntryInv
      <3>1. queued[q] /\ q \notin Popped(s, n) /\ Has(heap[ShardOf[q]], q)
        BY <2>5 DEF EntryInv
      <3>2. CASE ShardOf[q] # s
        BY <1>4, <2>1, <3>1, <3>2
      <3>3. CASE ShardOf[q] = s
        <4>1. PICK j \in 1..m : h[j] = q
          BY <1>2, <1>3, <3>1, <3>3 DEF Has
        <4>2. j \in n+1..m
          BY <1>2, <2>2, <3>1, <4>1 DEF Popped
        <4>3. Has(SubSeq(h, n + 1, Len(h)), h[j])
          BY <1>3, <2>2, <4>2, HasRest
        <4>4. heap'[s] = SubSeq(h, n + 1, Len(h))
          BY <1>2, <1>4, <2>1
        <4>. QED
          BY <3>3, <4>1, <4>3, <4>4
      <3>. QED
        BY <3>2, <3>3
    <2>9. ASSUME NEW q \in Queues, queued[q], ~queued'[q]
          PROVE  has_worker[q] \/ (pc'[w] = "got" /\ cur'[w] = q)
      <3>1. q \in Popped(s, n)
        BY <1>4, <2>1, <2>9
      <3>2. PICK j \in 1..n : h[j] = q
        BY <1>2, <3>1 DEF Popped
      <3>3. CASE q = k
        BY <2>1, <2>3, <1>2, <3>3 DEF Goto, TypeOK, WorkerTypes
      <3>4. CASE q # k
        <4>1. j \in DOMAIN h /\ \A i \in 1..j : h[i] = h[j] => i \notin Allowed(s)
          BY <1>3, <2>1, <2>2, <2>3, <3>2, <3>4
        <4>. QED
          BY <1>2, <2>9, <3>2, <4>1, ScanPasses
      <3>. QED
        BY <3>3, <3>4
    <2>. QED
      BY <2>5, <2>7, <2>8, <2>9
  <1>. QED
    BY <1>5, <1>6

(* Every other worker leaves the heap alone and marks nothing. *)
Fewer == UNCHANGED heap /\ \A q \in Queues : queued'[q] => queued[q]

(* To take up a queue marks nothing. *)
LEMMA AssignFewer ==
  ASSUME TypeOK, NEW w \in Workers, NEW q, Assign(w, q)
  PROVE  \A p \in Queues : queued'[p] => queued[p]
  <1>1. queued' = [queued EXCEPT ![q] = @ /\ owner[q] = w] \/ queued' = queued
    BY DEF Assign
  <1>2. queued \in [Queues -> BOOLEAN]
    BY DEF TypeOK, SourceTypes
  <1>. QED
    BY <1>1, <1>2

(* No step of a worker but the scan touches the heap. *)
LEMMA WorkerFewer ==
  ASSUME TypeOK, NEW w \in Workers, Work(w) \/ WakeUnasked(w) \/ ParkTimeout(w), ~Scan(w)
  PROVE  Fewer
  <1>0. queued \in [Queues -> BOOLEAN]
    BY DEF TypeOK, SourceTypes
  <1>1. CASE UNCHANGED sVars
    BY <1>1 DEF Fewer, sVars
  <1>2. CASE Got(w)
    BY <1>0, <1>2 DEF Got, Fewer
  <1>3. CASE Unmark(w)
    BY <1>0, <1>3 DEF Unmark, Fewer
  <1>4. CASE AssignClaimed(w)
    BY <1>4, AssignFewer DEF AssignClaimed, Fewer
  <1>5. CASE TopLocal(w)
    BY <1>5, AssignFewer DEF TopLocal, Fewer
  <1>6. CASE UNCHANGED <<heap, queued>>
    BY <1>6 DEF Fewer
  <1>. QED
    BY <1>1, <1>2, <1>3, <1>4, <1>5, <1>6 DEF Work, TopDedicated, Observe, Decide, Wake,
       PutBack, FenceTest,
      FenceWake, Take, Finish, Turned, Recheck, Requeue, Park, ParkWake, Release, Released, WakeUnasked, ParkTimeout, sVars

(* What enqueues marks a queue and gives it an entry. *)
Enters(t, k) ==
  /\ ~queued[k] /\ owner[k] = None /\ queued' = [queued EXCEPT ![k] = TRUE]
  /\ pq[t] = k /\ Call(t, "bump", k)

(* Enqueue marks the queue and adds its entry, or finds it marked or owned. *)
LEMMA EnqueueOutcome ==
  ASSUME TypeOK, EntryInv, NEW t \in Threads, Enqueue(t)
  PROVE  /\ EntryInv'
         /\ \/ UNCHANGED queued /\ Done(t) /\ (owner[pq[t]] # None \/ queued[pq[t]])
            \/ \E k \in Queues : Enters(t, k)
  <1>1. PICK k \in Queues : k = pq[t]
    BY DEF Enqueue, TypeOK, PostTypes
  <1>2. CASE owner[k] # None \/ queued[k]
    <2>1. UNCHANGED <<heap, queued>> /\ Done(t)
      BY <1>1, <1>2 DEF Enqueue
    <2>. QED
      BY <1>1, <1>2, <2>1 DEF EntryInv
  <1>3. CASE ~(owner[k] # None \/ queued[k])
    <2>1. PICK i \in 0..Len(heap[ShardOf[k]]) :
            heap' = [heap EXCEPT ![ShardOf[k]] = Inserted(@, i, k)]
      BY <1>1, <1>3 DEF Enqueue
    <2>2. queued' = [queued EXCEPT ![k] = TRUE] /\ Call(t, "bump", k)
      BY <1>1, <1>3 DEF Enqueue
    <2>3. heap[ShardOf[k]] \in Seq(Queues) /\ ShardOf[k] \in 0..Shards-1
      BY ShardAssumption DEF TypeOK, SourceTypes
    <2>4. \A q \in Queues : q = k \/ Has(heap[ShardOf[k]], q) => Has(Inserted(heap[ShardOf[k]], i, k), q)
      BY <2>3, HasInserted
    <2>5. ASSUME NEW q \in Queues, queued'[q]
          PROVE  Has(heap'[ShardOf[q]], q)
      <3>1. heap'[ShardOf[k]] = Inserted(heap[ShardOf[k]], i, k)
        BY <2>1, <2>3 DEF TypeOK, SourceTypes
      <3>2. CASE q = k
        BY <2>4, <3>1, <3>2
      <3>3. CASE q # k
        <4>1. Has(heap[ShardOf[q]], q)
          BY <2>2, <2>5, <3>3 DEF EntryInv, TypeOK, SourceTypes
        <4>2. CASE ShardOf[q] = ShardOf[k]
          BY <2>4, <3>1, <4>1, <4>2
        <4>3. CASE ShardOf[q] # ShardOf[k]
          BY <2>1, <4>1, <4>3, ShardAssumption DEF TypeOK, SourceTypes
        <4>. QED
          BY <4>2, <4>3
      <3>. QED
        BY <3>2, <3>3
    <2>6. EntryInv'
      BY <2>5 DEF EntryInv
    <2>7. Enters(t, k)
      BY <1>1, <1>3, <2>2 DEF Enters
    <2>. QED
      BY <2>6, <2>7
  <1>. QED
    BY <1>2, <1>3

(* Every step keeps an entry for every marked queue. *)
LEMMA EntryStep ==
  ASSUME TypeOK, EntryInv, [Next]_vars
  PROVE  EntryInv'
  <1>1. CASE Fewer
    BY <1>1 DEF Fewer, EntryInv
  <1>2. ASSUME NEW w \in Workers, Work(w) \/ WakeUnasked(w) \/ ParkTimeout(w)
        PROVE  EntryInv'
    BY <1>1, <1>2, WorkerFewer, ScanOutcome
  <1>3. CASE UNCHANGED <<heap, queued>>
    BY <1>3 DEF EntryInv
  <1>4. ASSUME NEW t \in Threads, Post(t)
        PROVE  EntryInv'
    BY <1>3, <1>4, EnqueueOutcome DEF Post, FindOwner, WakeDedicatedWorker, NotifyBump,
       NotifySignal, sVars
  <1>5. ASSUME NEW t \in Workers \cup Posters, NEW q \in Queues, Push(t, q)
        PROVE  UNCHANGED <<heap, queued>>
    BY <1>5 DEF Push, sVars
  <1>6. ASSUME (\E q \in Queues : Promote(q)) \/ PromoteReady \/ Fence \/ UNCHANGED vars
        PROVE  UNCHANGED <<heap, queued>>
    BY <1>6 DEF Promote, PromoteReady, Fence, BeginFence, CountFence, EndFence, SignalFence,
       vars, sVars
  <1>. QED
    BY <1>2, <1>3, <1>4, <1>5, <1>6 DEF Next

----------------------------------------------------------------------------
(* Who holds the queues that are claimed. *)
Held == TurnPC \cup {"got", "assign"}
Unheld(q) == has_worker[q] /\ owner[q] = None /\ q \notin withdrawn
HoldsOn(w) ==
  /\ \A v \in Workers \ {w} : pc'[v] = pc[v] /\ cur'[v] = cur[v] /\ ded'[v] = ded[v]
  /\ \A q \in Queues : Unheld(q)' => Holds(w, q, Held)' \/ (Unheld(q) /\ ~Holds(w, q, Held))

(* A step that lets go of no claimed queue keeps HeldInv. *)
LEMMA HeldOn ==
  ASSUME HeldInv, NEW w \in Workers, HoldsOn(w)
  PROVE  HeldInv'
  <1>. SUFFICES ASSUME NEW q \in Queues, Unheld(q)'
                PROVE  \E v \in Workers : Holds(v, q, Held)'
    BY DEF HeldInv, Unheld, Held
  <1>1. CASE Holds(w, q, Held)'
    BY <1>1
  <1>2. CASE Unheld(q) /\ ~Holds(w, q, Held)
    <2>1. PICK v \in Workers : Holds(v, q, Held)
      BY <1>2 DEF HeldInv, Unheld, Held
    <2>2. v # w
      BY <1>2, <2>1
    <2>. QED
      BY <2>1, <2>2 DEF Holds, HoldsOn
  <1>. QED
    BY <1>1, <1>2 DEF HoldsOn

(* The steps of a worker that let go of no claimed queue: all but the scan. *)
LEMMA WorkerHolds ==
  ASSUME TypeOK, HandInv, OwnerInv, NEW w \in Workers
  PROVE  /\ TopDedicated(w) => HoldsOn(w)
         /\ Observe(w) => HoldsOn(w)
         /\ Decide(w) => HoldsOn(w)
         /\ Wake(w) => HoldsOn(w)
         /\ Got(w) => HoldsOn(w)
         /\ PutBack(w) => HoldsOn(w)
         /\ FenceTest(w) => HoldsOn(w)
         /\ FenceWake(w) => HoldsOn(w)
         /\ AssignClaimed(w) => HoldsOn(w)
         /\ TopLocal(w) => HoldsOn(w)
         /\ Take(w) => HoldsOn(w)
         /\ Finish(w) => HoldsOn(w)
         /\ Turned(w) => HoldsOn(w)
         /\ Recheck(w) => HoldsOn(w)
         /\ Unmark(w) => HoldsOn(w)
         /\ Requeue(w) => HoldsOn(w)
         /\ Park(w) => HoldsOn(w)
         /\ ParkWake(w) => HoldsOn(w)
         /\ ParkTimeout(w) => HoldsOn(w)
         /\ Release(w) => HoldsOn(w)
         /\ Released(w) => HoldsOn(w)
         /\ WakeUnasked(w) => HoldsOn(w)
  <1>. USE NoneAssumption DEF HoldsOn, Unheld, Holds, Held, TurnPC, TypeOK, SourceTypes, WorkerTypes, Goto, Leave, sVars, wVars, hVars
  <1>0. Hand(w)
    BY DEF HandInv
  <1>1. TopDedicated(w) => HoldsOn(w)
    BY <1>0 DEF TopDedicated, Hand, SeekPC, DonePC, ParkPC, Busy, WorkerPC
  <1>2. Observe(w) => HoldsOn(w)
    BY <1>0 DEF Observe, Hand, SeekPC, DonePC, ParkPC, Busy, WorkerPC
  <1>3. Decide(w) => HoldsOn(w)
    BY <1>0 DEF Decide, Hand, SeekPC, DonePC, ParkPC, Busy, WorkerPC
  <1>4. Wake(w) => HoldsOn(w)
    BY <1>0 DEF Wake, Hand, SeekPC, DonePC, ParkPC, Busy, WorkerPC
  <1>5. Got(w) => HoldsOn(w)
    BY <1>0 DEF Got, Hand, SeekPC, DonePC, ParkPC, Busy, WorkerPC
  <1>6. PutBack(w) => HoldsOn(w)
    BY <1>0 DEF PutBack, Hand, SeekPC, DonePC, ParkPC, Busy, WorkerPC
  <1>7. FenceTest(w) => HoldsOn(w)
    BY <1>0 DEF FenceTest, Hand, SeekPC, DonePC, ParkPC, Busy, WorkerPC
  <1>8. FenceWake(w) => HoldsOn(w)
    BY <1>0 DEF FenceWake, Hand, SeekPC, DonePC, ParkPC, Busy, WorkerPC
  <1>9. AssignClaimed(w) => HoldsOn(w)
    BY <1>0 DEF AssignClaimed, Assign, Hand, SeekPC, DonePC, ParkPC, Busy, WorkerPC
  <1>10. TopLocal(w) => HoldsOn(w)
    BY <1>0 DEF TopLocal, Assign, Hand, SeekPC, DonePC, ParkPC, Busy, WorkerPC
  <1>11. Take(w) => HoldsOn(w)
    BY <1>0 DEF Take, Running, Hand, SeekPC, DonePC, ParkPC, Busy, WorkerPC
  <1>12. Finish(w) => HoldsOn(w)
    BY <1>0 DEF Finish, Running, Hand, SeekPC, DonePC, ParkPC, Busy, WorkerPC
  <1>13. ASSUME Turned(w)
        PROVE  HoldsOn(w)
    <2>1. CASE ded[w] = None
      <3>1. /\ has_worker' = [has_worker EXCEPT ![cur[w]] = FALSE] /\ pc[w] = "turned"
            /\ Goto(w, "recheck") /\ UNCHANGED <<cur, ded, owner, withdrawn>>
        BY <1>13, <2>1 DEF Turned
      <3>. QED
        BY <2>1, <3>1
    <2>2. CASE ded[w] # None
      <3>1. /\ Leave(w, "top") \/ (Goto(w, "park") /\ UNCHANGED cur)
            /\ UNCHANGED <<has_worker, ded, owner, withdrawn>>
        BY <1>13, <2>2 DEF Turned
      <3>. QED
        BY <2>2, <3>1
    <2>. QED
      BY <2>1, <2>2
  <1>14. Recheck(w) => HoldsOn(w)
    BY <1>0 DEF Recheck, Hand, SeekPC, DonePC, ParkPC, Busy, WorkerPC
  <1>15. Unmark(w) => HoldsOn(w)
    BY <1>0 DEF Unmark, Hand, SeekPC, DonePC, ParkPC, Busy, WorkerPC
  <1>16. Requeue(w) => HoldsOn(w)
    BY <1>0 DEF Requeue, Hand, SeekPC, DonePC, ParkPC, Busy, WorkerPC
  <1>17. Park(w) => HoldsOn(w)
    BY <1>0 DEF Park, Hand, SeekPC, DonePC, ParkPC, Busy, WorkerPC
  <1>18. ParkWake(w) => HoldsOn(w)
    BY <1>0 DEF ParkWake, Hand, SeekPC, DonePC, ParkPC, Busy, WorkerPC
  <1>19. ParkTimeout(w) => HoldsOn(w)
    BY <1>0 DEF ParkTimeout, Hand, SeekPC, DonePC, ParkPC, Busy, WorkerPC
  <1>20. Release(w) => HoldsOn(w)
    BY <1>0 DEF Release, Hand, SeekPC, DonePC, ParkPC, Busy, WorkerPC
  <1>21. Released(w) => HoldsOn(w)
    BY <1>0 DEF Released, Hand, SeekPC, DonePC, ParkPC, Busy, WorkerPC
  <1>22. WakeUnasked(w) => HoldsOn(w)
    BY <1>0 DEF WakeUnasked, Hand, SeekPC, DonePC, ParkPC, Busy, WorkerPC
  <1>. QED
    BY <1>1, <1>2, <1>3, <1>4, <1>5, <1>6, <1>7, <1>8, <1>9, <1>10, <1>11, <1>12, <1>13, <1>14,
       <1>15, <1>16, <1>17, <1>18, <1>19, <1>20, <1>21, <1>22

(* Every step keeps HeldInv. *)
LEMMA HeldStep ==
  ASSUME TypeOK, HandInv, OwnerInv, EntryInv, HeldInv, [Next]_vars
  PROVE  HeldInv'
  <1>1. ASSUME NEW w \in Workers, Scan(w)
        PROVE  HoldsOn(w)
    <2>. USE DEF HoldsOn, Unheld, Holds, Held, TurnPC
    <2>1. pc[w] = "scan" /\ UNCHANGED <<owner, ded, withdrawn>>
      BY <1>1 DEF Scan, hVars
    <2>2. ded[w] = None
      BY <2>1 DEF HandInv, Hand, SeekPC
    <2>3. CASE Sweeps(w)
      BY <2>1, <2>3 DEF Sweeps, Goto, TypeOK, WorkerTypes
    <2>4. ASSUME NEW k \in Queues, Picks(w, k)
          PROVE  HoldsOn(w)
      BY <2>1, <2>2, <2>4 DEF Picks, Goto, TypeOK, WorkerTypes, SourceTypes
    <2>. QED
      BY <1>1, <2>3, <2>4, ScanOutcome
  <1>2. ASSUME NEW w \in Workers, Work(w) \/ WakeUnasked(w) \/ ParkTimeout(w)
        PROVE  HeldInv'
    BY <1>1, <1>2, HeldOn, WorkerHolds DEF Work
  <1>3. CASE UNCHANGED <<has_worker, owner, withdrawn, pc, cur, ded>>
    BY <1>3 DEF HeldInv, Holds
  <1>4. ASSUME NEW t \in Threads, Post(t)
        PROVE  UNCHANGED <<has_worker, owner, withdrawn, pc, cur, ded>>
    BY <1>4 DEF Post, FindOwner, WakeDedicatedWorker, Enqueue, NotifyBump, NotifySignal, sVars,
       wVars, hVars
  <1>5. ASSUME NEW t \in Workers \cup Posters, NEW q \in Queues, Push(t, q)
        PROVE  UNCHANGED <<has_worker, owner, withdrawn, pc, cur, ded>>
    BY <1>5 DEF Push, sVars
  <1>6. ASSUME (\E q \in Queues : Promote(q)) \/ PromoteReady \/ Fence \/ UNCHANGED vars
        PROVE  UNCHANGED <<has_worker, owner, withdrawn, pc, cur, ded>>
    BY <1>6 DEF Promote, PromoteReady, Fence, BeginFence, CountFence, EndFence, SignalFence,
       vars, sVars, wVars, hVars
  <1>. QED
    BY <1>2, <1>3, <1>4, <1>5, <1>6 DEF Next

----------------------------------------------------------------------------
(* Who will come back for a queue with work.  A thread or a worker spares a    *)
(* queue if it takes away nothing that the queue depends on.                   *)
KeepsCalls(q) == \A t \in Threads : pq[t] = q /\ ppc[t] \in {"due", "owner", "enq", "wake"} =>
                                      pq'[t] = q /\ ppc'[t] = ppc[t]
KeepsWorkers(w) == \A v \in Workers \ {w} :
  pc'[v] = pc[v] /\ cur'[v] = cur[v] /\ ded'[v] = ded[v] /\ local'[v] = local[v]
Spares(w, q) ==
  /\ KeepsCalls(q)
  /\ owner'[q] = owner[q]
  /\ event[q] => event'[q]
  /\ queued[q] => queued'[q]
  /\ w \in Workers => /\ Minds(w, q) => Minds(w, q)'
                      /\ owner[q] = w /\ pc'[w] = "parked" => pc[w] = "parked"

(* A queue that a step spares stays tended. *)
LEMMA SparesTended ==
  ASSUME TypeOK, NEW q \in Queues, NEW w, KeepsWorkers(w), Spares(w, q), Tended(q)
  PROVE  Tended(q)'
  <1>1. \A P \in {{"due", "owner", "enq"}, {"due", "owner", "wake"}} : Calls(q, P) => Calls(q, P)'
    BY DEF Spares, KeepsCalls, Calls
  <1>2. CASE owner[q] = None
    <2>1. Calls(q, {"due", "owner", "enq"}) \/ queued[q] \/ \E v \in Workers : Minds(v, q)
      BY <1>2 DEF Tended
    <2>2. \A v \in Workers : Minds(v, q) => Minds(v, q)'
      BY DEF Spares, KeepsWorkers, Minds, Holds
    <2>3. Calls(q, {"due", "owner", "enq"})' \/ queued'[q] \/ \E v \in Workers : Minds(v, q)'
      BY <1>1, <2>1, <2>2 DEF Spares
    <2>. QED
      BY <1>2, <2>3 DEF Spares, Tended
  <1>3. CASE owner[q] # None
    <2>1. owner[q] \in Workers
      BY <1>3 DEF TypeOK, SourceTypes
    <2>2. pc'[owner[q]] = "parked" => pc[owner[q]] = "parked"
      BY <2>1 DEF Spares, KeepsWorkers
    <2>3. pc'[owner[q]] = "parked" => event'[q] \/ Calls(q, {"due", "owner", "wake"})'
      BY <1>1, <1>3, <2>2 DEF Spares, Tended
    <2>. QED
      BY <1>3, <2>3 DEF Spares, Tended
  <1>. QED
    BY <1>2, <1>3

(* A step of w keeps the invariant if it spares each queue, or sees to it. *)
Minding(w) == \A q \in Queues \ withdrawn' : HasWorkOnConsumerSide(q)' =>
  (q \notin withdrawn /\ HasWorkOnConsumerSide(q) /\ Spares(w, q)) \/ Tended(q)'

(* A step that minds every queue with work keeps WorkInv. *)
LEMMA MindingWork ==
  ASSUME TypeOK, WorkInv, NEW w, KeepsWorkers(w), Minding(w)
  PROVE  WorkInv'
  <1>. SUFFICES ASSUME NEW q \in Queues \ withdrawn', HasWorkOnConsumerSide(q)'
                PROVE  Tended(q)'
    BY DEF WorkInv
  <1>1. CASE q \notin withdrawn /\ HasWorkOnConsumerSide(q) /\ Spares(w, q)
    BY <1>1, SparesTended DEF WorkInv
  <1>. QED
    BY <1>1 DEF Minding

(* The threads that post. *)
LEMMA PostSpares ==
  ASSUME TypeOK, NEW t \in Threads, NEW q \in Queues,
         \/ UNCHANGED pVars
         \/ /\ ppc[t] \in {"idle", "bump", "signal"} \/ pq[t] # q
            /\ \E l, k : Call(t, l, k)
  PROVE  KeepsCalls(q)
  <1>1. CASE UNCHANGED pVars
    BY <1>1 DEF KeepsCalls, pVars
  <1>2. CASE (ppc[t] \in {"idle", "bump", "signal"} \/ pq[t] # q) /\ \E l, k : Call(t, l, k)
    BY <1>2 DEF KeepsCalls, Call, TypeOK, PostTypes
  <1>. QED
    BY <1>1, <1>2

(* The steps of a notification: each hands its queue on to the next, or to the heap. *)
LEMMA WorkPost ==
  ASSUME TypeOK, EntryInv, WorkInv, NEW t \in Threads, Post(t)
  PROVE  WorkInv'
  <1>1. UNCHANGED <<qVars, wVars, owner, withdrawn>>
    BY DEF Post, FindOwner, WakeDedicatedWorker, Enqueue, NotifyBump, NotifySignal, sVars, hVars
  <1>. DEFINE p == pq[t]
  <1>2. KeepsWorkers(None) /\ None \notin Workers
    BY <1>1, NoneAssumption DEF KeepsWorkers, wVars
  <1>. SUFFICES ASSUME NEW q \in Queues \ withdrawn, HasWorkOnConsumerSide(q), Tended(q)
                PROVE  Spares(None, q) \/ Tended(q)'
    <2>1. Minding(None)
      BY <1>1 DEF Minding, WorkInv, HasWorkOnConsumerSide, qVars
    <2>. QED
      BY <1>2, <2>1, MindingWork
  <1>3. ppc[t] # "idle" => p \in Queues
    BY DEF TypeOK, PostTypes
  <1>4. CASE FindOwner(t)
    <2>1. Call(t, IF owner[p] # None THEN "wake" ELSE "enq", p) /\ UNCHANGED <<event, queued>> /\ ppc[t] = "owner"
      BY <1>4 DEF FindOwner, sVars
    <2>2. CASE q # p
      BY <1>1, <1>2, <2>1, <2>2, PostSpares DEF Spares
    <2>3. CASE q = p
      <3>1. pq'[t] = q /\ ppc'[t] = IF owner[q] # None THEN "wake" ELSE "enq"
        BY <2>1, <2>3 DEF Call, TypeOK, PostTypes
      <3>2. owner[q] # None => Calls(q, {"due", "owner", "wake"})'
        BY <3>1 DEF Calls
      <3>3. owner[q] = None => Calls(q, {"due", "owner", "enq"})'
        BY <3>1 DEF Calls
      <3>. QED
        BY <1>1, <3>2, <3>3 DEF Tended
    <2>. QED
      BY <2>2, <2>3
  <1>5. CASE WakeDedicatedWorker(t)
    <2>1. event' = [event EXCEPT ![p] = TRUE] /\ Done(t) /\ UNCHANGED queued /\ ppc[t] = "wake"
      BY <1>5 DEF WakeDedicatedWorker
    <2>2. event[q] => event'[q]
      BY <2>1 DEF TypeOK, SourceTypes
    <2>3. CASE q # p
      BY <1>1, <1>2, <2>1, <2>2, <2>3, PostSpares DEF Spares, Done
    <2>4. CASE q = p /\ owner[q] # None
      <3>1. event'[q]
        BY <2>1, <2>4 DEF TypeOK, SourceTypes
      <3>. QED
        BY <1>1, <2>4, <3>1 DEF Tended
    <2>5. CASE q = p /\ owner[q] = None
      <3>1. Calls(q, {"due", "owner", "enq"}) => Calls(q, {"due", "owner", "enq"})'
        BY <2>1 DEF Calls, Done, Call, TypeOK, PostTypes
      <3>2. \A v \in Workers : Minds(v, q) => Minds(v, q)'
        BY <1>1 DEF Minds, Holds, wVars
      <3>. QED
        BY <1>1, <2>1, <2>5, <3>1, <3>2 DEF Tended
    <2>. QED
      BY <2>3, <2>4, <2>5
  <1>6. CASE Enqueue(t)
    <2>1. UNCHANGED event /\ ppc[t] = "enq"
      BY <1>6 DEF Enqueue
    <2>2. CASE UNCHANGED queued /\ Done(t) /\ (owner[p] # None \/ queued[p])
      <3>1. CASE q # p
        BY <1>1, <1>2, <2>1, <2>2, <3>1, PostSpares DEF Spares, Done
      <3>2. CASE q = p /\ owner[q] # None
        <4>1. Calls(q, {"due", "owner", "wake"}) => Calls(q, {"due", "owner", "wake"})'
          BY <2>1, <2>2 DEF Calls, Done, Call, TypeOK, PostTypes
        <4>2. UNCHANGED pc
          BY <1>1 DEF wVars
        <4>. QED
          BY <1>1, <2>1, <3>2, <4>1, <4>2 DEF Tended
      <3>3. CASE q = p /\ owner[q] = None
        BY <1>1, <2>2, <3>3 DEF Tended
      <3>. QED
        BY <3>1, <3>2, <3>3
    <2>3. ASSUME NEW k \in Queues, Enters(t, k)
          PROVE  Spares(None, q) \/ Tended(q)'
      <3>1. CASE q # k
        <4>1. KeepsCalls(q)
          BY <2>3, <3>1, PostSpares DEF Enters
        <4>2. queued'[q] = queued[q]
          BY <2>3, <3>1 DEF Enters, TypeOK, SourceTypes
        <4>. QED
          BY <1>1, <1>2, <2>1, <4>1, <4>2 DEF Spares
      <3>2. CASE q = k
        <4>1. queued'[q] /\ owner'[q] = None
          BY <1>1, <2>3, <3>2 DEF Enters, TypeOK, SourceTypes
        <4>. QED
          BY <4>1 DEF Tended
      <3>. QED
        BY <3>1, <3>2
    <2>. QED
      BY <1>6, <2>2, <2>3, EnqueueOutcome
  <1>7. CASE NotifyBump(t) \/ NotifySignal(t)
    <2>1. UNCHANGED <<event, queued>> /\ ppc[t] \in {"bump", "signal"} /\ \E l, k : Call(t, l, k)
      BY <1>7 DEF NotifyBump, NotifySignal, Done, sVars
    <2>. QED
      BY <1>1, <1>2, <2>1, PostSpares DEF Spares
  <1>. QED
    BY <1>4, <1>5, <1>6, <1>7 DEF Post

(* A queue with an owner is dedicated, and its owner is not at a loss. *)
LEMMA OwnerFacts ==
  ASSUME TypeOK, HandInv, OwnerInv, NEW q \in Queues, owner[q] # None
  PROVE  /\ owner[q] \in Workers /\ ded[owner[q]] = q /\ q \in Dedicated
         /\ pc[owner[q]] \notin SeekPC \cup DonePC
         /\ pc[owner[q]] \in TurnPC \cup ParkPC => cur[owner[q]] = q
  <1>1. owner[q] \in Workers
    BY DEF TypeOK, SourceTypes
  <1>2. ded[owner[q]] = q
    BY <1>1 DEF OwnerInv
  <1>3. Hand(owner[q])
    BY <1>1 DEF HandInv
  <1>. QED
    BY <1>1, <1>2, <1>3, NoneAssumption DEF Hand, SeekPC, TurnPC, DonePC, ParkPC

(* A post to an empty incoming_queue_ calls, or goes to the local queue of the worker. *)
LEMMA WorkPush ==
  ASSUME TypeOK, HandInv, OwnerInv, WorkInv, NEW t \in Workers \cup Posters, NEW q \in Queues, Push(t, q)
  PROVE  WorkInv'
  <1>1. /\ UNCHANGED <<private, owner, event, queued, pc, cur, ded, withdrawn>> /\ ppc[t] = "idle"
        /\ t \in Workers => Running(t)
    BY DEF Push, Ready, sVars
  <1>2. \A p \in Queues \ {q} : incoming'[p] = incoming[p]
    BY DEF Push, TypeOK, QueueTypes
  <1>3. t \in Threads /\ local \in [Workers -> Seq(Queues)]
    BY DEF Threads, TypeOK, WorkerTypes
  <1>4. \/ UNCHANGED pVars
        \/ \E l, k : Call(t, l, k)
    BY DEF Push, ReEnqueueTaskQueue, pVars
  <1>5. UNCHANGED local \/ (t \in Workers /\ cur[t] = q /\ local' = [local EXCEPT ![t] = Append(@, q)])
    BY DEF Push, ReEnqueueTaskQueue
  <1>6. KeepsWorkers(t)
    BY <1>1, <1>3, <1>5 DEF KeepsWorkers
  <1>7. ASSUME NEW p \in Queues
        PROVE  Spares(t, p)
    <2>1. KeepsCalls(p)
      BY <1>1, <1>3, <1>4, PostSpares
    <2>2. t \in Workers /\ Has(local[t], p) => Has(local'[t], p)
      <3>1. CASE UNCHANGED local
        BY <3>1
      <3>2. CASE t \in Workers /\ local' = [local EXCEPT ![t] = Append(@, q)]
        <4>1. local'[t] = Append(local[t], q) /\ local[t] \in Seq(Queues)
          BY <1>3, <3>2
        <4>2. Has(Append(local[t], q), p) <=> Has(local[t], p) \/ p = q
          BY <4>1, HasAppended
        <4>. QED
          BY <4>1, <4>2
      <3>. QED
        BY <1>5, <3>1, <3>2
    <2>3. t \in Workers /\ Minds(t, p) => Minds(t, p)'
      BY <1>1, <2>2 DEF Minds, Holds
    <2>. QED
      BY <1>1, <2>1, <2>3 DEF Spares
  <1>8. ASSUME incoming[q] = <<>>, q \notin withdrawn
        PROVE  Tended(q)'
    <2>1. CASE t \in Workers /\ cur[t] = q
      <3>1. Hand(t) /\ pc[t] \in {"run", "runfull"}
        BY <1>1, <2>1 DEF HandInv, Running
      <3>2. ded[t] = IF q \in Dedicated THEN q ELSE None
        BY <2>1, <3>1 DEF Hand, TurnPC
      <3>3. CASE owner[q] = None
        <4>1. q \notin Dedicated
          BY <2>1, <3>1, <3>2, <3>3, NoneAssumption DEF OwnerInv
        <4>2. Minds(t, q)'
          BY <1>1, <2>1, <3>1, <3>2, <4>1 DEF Minds, Holds, TurnPC
        <4>. QED
          BY <1>1, <2>1, <3>3, <4>2 DEF Tended
      <3>4. CASE owner[q] # None
        <4>1. owner[q] = t
          BY <2>1, <3>1, <3>2, <3>4, OwnerFacts DEF OwnerInv
        <4>. QED
          BY <1>1, <3>1, <3>4, <4>1 DEF Tended
      <3>. QED
        BY <3>3, <3>4
    <2>2. CASE ~(t \in Workers /\ cur[t] = q)
      <3>1. Call(t, IF q \in Dedicated THEN "owner" ELSE "enq", q)
        BY <1>8, <2>2 DEF Push, ReEnqueueTaskQueue
      <3>2. pq'[t] = q /\ ppc'[t] = IF q \in Dedicated THEN "owner" ELSE "enq"
        BY <1>3, <3>1 DEF Call, TypeOK, PostTypes
      <3>3. CASE owner[q] = None
        <4>1. Calls(q, {"due", "owner", "enq"})'
          BY <1>3, <3>2 DEF Calls
        <4>. QED
          BY <1>1, <3>3, <4>1 DEF Tended
      <3>4. CASE owner[q] # None
        <4>1. Calls(q, {"due", "owner", "wake"})'
          BY <1>3, <3>2, <3>4, OwnerFacts DEF Calls
        <4>. QED
          BY <1>1, <3>4, <4>1 DEF Tended
      <3>. QED
        BY <3>3, <3>4
    <2>. QED
      BY <2>1, <2>2
  <1>9. Minding(t)
    <2>. SUFFICES ASSUME NEW p \in Queues \ withdrawn', HasWorkOnConsumerSide(p)'
                  PROVE  (p \notin withdrawn /\ HasWorkOnConsumerSide(p)) \/ Tended(p)'
      BY <1>7 DEF Minding
    <2>1. CASE p # q
      BY <1>1, <1>2, <2>1 DEF HasWorkOnConsumerSide
    <2>2. CASE p = q /\ incoming[q] # <<>>
      BY <1>1, <2>2 DEF HasWorkOnConsumerSide
    <2>3. CASE p = q /\ incoming[q] = <<>>
      BY <1>1, <1>8, <2>3
    <2>. QED
      BY <2>1, <2>2, <2>3
  <1>. QED
    BY <1>6, <1>9, MindingWork

(* Promoted tasks call for their queue as posted ones do. *)
LEMMA WorkPromote ==
  ASSUME TypeOK, HandInv, OwnerInv, WorkInv
  PROVE  /\ \A q \in Queues : Promote(q) => WorkInv'
         /\ PromoteReady => WorkInv'
  <1>0. Manager \in Threads /\ Manager \notin Workers
    BY ThreadAssumption DEF Threads
  <1>1. ASSUME NEW q \in Queues, Promote(q)
        PROVE  WorkInv'
    <2>1. UNCHANGED <<private, owner, event, queued, wVars, withdrawn>> /\ ppc[Manager] = "idle" /\ Call(Manager, "due", q)
      BY <1>1 DEF Promote, Ready, sVars
    <2>2. \A p \in Queues \ {q} : incoming'[p] = incoming[p]
      BY <1>1 DEF Promote, TypeOK, QueueTypes
    <2>3. KeepsWorkers(Manager)
      BY <2>1 DEF KeepsWorkers, wVars
    <2>4. Tended(q)'
      <3>1. pq'[Manager] = q /\ ppc'[Manager] = "due"
        BY <1>0, <2>1 DEF Call, TypeOK, PostTypes
      <3>2. Calls(q, {"due", "owner", "enq"})' /\ Calls(q, {"due", "owner", "wake"})'
        BY <1>0, <3>1 DEF Calls
      <3>. QED
        BY <3>2 DEF Tended
    <2>5. \A p \in Queues : KeepsCalls(p)
      BY <1>0, <2>1, PostSpares
    <2>6. \A p \in Queues : Spares(Manager, p)
      BY <1>0, <2>1, <2>5 DEF Spares
    <2>7. Minding(Manager)
      BY <2>1, <2>2, <2>4, <2>6 DEF Minding, HasWorkOnConsumerSide
    <2>. QED
      BY <2>3, <2>7, MindingWork
  <1>2. ASSUME PromoteReady
        PROVE  WorkInv'
    <2>1. UNCHANGED <<qVars, owner, event, queued, wVars, withdrawn>> /\ ppc[Manager] = "due"
      BY <1>2 DEF PromoteReady, sVars, hVars
    <2>2. PICK q \in Queues : q = pq[Manager]
      BY <1>0, <2>1 DEF TypeOK, PostTypes
    <2>3. KeepsWorkers(Manager)
      BY <2>1 DEF KeepsWorkers, wVars
    <2>4. \E l, k : Call(Manager, l, k)
      BY <1>2 DEF PromoteReady, Done
    <2>5. ASSUME q \notin withdrawn, HasWorkOnConsumerSide(q)
          PROVE  Tended(q)'
      <3>1. CASE HasWork(q)
        <4>1. Call(Manager, IF q \in Dedicated THEN "owner" ELSE "enq", q)
          BY <1>2, <2>2, <3>1 DEF PromoteReady
        <4>2. pq'[Manager] = q /\ ppc'[Manager] = IF q \in Dedicated THEN "owner" ELSE "enq"
          BY <1>0, <4>1 DEF Call, TypeOK, PostTypes
        <4>3. Calls(q, {"due", "owner", "enq"})'
          BY <1>0, <4>2 DEF Calls
        <4>4. owner[q] # None => Calls(q, {"due", "owner", "wake"})'
          BY <1>0, <4>2, OwnerFacts DEF Calls
        <4>. QED
          BY <2>1, <4>3, <4>4 DEF Tended
      <3>2. CASE ~HasWork(q)
        <4>1. private[q] # <<>>
          BY <2>5, <3>2 DEF HasWork, HasWorkOnConsumerSide
        <4>2. owner[q] # None
          BY <2>5, <4>1 DEF OwnerInv
        <4>3. pc[owner[q]] # "parked"
          BY <4>1, <4>2, OwnerFacts DEF OwnerInv, ParkPC
        <4>4. UNCHANGED pc
          BY <2>1 DEF wVars
        <4>. QED
          BY <2>1, <4>2, <4>3, <4>4 DEF Tended
      <3>. QED
        BY <3>1, <3>2
    <2>6. \A p \in Queues \ {q} : KeepsCalls(p)
      BY <1>0, <2>2, <2>4, PostSpares
    <2>7. \A p \in Queues \ {q} : Spares(Manager, p)
      BY <1>0, <2>1, <2>6 DEF Spares
    <2>8. Minding(Manager)
      BY <2>1, <2>5, <2>7 DEF Minding, HasWorkOnConsumerSide, qVars
    <2>. QED
      BY <2>3, <2>8, MindingWork
  <1>. QED
    BY <1>1, <1>2

(* The workers: no one touches what another has in hand. *)
LEMMA WorkerAlone ==
  ASSUME TypeOK, NEW w \in Workers
  PROVE  /\ TopDedicated(w) => KeepsWorkers(w)
         /\ Observe(w) => KeepsWorkers(w)
         /\ Scan(w) => KeepsWorkers(w)
         /\ Decide(w) => KeepsWorkers(w)
         /\ Wake(w) => KeepsWorkers(w)
         /\ WakeUnasked(w) => KeepsWorkers(w)
         /\ Got(w) => KeepsWorkers(w)
         /\ PutBack(w) => KeepsWorkers(w)
         /\ FenceTest(w) => KeepsWorkers(w)
         /\ FenceWake(w) => KeepsWorkers(w)
         /\ AssignClaimed(w) => KeepsWorkers(w)
         /\ TopLocal(w) => KeepsWorkers(w)
         /\ Take(w) => KeepsWorkers(w)
         /\ Finish(w) => KeepsWorkers(w)
         /\ Turned(w) => KeepsWorkers(w)
         /\ Recheck(w) => KeepsWorkers(w)
         /\ Unmark(w) => KeepsWorkers(w)
         /\ Requeue(w) => KeepsWorkers(w)
         /\ Park(w) => KeepsWorkers(w)
         /\ ParkWake(w) => KeepsWorkers(w)
         /\ ParkTimeout(w) => KeepsWorkers(w)
         /\ Release(w) => KeepsWorkers(w)
         /\ Released(w) => KeepsWorkers(w)
  <1>. USE DEF KeepsWorkers, TypeOK, WorkerTypes, Goto, Leave, wVars
  <1>1. TopDedicated(w) => KeepsWorkers(w)
    BY DEF TopDedicated
  <1>2. Observe(w) => KeepsWorkers(w)
    BY DEF Observe
  <1>3. Scan(w) => KeepsWorkers(w)
    BY DEF Scan
  <1>4. Decide(w) => KeepsWorkers(w)
    BY DEF Decide
  <1>5. Wake(w) => KeepsWorkers(w)
    BY DEF Wake
  <1>6. WakeUnasked(w) => KeepsWorkers(w)
    BY DEF WakeUnasked
  <1>7. Got(w) => KeepsWorkers(w)
    BY DEF Got
  <1>8. PutBack(w) => KeepsWorkers(w)
    BY DEF PutBack
  <1>9. FenceTest(w) => KeepsWorkers(w)
    BY DEF FenceTest
  <1>10. FenceWake(w) => KeepsWorkers(w)
    BY DEF FenceWake
  <1>11. AssignClaimed(w) => KeepsWorkers(w)
    BY DEF AssignClaimed, Assign
  <1>12. TopLocal(w) => KeepsWorkers(w)
    BY DEF TopLocal, Assign
  <1>13. Take(w) => KeepsWorkers(w)
    BY DEF Take
  <1>14. Finish(w) => KeepsWorkers(w)
    BY DEF Finish
  <1>15. Turned(w) => KeepsWorkers(w)
    BY DEF Turned
  <1>16. Recheck(w) => KeepsWorkers(w)
    BY DEF Recheck
  <1>17. Unmark(w) => KeepsWorkers(w)
    BY DEF Unmark
  <1>18. Requeue(w) => KeepsWorkers(w)
    BY DEF Requeue
  <1>19. Park(w) => KeepsWorkers(w)
    BY DEF Park
  <1>20. ParkWake(w) => KeepsWorkers(w)
    BY DEF ParkWake
  <1>21. ParkTimeout(w) => KeepsWorkers(w)
    BY DEF ParkTimeout
  <1>22. Release(w) => KeepsWorkers(w)
    BY DEF Release
  <1>23. Released(w) => KeepsWorkers(w)
    BY DEF Released
  <1>. QED
    BY <1>1, <1>2, <1>3, <1>4, <1>5, <1>6, <1>7, <1>8, <1>9, <1>10, <1>11, <1>12, <1>13, <1>14,
       <1>15, <1>16, <1>17, <1>18, <1>19, <1>20, <1>21, <1>22, <1>23

(* A worker that only moves on, and minds what it minded. *)
Calm(w) ==
  /\ UNCHANGED <<incoming, private, owner, event, queued, ppc, pq, withdrawn>>
  /\ \A q \in Queues : Minds(w, q) => Minds(w, q)'
  /\ pc'[w] = "parked" => pc[w] = "parked"

(* A calm step minds every queue. *)
LEMMA CalmMinds ==
  ASSUME NEW w \in Workers, Calm(w)
  PROVE  Minding(w)
  <1>1. \A q \in Queues : Spares(w, q)
    BY DEF Calm, Spares, KeepsCalls
  <1>. QED
    BY <1>1 DEF Minding, Calm, HasWorkOnConsumerSide

(* The calm steps of a worker. *)
LEMMA WorkerCalm ==
  ASSUME TypeOK, HandInv, NEW w \in Workers
  PROVE  /\ TopDedicated(w) => Calm(w)
         /\ Observe(w) => Calm(w)
         /\ Decide(w) => Calm(w)
         /\ Wake(w) => Calm(w)
         /\ WakeUnasked(w) => Calm(w)
         /\ FenceTest(w) => Calm(w)
         /\ FenceWake(w) => Calm(w)
         /\ Finish(w) => Calm(w)
         /\ Turned(w) => Calm(w)
         /\ ParkTimeout(w) => Calm(w)
  <1>. USE NoneAssumption, HasNothing DEF Calm, Minds, Holds, TurnPC, DonePC, TypeOK, WorkerTypes, Goto, Leave,
           qVars, sVars, pVars, wVars, hVars
  <1>0. Hand(w)
    BY DEF HandInv
  <1>1. TopDedicated(w) => Calm(w)
    BY <1>0 DEF TopDedicated, Hand, SeekPC, Busy, WorkerPC
  <1>2. Observe(w) => Calm(w)
    BY <1>0 DEF Observe, Hand, SeekPC, Busy, WorkerPC
  <1>3. Decide(w) => Calm(w)
    BY <1>0 DEF Decide, Hand, SeekPC, Busy, WorkerPC
  <1>4. Wake(w) => Calm(w)
    BY <1>0 DEF Wake, Hand, SeekPC, Busy, WorkerPC
  <1>5. WakeUnasked(w) => Calm(w)
    BY <1>0 DEF WakeUnasked, Hand, SeekPC, Busy, WorkerPC
  <1>6. FenceTest(w) => Calm(w)
    BY <1>0 DEF FenceTest, Hand, SeekPC, Busy, WorkerPC
  <1>7. FenceWake(w) => Calm(w)
    BY <1>0 DEF FenceWake, Hand, SeekPC, Busy, WorkerPC
  <1>8. Finish(w) => Calm(w)
    BY <1>0 DEF Finish, Running, Hand, SeekPC, Busy, WorkerPC
  <1>9. Turned(w) => Calm(w)
    BY <1>0 DEF Turned, Hand, SeekPC, Busy, WorkerPC
  <1>10. ParkTimeout(w) => Calm(w)
    BY <1>0 DEF ParkTimeout, Hand, SeekPC, Busy, WorkerPC
  <1>. QED
    BY <1>1, <1>2, <1>3, <1>4, <1>5, <1>6, <1>7, <1>8, <1>9, <1>10

(* What a worker minds is the queue it has in hand, if it has one. *)
LEMMA MindsOne ==
  ASSUME HandInv, NEW w \in Workers, NEW q \in Queues, Minds(w, q)
  PROVE  /\ ded[w] = None
         /\ pc[w] \in Busy => cur[w] = q
         /\ pc[w] \in SeekPC => pc[w] \in {"got", "assign"}
  <1>1. Hand(w) /\ ded[w] = None
    BY DEF HandInv, Minds, Holds
  <1>. QED
    BY <1>1, HasNothing DEF Hand, Minds, Holds, SeekPC, TurnPC, DonePC, Busy, WorkerPC

(* A queue with an owner does not depend on its entry. *)
LEMMA OwnedTended ==
  ASSUME NEW q \in Queues, owner[q] # None, Tended(q), owner'[q] = owner[q], pc'[owner[q]] = pc[owner[q]],
         event'[q] = event[q], UNCHANGED pVars
  PROVE  Tended(q)'
  <1>1. Calls(q, {"due", "owner", "wake"})' <=> Calls(q, {"due", "owner", "wake"})
    BY DEF Calls, pVars
  <1>. QED
    BY <1>1 DEF Tended

(* A dedicated queue alone has an owner or tasks in its work_queue_. *)
LEMMA Sequenced ==
  ASSUME TypeOK, HandInv, OwnerInv, NEW q \in Queues, q \notin Dedicated
  PROVE  owner[q] = None /\ (HasWorkOnConsumerSide(q) <=> HasWork(q))
  BY OwnerFacts DEF OwnerInv, HasWorkOnConsumerSide, HasWork

(* A queue that was picked is put back for a fence, or taken up. *)
LEMMA GotMinds ==
  ASSUME TypeOK, HandInv, NEW w \in Workers, Got(w)
  PROVE  Minding(w)
  <1>1. PICK k \in Queues : k = cur[w]
    BY DEF Got, TypeOK, WorkerTypes, Busy, WorkerPC
  <1>2. pc[w] = "got" /\ UNCHANGED <<qVars, owner, event, cur, ded, local, pVars>>
    BY DEF Got
  <1>3. CASE fence > 0
    <2>1. queued' = [queued EXCEPT ![k] = FALSE] /\ withdrawn' = withdrawn \cup {k} /\ Goto(w, "putback")
      BY <1>1, <1>3 DEF Got
    <2>2. ASSUME NEW q \in Queues \ withdrawn'
          PROVE  Spares(w, q)
      <3>1. q # k /\ ~Minds(w, q)
        BY <1>1, <1>2, <2>1, <2>2, MindsOne DEF Busy, WorkerPC
      <3>2. queued'[q] = queued[q]
        BY <2>1, <3>1 DEF TypeOK, SourceTypes
      <3>. QED
        BY <1>2, <2>1, <3>1, <3>2 DEF Spares, KeepsCalls, Goto, pVars, TypeOK, WorkerTypes
    <2>. QED
      BY <1>2, <2>1, <2>2 DEF Minding, HasWorkOnConsumerSide, qVars
  <1>4. CASE ~(fence > 0)
    <2>1. Goto(w, IF cur[w] \in Dedicated THEN "assign" ELSE "take") /\ UNCHANGED <<queued, withdrawn>>
      BY <1>4 DEF Got
    <2>2. Calm(w)
      BY <1>2, <2>1 DEF Calm, Minds, Holds, Goto, TurnPC, DonePC, TypeOK, WorkerTypes, qVars, pVars
    <2>. QED
      BY <2>2, CalmMinds
  <1>. QED
    BY <1>3, <1>4

(* A worker that has no call under way may begin one. *)
LEMMA CallSpares ==
  ASSUME TypeOK, NEW w \in Workers, NEW c \in BOOLEAN, NEW k, CallIf(c, w, "enq", k), Ready(w)
  PROVE  \A q \in Queues : KeepsCalls(q)
  BY PostSpares DEF CallIf, Ready, Threads

(* A queue with work that is put back, released or run is enqueued again. *)
LEMMA BackMinds ==
  ASSUME TypeOK, HandInv, OwnerInv, NEW w \in Workers
  PROVE  (PutBack(w) => Minding(w)) /\ (Released(w) => Minding(w)) /\ (Requeue(w) => Minding(w))
  <1>0. Hand(w)
    BY DEF HandInv
  <1>1. ASSUME PutBack(w)
        PROVE  Minding(w)
    <2>1. /\ UNCHANGED <<qVars, owner, event, queued, withdrawn>> /\ Leave(w, "fence") /\ pc[w] = "putback"
          /\ CallIf(HasWork(cur[w]), w, "enq", cur[w])
      BY <1>1 DEF PutBack, sVars, hVars
    <2>2. \A q \in Queues : KeepsCalls(q)
      BY <1>0, <2>1, CallSpares DEF Hand, HasWork
    <2>3. \A q \in Queues : ~Minds(w, q)
      BY <2>1, MindsOne DEF SeekPC
    <2>4. pc'[w] # "parked"
      BY <2>1 DEF Leave, Goto, TypeOK, WorkerTypes
    <2>. QED
      BY <2>1, <2>2, <2>3, <2>4 DEF Minding, Spares, HasWorkOnConsumerSide, qVars
  <1>2. ASSUME Released(w)
        PROVE  Minding(w)
    <2>1. /\ UNCHANGED <<qVars, owner, event, queued, withdrawn>> /\ Leave(w, "top") /\ pc[w] = "released"
          /\ CallIf(HasWorkOnConsumerSide(cur[w]), w, "enq", cur[w])
      BY <1>2 DEF Released, sVars, hVars
    <2>2. \A q \in Queues : KeepsCalls(q)
      BY <1>0, <2>1, CallSpares DEF Hand, HasWorkOnConsumerSide
    <2>3. ded[w] # None
      BY <1>0, <2>1, NoneAssumption DEF Hand, ParkPC, TypeOK, WorkerTypes, Busy, WorkerPC
    <2>4. \A q \in Queues : ~Minds(w, q)
      BY <2>3, MindsOne
    <2>5. pc'[w] # "parked"
      BY <2>1 DEF Leave, Goto, TypeOK, WorkerTypes
    <2>. QED
      BY <2>1, <2>2, <2>4, <2>5 DEF Minding, Spares, HasWorkOnConsumerSide, qVars
  <1>3. ASSUME Requeue(w)
        PROVE  Minding(w)
    <2>1. /\ UNCHANGED <<qVars, owner, event, queued, withdrawn, ded, local>> /\ Leave(w, "top") /\ pc[w] = "requeue"
          /\ CallIf(HasWork(cur[w]), w, "enq", cur[w])
      BY <1>3 DEF Requeue, sVars, hVars
    <2>2. \A q \in Queues : KeepsCalls(q)
      BY <1>0, <2>1, CallSpares DEF Hand, HasWork
    <2>3. PICK k \in Queues : k = cur[w]
      BY <2>1 DEF TypeOK, WorkerTypes, Busy, WorkerPC
    <2>4. owner[k] = None /\ (HasWorkOnConsumerSide(k) <=> HasWork(k))
      BY <1>0, <2>1, <2>3, Sequenced DEF Hand, DonePC
    <2>5. HasWork(k) => Tended(k)'
      <3>1. ASSUME HasWork(k)
            PROVE  Calls(k, {"due", "owner", "enq"})'
        <4>1. Call(w, "enq", k)
          BY <2>1, <2>3, <3>1 DEF CallIf
        <4>2. pq'[w] = k /\ ppc'[w] = "enq" /\ w \in Threads
          BY <4>1 DEF Call, TypeOK, PostTypes, Threads
        <4>. QED
          BY <4>2 DEF Calls
      <3>. QED
        BY <2>1, <2>4, <3>1 DEF Tended
    <2>6. \A q \in Queues \ {k} : ~Minds(w, q)
      BY <2>1, <2>3, MindsOne DEF Busy, WorkerPC
    <2>7. pc'[w] # "parked"
      BY <2>1 DEF Leave, Goto, TypeOK, WorkerTypes
    <2>8. \A q \in Queues \ {k} : Spares(w, q)
      BY <2>1, <2>2, <2>6, <2>7 DEF Spares
    <2>9. \A q \in Queues : HasWorkOnConsumerSide(q)' <=> HasWorkOnConsumerSide(q)
      BY <2>1 DEF HasWorkOnConsumerSide, qVars
    <2>. QED
      BY <2>1, <2>4, <2>5, <2>8, <2>9 DEF Minding
  <1>. QED
    BY <1>1, <1>2, <1>3

(* A worker that is done with a queue and finds work in it goes on to enqueue it. *)
LEMMA RecheckMinds ==
  ASSUME TypeOK, HandInv, OwnerInv, NEW w \in Workers
  PROVE  (Recheck(w) => Minding(w)) /\ (Unmark(w) => Minding(w))
  <1>0. Hand(w)
    BY DEF HandInv
  <1>1. ASSUME Recheck(w)
        PROVE  Minding(w)
    <2>1. UNCHANGED <<qVars, owner, event, queued, withdrawn, ded, local, pVars>> /\ pc[w] = "recheck"
      BY <1>1 DEF Recheck, sVars, hVars
    <2>2. PICK k \in Queues : k = cur[w]
      BY <2>1 DEF TypeOK, WorkerTypes, Busy, WorkerPC
    <2>3. CASE HasWork(k)
      <3>1. Goto(w, "unmark") /\ UNCHANGED cur
        BY <1>1, <2>2, <2>3 DEF Recheck
      <3>2. Calm(w)
        BY <2>1, <3>1 DEF Calm, Minds, Holds, DonePC, Goto, TypeOK, WorkerTypes, qVars, pVars
      <3>. QED
        BY <3>2, CalmMinds
    <2>4. CASE ~HasWork(k)
      <3>1. Leave(w, "top")
        BY <1>1, <2>2, <2>4 DEF Recheck
      <3>2. ~HasWorkOnConsumerSide(k)
        BY <1>0, <2>1, <2>2, <2>4, Sequenced DEF Hand, DonePC
      <3>3. \A q \in Queues \ {k} : ~Minds(w, q)
        BY <2>1, <2>2, MindsOne DEF Busy, WorkerPC
      <3>4. pc'[w] # "parked"
        BY <3>1 DEF Leave, Goto, TypeOK, WorkerTypes
      <3>5. \A q \in Queues \ {k} : Spares(w, q)
        BY <2>1, <3>3, <3>4 DEF Spares, KeepsCalls, pVars
      <3>6. \A q \in Queues : HasWorkOnConsumerSide(q)' <=> HasWorkOnConsumerSide(q)
        BY <2>1 DEF HasWorkOnConsumerSide, qVars
      <3>. QED
        BY <2>1, <3>2, <3>5, <3>6 DEF Minding
    <2>. QED
      BY <2>3, <2>4
  <1>2. ASSUME Unmark(w)
        PROVE  Minding(w)
    <2>1. UNCHANGED <<qVars, owner, event, withdrawn, cur, ded, local, pVars>> /\ pc[w] = "unmark" /\ Goto(w, "requeue")
      BY <1>2 DEF Unmark, hVars
    <2>2. PICK k \in Queues : k = cur[w]
      BY <2>1 DEF TypeOK, WorkerTypes, Busy, WorkerPC
    <2>3. \A q \in Queues \ {k} : queued'[q] = queued[q]
      BY <1>2, <2>2 DEF Unmark, TypeOK, SourceTypes
    <2>4. \A q \in Queues \ {k} : ~Minds(w, q)
      BY <2>1, <2>2, MindsOne DEF Busy, WorkerPC
    <2>5. pc'[w] = "requeue"
      BY <2>1 DEF Goto, TypeOK, WorkerTypes
    <2>6. \A q \in Queues \ {k} : Spares(w, q)
      BY <2>1, <2>3, <2>4, <2>5 DEF Spares, KeepsCalls, pVars
    <2>7. Tended(k)'
      <3>1. owner[k] = None /\ ded[w] = None
        BY <1>0, <2>1, <2>2, Sequenced DEF Hand, DonePC
      <3>2. Minds(w, k)'
        BY <2>1, <2>2, <2>5, <3>1 DEF Minds, Holds, DonePC
      <3>. QED
        BY <2>1, <3>1, <3>2 DEF Tended
    <2>8. \A q \in Queues : HasWorkOnConsumerSide(q)' <=> HasWorkOnConsumerSide(q)
      BY <2>1 DEF HasWorkOnConsumerSide, qVars
    <2>. QED
      BY <2>1, <2>6, <2>7, <2>8 DEF Minding
  <1>. QED
    BY <1>1, <1>2

(* A worker that takes a queue from its hand or its local queue. *)
LEMMA AssignMinds ==
  ASSUME TypeOK, HandInv, OwnerInv, WorkInv, NEW w \in Workers, NEW k \in Dedicated, Assign(w, k), KeepsWorkers(w),
         ded[w] = None, \A q \in Queues \ {k} : ~Minds(w, q),
         UNCHANGED <<qVars, event, pVars, withdrawn>>
  PROVE  Minding(w)
  <1>0. k \in Queues
    BY DedicatedAssumption
  <1>1. \A q \in Queues : HasWorkOnConsumerSide(q)' <=> HasWorkOnConsumerSide(q)
    BY DEF HasWorkOnConsumerSide, qVars
  <1>2. CASE owner[k] \in {None, w}
    <2>1. /\ owner' = [owner EXCEPT ![k] = w]
          /\ queued' = [queued EXCEPT ![k] = @ /\ owner[k] = w]
          /\ Goto(w, "take")
      BY <1>2 DEF Assign
    <2>2. \A q \in Queues \ {k} : owner'[q] = owner[q] /\ queued'[q] = queued[q]
      BY <2>1 DEF TypeOK, SourceTypes
    <2>3. owner'[k] = w /\ pc'[w] = "take"
      BY <1>0, <2>1 DEF Goto, TypeOK, SourceTypes, WorkerTypes
    <2>4. Tended(k)'
      BY <2>3, NoneAssumption DEF Tended
    <2>5. \A q \in Queues \ {k} : Spares(w, q)
      BY <2>2, <2>3 DEF Spares, KeepsCalls, pVars
    <2>. QED
      BY <1>1, <2>4, <2>5 DEF Minding
  <1>3. CASE owner[k] \notin {None, w}
    <2>1. Leave(w, "top") /\ UNCHANGED <<owner, queued>>
      BY <1>3 DEF Assign
    <2>2. pc'[w] = "top"
      BY <2>1 DEF Leave, Goto, TypeOK, WorkerTypes
    <2>3. \A q \in Queues \ {k} : Spares(w, q)
      BY <2>1, <2>2 DEF Spares, KeepsCalls, pVars
    <2>4. ASSUME k \notin withdrawn, HasWorkOnConsumerSide(k)
          PROVE  Tended(k)'
      <3>1. owner[k] \in Workers /\ owner[k] # w /\ owner[k] # None
        BY <1>0, <1>3 DEF TypeOK, SourceTypes
      <3>2. pc'[owner[k]] = pc[owner[k]]
        BY <3>1 DEF KeepsWorkers
      <3>. QED
        BY <1>0, <2>1, <2>4, <3>1, <3>2, OwnedTended DEF WorkInv
    <2>. QED
      BY <1>1, <2>3, <2>4 DEF Minding
  <1>. QED
    BY <1>2, <1>3

(* A queue that was claimed, or that comes from the local queue, is minded. *)
LEMMA LocalMinds ==
  ASSUME TypeOK, HandInv, OwnerInv, WorkInv, NEW w \in Workers
  PROVE  (AssignClaimed(w) => Minding(w)) /\ (TopLocal(w) => Minding(w))
  <1>0. Hand(w)
    BY DEF HandInv
  <1>1. ASSUME AssignClaimed(w)
        PROVE  Minding(w)
    <2>1. pc[w] = "assign" /\ Assign(w, cur[w]) /\ UNCHANGED <<qVars, event, pVars, withdrawn>>
      BY <1>1 DEF AssignClaimed, hVars
    <2>2. ded[w] = None /\ cur[w] \in Dedicated
      BY <1>0, <2>1 DEF Hand, SeekPC
    <2>3. \A q \in Queues \ {cur[w]} : ~Minds(w, q)
      BY <2>1, MindsOne DEF Busy, WorkerPC
    <2>. QED
      BY <1>1, <2>1, <2>2, <2>3, AssignMinds, WorkerAlone
  <1>2. ASSUME TopLocal(w)
        PROVE  Minding(w)
    <2>1. pc[w] = "top" /\ ded[w] = None /\ local[w] # <<>> /\ UNCHANGED <<qVars, event, pVars, withdrawn>>
      BY <1>2 DEF TopLocal, hVars
    <2>2. local[w] \in Seq(Queues)
      BY DEF TypeOK, WorkerTypes
    <2>3. PICK k \in Queues : k = Head(local[w]) /\ Has(local[w], k)
      BY <2>1, <2>2, HasTail, HeadTailProperties
    <2>4. \A q \in Queues \ {k} : ~Minds(w, q)
      BY <1>0, <2>1, <2>3 DEF Hand, Minds, Holds, TurnPC, DonePC
    <2>5. CASE k \in Dedicated
      <3>1. Assign(w, k)
        BY <1>2, <2>3, <2>5 DEF TopLocal
      <3>. QED
        BY <1>2, <2>1, <2>4, <2>5, <3>1, AssignMinds, WorkerAlone
    <2>6. CASE k \notin Dedicated
      <3>1. Goto(w, "take") /\ cur' = [cur EXCEPT ![w] = k] /\ UNCHANGED <<owner, queued, ded>>
        BY <1>2, <2>3, <2>6 DEF TopLocal
      <3>2. pc'[w] = "take" /\ cur'[w] = k
        BY <3>1 DEF Goto, TypeOK, WorkerTypes
      <3>3. \A q \in Queues \ {k} : Spares(w, q)
        BY <2>1, <2>4, <3>1, <3>2 DEF Spares, KeepsCalls, pVars
      <3>4. Minds(w, k)'
        BY <2>1, <3>1, <3>2 DEF Minds, Holds, TurnPC
      <3>5. Tended(k)'
        BY <2>6, <3>1, <3>4, Sequenced DEF Tended
      <3>6. \A q \in Queues : HasWorkOnConsumerSide(q)' <=> HasWorkOnConsumerSide(q)
        BY <2>1 DEF HasWorkOnConsumerSide, qVars
      <3>. QED
        BY <2>1, <3>3, <3>5, <3>6 DEF Minding
    <2>. QED
      BY <2>5, <2>6
  <1>. QED
    BY <1>1, <1>2

(* A worker that takes a batch still has the queue. *)
LEMMA TakeMinds ==
  ASSUME TypeOK, HandInv, OwnerInv, NEW w \in Workers, Take(w)
  PROVE  Minding(w)
  <1>1. /\ pc[w] = "take" /\ UNCHANGED <<owner, event, queued, withdrawn, cur, ded, local, pVars>>
        /\ \E l \in {"turned", "run", "runfull"} : Goto(w, l)
    BY DEF Take, sVars
  <1>2. PICK k \in Queues : k = cur[w]
    BY <1>1 DEF TypeOK, WorkerTypes, Busy, WorkerPC
  <1>3. pc'[w] \in {"turned", "run", "runfull"}
    BY <1>1 DEF Goto, TypeOK, WorkerTypes
  <1>4. \A q \in Queues \ {k} : incoming'[q] = incoming[q] /\ private'[q] = private[q]
    BY <1>2 DEF Take, TypeOK, QueueTypes, qVars
  <1>5. \A q \in Queues \ {k} : ~Minds(w, q)
    BY <1>1, <1>2, MindsOne DEF Busy, WorkerPC
  <1>6. \A q \in Queues \ {k} : Spares(w, q)
    BY <1>1, <1>3, <1>5 DEF Spares, KeepsCalls, pVars
  <1>7. Hand(w)
    BY DEF HandInv
  <1>8. Tended(k)'
    <2>1. CASE k \in Dedicated
      <3>1. ded[w] = k
        BY <1>1, <1>2, <1>7, <2>1 DEF Hand, TurnPC
      <3>2. owner[k] = w
        BY <1>1, <3>1 DEF OwnerInv
      <3>. QED
        BY <1>1, <1>3, <3>2, NoneAssumption DEF Tended
    <2>2. CASE k \notin Dedicated
      <3>1. owner[k] = None /\ ded[w] = None
        BY <1>1, <1>2, <1>7, <2>2, Sequenced DEF Hand, TurnPC
      <3>2. Minds(w, k)'
        BY <1>1, <1>2, <1>3, <3>1 DEF Minds, Holds, TurnPC
      <3>. QED
        BY <1>1, <3>1, <3>2 DEF Tended
    <2>. QED
      BY <2>1, <2>2
  <1>. QED
    BY <1>1, <1>4, <1>6, <1>8 DEF Minding, HasWorkOnConsumerSide

(* A scan that drops an entry leaves the queue with whoever has claimed it. *)
LEMMA ScanMinds ==
  ASSUME TypeOK, HandInv, OwnerInv, EntryInv, HeldInv, WorkInv, NEW w \in Workers, Scan(w)
  PROVE  Minding(w)
  <1>1. pc[w] = "scan" /\ UNCHANGED <<qVars, owner, event, withdrawn, ded, local, pVars>>
    BY DEF Scan, hVars
  <1>2. ded[w] = None /\ \A q \in Queues : ~Minds(w, q)
    BY <1>1, MindsOne DEF HandInv, Hand, SeekPC
  <1>3. pc'[w] \in {"decide", "scan", "got"}
    BY ScanOutcome DEF Sweeps, Picks, Goto, TypeOK, WorkerTypes
  <1>4. KeepsWorkers(w)
    BY WorkerAlone
  <1>5. \A q \in Queues : HasWorkOnConsumerSide(q)' <=> HasWorkOnConsumerSide(q)
    BY <1>1 DEF HasWorkOnConsumerSide, qVars
  <1>. SUFFICES ASSUME NEW q \in Queues, q \notin withdrawn, HasWorkOnConsumerSide(q), Tended(q)
                PROVE  Spares(w, q) \/ Tended(q)'
    BY <1>1, <1>5 DEF Minding, WorkInv
  <1>6. CASE queued[q] => queued'[q]
    BY <1>1, <1>2, <1>3, <1>6 DEF Spares, KeepsCalls, pVars
  <1>7. CASE owner[q] # None
    <2>1. owner[q] # w /\ owner[q] \in Workers
      BY <1>2, <1>7, OwnerFacts, NoneAssumption
    <2>2. pc'[owner[q]] = pc[owner[q]]
      BY <1>4, <2>1 DEF KeepsWorkers
    <2>. QED
      BY <1>1, <1>7, <2>2, OwnedTended
  <1>8. CASE queued[q] /\ ~queued'[q] /\ owner[q] = None
    <2>1. CASE has_worker[q]
      <3>1. PICK v \in Workers : Holds(v, q, TurnPC \cup {"got", "assign"})
        BY <1>8, <2>1 DEF HeldInv
      <3>2. v # w
        BY <1>1, <3>1 DEF Holds, TurnPC
      <3>3. Minds(v, q)'
        BY <1>4, <3>1, <3>2 DEF Minds, Holds, KeepsWorkers
      <3>. QED
        BY <1>1, <1>8, <3>3 DEF Tended
    <2>2. CASE pc'[w] = "got" /\ cur'[w] = q
      <3>1. Minds(w, q)'
        BY <1>1, <1>2, <2>2 DEF Minds, Holds
      <3>. QED
        BY <1>1, <1>8, <3>1 DEF Tended
    <2>. QED
      BY <1>8, <2>1, <2>2, ScanOutcome
  <1>. QED
    BY <1>6, <1>7, <1>8

(* An owner parks, wakes and releases its queue. *)
LEMMA ParkMinds ==
  ASSUME TypeOK, HandInv, OwnerInv, NEW w \in Workers
  PROVE  (Park(w) => Minding(w)) /\ (ParkWake(w) => Minding(w)) /\ (Release(w) => Minding(w))
  <1>. SUFFICES ASSUME Park(w) \/ ParkWake(w) \/ Release(w)
                PROVE  Minding(w)
    OBVIOUS
  <1>0. Hand(w) /\ pc[w] \in {"park", "parklast", "parked", "release"}
    BY DEF HandInv, Park, ParkWake, Release
  <1>1. PICK k \in Queues : k = cur[w] /\ ded[w] = k /\ owner[k] = w
    BY <1>0 DEF Hand, ParkPC, OwnerInv, TypeOK, WorkerTypes, Busy, WorkerPC
  <1>2. UNCHANGED <<qVars, queued, ded, local, pVars>>
    BY DEF Park, ParkWake, Release, sVars
  <1>3. \A q \in Queues : ~Minds(w, q) /\ (q # k => owner[q] # w)
    BY <1>1, MindsOne, NoneAssumption DEF OwnerInv
  <1>4. \A q \in Queues : HasWorkOnConsumerSide(q)' <=> HasWorkOnConsumerSide(q)
    BY <1>2 DEF HasWorkOnConsumerSide, qVars
  <1>5. \A q \in Queues \ {k} : owner'[q] = owner[q] /\ event'[q] = event[q]
    BY <1>1 DEF Park, ParkWake, Release, sVars, TypeOK, SourceTypes
  <1>6. \A q \in Queues \ {k} : Spares(w, q)
    BY <1>2, <1>3, <1>5 DEF Spares, KeepsCalls, pVars
  <1>7. withdrawn \subseteq withdrawn'
    BY DEF Park, ParkWake, Release, hVars
  <1>8. HasWorkOnConsumerSide(k) /\ k \notin withdrawn' => Tended(k)'
    <2>1. CASE Park(w)
      <3>1. HasWorkOnConsumerSide(k) => pc'[w] = "top" /\ owner'[k] = w
        BY <1>1, <2>1 DEF Park, Leave, Goto, sVars, TypeOK, WorkerTypes
      <3>. QED
        BY <3>1, NoneAssumption DEF Tended
    <2>2. CASE ParkWake(w)
      <3>1. pc'[w] = "park" /\ owner'[k] = w
        BY <1>1, <2>2 DEF ParkWake, Goto, TypeOK, WorkerTypes
      <3>. QED
        BY <3>1, NoneAssumption DEF Tended
    <2>3. CASE Release(w)
      BY <1>1, <2>3 DEF Release
    <2>. QED
      BY <2>1, <2>2, <2>3
  <1>. QED
    BY <1>4, <1>6, <1>7, <1>8 DEF Minding

(* Every step keeps every queue with work tended. *)
LEMMA WorkStep ==
  ASSUME TypeOK, HandInv, OwnerInv, EntryInv, HeldInv, WorkInv, [Next]_vars
  PROVE  WorkInv'
  <1>1. ASSUME NEW w \in Workers, Work(w) \/ WakeUnasked(w) \/ ParkTimeout(w)
        PROVE  WorkInv'
    <2>1. KeepsWorkers(w)
      BY <1>1, WorkerAlone DEF Work
    <2>2. Calm(w) => Minding(w)
      BY CalmMinds
    <2>3. Minding(w)
      BY <1>1, <2>2, WorkerCalm, GotMinds, BackMinds, RecheckMinds, LocalMinds, TakeMinds,
         ScanMinds, ParkMinds DEF Work
    <2>. QED
      BY <2>1, <2>3, MindingWork
  <1>2. CASE Fence \/ UNCHANGED vars
    <2>1. UNCHANGED <<qVars, sVars, wVars, pVars, withdrawn>>
      BY <1>2 DEF Fence, BeginFence, CountFence, EndFence, SignalFence, vars, hVars
    <2>2. \A q \in Queues : Spares(None, q)
      BY <2>1, NoneAssumption DEF Spares, KeepsCalls, pVars, sVars
    <2>3. KeepsWorkers(None)
      BY <2>1 DEF KeepsWorkers, wVars
    <2>4. Minding(None)
      BY <2>1, <2>2 DEF Minding, HasWorkOnConsumerSide, qVars
    <2>. QED
      BY <2>3, <2>4, MindingWork
  <1>. QED
    BY <1>1, <1>2, WorkPost, WorkPush, WorkPromote DEF Next

----------------------------------------------------------------------------
(* What a worker has missed since it read the generation. *)
KeepsBumps == \A t \in Threads : ppc[t] = "bump" => ppc'[t] = "bump" /\ pq'[t] = pq[t]
Missed == \A v \in Workers, s \in 0..Shards-1 : Passed(v, s)' => Passed(v, s)

(* A step that marks nothing and lets no worker pass a shard keeps FreshInv. *)
LEMMA FreshFrame ==
  ASSUME FreshInv, fresh \subseteq Workers, fresh' \subseteq fresh, KeepsBumps, Missed,
         \A q \in Queues : queued'[q] => queued[q]
  PROVE  FreshInv'
  <1>. SUFFICES ASSUME NEW w \in fresh', NEW q \in Queues, queued'[q], Passed(w, ShardOf[q])'
                PROVE  Calls(q, {"bump"})'
    BY DEF FreshInv
  <1>1. Passed(w, ShardOf[q])
    BY ShardAssumption DEF Missed
  <1>2. PICK t \in Threads : pq[t] = q /\ ppc[t] = "bump"
    BY <1>1 DEF FreshInv, Calls
  <1>. QED
    BY <1>2 DEF KeepsBumps, Calls

(* Only Observe and Scan go on to a shard. *)
LEMMA WorkerMissed ==
  ASSUME TypeOK, NEW w \in Workers
  PROVE  /\ TopDedicated(w) => Missed /\ UNCHANGED fresh
         /\ Decide(w) => Missed /\ UNCHANGED fresh
         /\ Wake(w) => Missed /\ UNCHANGED fresh
         /\ WakeUnasked(w) => Missed /\ UNCHANGED fresh
         /\ Got(w) => Missed /\ UNCHANGED fresh
         /\ PutBack(w) => Missed /\ UNCHANGED fresh
         /\ FenceTest(w) => Missed /\ UNCHANGED fresh
         /\ FenceWake(w) => Missed /\ UNCHANGED fresh
         /\ AssignClaimed(w) => Missed /\ UNCHANGED fresh
         /\ TopLocal(w) => Missed /\ UNCHANGED fresh
         /\ Take(w) => Missed /\ UNCHANGED fresh
         /\ Finish(w) => Missed /\ UNCHANGED fresh
         /\ Turned(w) => Missed /\ UNCHANGED fresh
         /\ Recheck(w) => Missed /\ UNCHANGED fresh
         /\ Unmark(w) => Missed /\ UNCHANGED fresh
         /\ Requeue(w) => Missed /\ UNCHANGED fresh
         /\ Park(w) => Missed /\ UNCHANGED fresh
         /\ ParkWake(w) => Missed /\ UNCHANGED fresh
         /\ ParkTimeout(w) => Missed /\ UNCHANGED fresh
         /\ Release(w) => Missed /\ UNCHANGED fresh
         /\ Released(w) => Missed /\ UNCHANGED fresh
  <1>. USE DEF Missed, Passed, TypeOK, WorkerTypes, Goto, Leave, gVars, wVars
  <1>1. TopDedicated(w) => Missed /\ UNCHANGED fresh
    BY DEF TopDedicated
  <1>2. Decide(w) => Missed /\ UNCHANGED fresh
    BY DEF Decide
  <1>3. Wake(w) => Missed /\ UNCHANGED fresh
    BY DEF Wake
  <1>4. WakeUnasked(w) => Missed /\ UNCHANGED fresh
    BY DEF WakeUnasked
  <1>5. Got(w) => Missed /\ UNCHANGED fresh
    BY DEF Got
  <1>6. PutBack(w) => Missed /\ UNCHANGED fresh
    BY DEF PutBack
  <1>7. FenceTest(w) => Missed /\ UNCHANGED fresh
    BY DEF FenceTest
  <1>8. FenceWake(w) => Missed /\ UNCHANGED fresh
    BY DEF FenceWake
  <1>9. AssignClaimed(w) => Missed /\ UNCHANGED fresh
    BY DEF AssignClaimed, Assign
  <1>10. TopLocal(w) => Missed /\ UNCHANGED fresh
    BY DEF TopLocal, Assign
  <1>11. Take(w) => Missed /\ UNCHANGED fresh
    BY DEF Take
  <1>12. Finish(w) => Missed /\ UNCHANGED fresh
    BY DEF Finish, Running
  <1>13. Turned(w) => Missed /\ UNCHANGED fresh
    BY DEF Turned
  <1>14. Recheck(w) => Missed /\ UNCHANGED fresh
    BY DEF Recheck
  <1>15. Unmark(w) => Missed /\ UNCHANGED fresh
    BY DEF Unmark
  <1>16. Requeue(w) => Missed /\ UNCHANGED fresh
    BY DEF Requeue
  <1>17. Park(w) => Missed /\ UNCHANGED fresh
    BY DEF Park
  <1>18. ParkWake(w) => Missed /\ UNCHANGED fresh
    BY DEF ParkWake
  <1>19. ParkTimeout(w) => Missed /\ UNCHANGED fresh
    BY DEF ParkTimeout
  <1>20. Release(w) => Missed /\ UNCHANGED fresh
    BY DEF Release
  <1>21. Released(w) => Missed /\ UNCHANGED fresh
    BY DEF Released
  <1>. QED
    BY <1>1, <1>2, <1>3, <1>4, <1>5, <1>6, <1>7, <1>8, <1>9, <1>10, <1>11, <1>12, <1>13, <1>14,
       <1>15, <1>16, <1>17, <1>18, <1>19, <1>20, <1>21

(* A worker ends no call that has yet to move the generation. *)
LEMMA WorkerBumps ==
  ASSUME TypeOK, HandInv, NEW w \in Workers, Work(w) \/ WakeUnasked(w) \/ ParkTimeout(w)
  PROVE  KeepsBumps
  <1>1. CASE UNCHANGED pVars
    BY <1>1 DEF KeepsBumps, pVars
  <1>2. CASE PutBack(w) \/ Requeue(w) \/ Released(w)
    <2>1. ppc[w] = "idle"
      BY <1>2 DEF HandInv, Hand, PutBack, Requeue, Released, Ready
    <2>2. UNCHANGED pVars \/ \E l, k : Call(w, l, k)
      BY <1>2 DEF PutBack, Requeue, Released, CallIf
    <2>. QED
      BY <1>1, <2>1, <2>2 DEF KeepsBumps, Call, TypeOK, PostTypes, Threads
  <1>. QED
    BY <1>1, <1>2 DEF Work, TopDedicated, TopLocal, Observe, Scan, Decide, Wake, Got,
       FenceTest, FenceWake,
      AssignClaimed, Take, Finish, Turned, Recheck, Unmark, Park, ParkWake, Release, WakeUnasked, ParkTimeout

(* A worker that reads the generation has passed nothing yet. *)
LEMMA FreshObserve ==
  ASSUME TypeOK, FreshInv, NEW w \in Workers, Observe(w)
  PROVE  FreshInv'
  <1>1. fresh' = fresh \cup {w} /\ at' = [at EXCEPT ![w] = 0] /\ Goto(w, "scan") /\ UNCHANGED <<queued, pVars>>
    BY DEF Observe, sVars
  <1>2. \A s \in 0..Shards-1 : ~Passed(w, s)'
    BY <1>1, ShardAssumption DEF Passed, Goto, TypeOK, WorkerTypes
  <1>3. \A v \in Workers \ {w}, s \in 0..Shards-1 : Passed(v, s)' => Passed(v, s)
    BY <1>1 DEF Passed, Goto, TypeOK, WorkerTypes
  <1>4. \A q \in Queues : Calls(q, {"bump"}) => Calls(q, {"bump"})'
    BY <1>1 DEF Calls, pVars
  <1>. SUFFICES ASSUME NEW v \in fresh', NEW q \in Queues, queued'[q], Passed(v, ShardOf[q])'
                PROVE  Calls(q, {"bump"})
    BY <1>4 DEF FreshInv
  <1>5. v \in Workers /\ ShardOf[q] \in 0..Shards-1
    BY <1>1, ShardAssumption DEF TypeOK, WakeTypes
  <1>6. v # w /\ Passed(v, ShardOf[q])
    BY <1>2, <1>3, <1>5
  <1>. QED
    BY <1>1, <1>6 DEF FreshInv

(* A scan leaves a shard only with nothing marked in it. *)
LEMMA FreshScan ==
  ASSUME TypeOK, EntryInv, FreshInv, NEW w \in Workers, Scan(w)
  PROVE  FreshInv'
  <1>1. pc[w] = "scan" /\ UNCHANGED <<fresh, pVars>>
    BY DEF Scan, gVars
  <1>2. \A q \in Queues : queued'[q] => queued[q]
    BY ScanOutcome
  <1>3. \A q \in Queues : Calls(q, {"bump"}) => Calls(q, {"bump"})'
    BY <1>1 DEF Calls, pVars
  <1>4. ASSUME NEW q \in Queues, queued'[q], Passed(w, ShardOf[q])'
        PROVE  Passed(w, ShardOf[q])
    <2>1. Sweeps(w)
      <3>1. pc'[w] # "got"
        BY <1>4 DEF Passed
      <3>. QED
        BY <3>1, ScanOutcome DEF Picks, Goto, TypeOK, WorkerTypes
    <2>2. ShardOf[q] # at[w] /\ ShardOf[q] \in 0..Shards-1 /\ at[w] \in 0..Shards-1 /\ Shards \in Nat
      BY <1>4, <2>1, ShardAssumption DEF Sweeps, TypeOK, WorkerTypes
    <2>3. CASE at[w] = Shards - 1
      <3>1. ShardOf[q] < at[w]
        BY <2>2, <2>3
      <3>. QED
        BY <1>1, <3>1 DEF Passed
    <2>4. CASE at[w] # Shards - 1
      <3>1. at'[w] = at[w] + 1 /\ pc'[w] = "scan"
        BY <2>1, <2>4 DEF Sweeps, Following, Goto, TypeOK, WorkerTypes
      <3>2. ShardOf[q] < at[w] + 1
        BY <1>4, <3>1 DEF Passed
      <3>3. ShardOf[q] < at[w]
        BY <2>2, <3>2
      <3>. QED
        BY <1>1, <3>3 DEF Passed
    <2>. QED
      BY <2>3, <2>4
  <1>5. \A v \in Workers \ {w} : pc'[v] = pc[v] /\ at'[v] = at[v]
    BY DEF Scan, Goto, TypeOK, WorkerTypes
  <1>. SUFFICES ASSUME NEW v \in fresh, NEW q \in Queues, queued'[q], Passed(v, ShardOf[q])'
                PROVE  Calls(q, {"bump"})
    BY <1>1, <1>3 DEF FreshInv
  <1>6. v \in Workers
    BY DEF TypeOK, WakeTypes
  <1>7. Passed(v, ShardOf[q])
    BY <1>4, <1>5, <1>6 DEF Passed
  <1>. QED
    BY <1>2, <1>7 DEF FreshInv

(* A new entry is one whose thread is to bump; the bump leaves no worker fresh. *)
LEMMA FreshPost ==
  ASSUME TypeOK, EntryInv, FreshInv, NEW t \in Threads, Post(t)
  PROVE  FreshInv'
  <1>1. UNCHANGED wVars
    BY DEF Post, FindOwner, WakeDedicatedWorker, Enqueue, NotifyBump, NotifySignal
  <1>2. Missed
    BY <1>1 DEF Missed, Passed, wVars
  <1>3. fresh \subseteq Workers
    BY DEF TypeOK, WakeTypes
  <1>4. CASE FindOwner(t) \/ WakeDedicatedWorker(t) \/ NotifySignal(t)
    <2>1. /\ ppc[t] # "bump" /\ UNCHANGED <<queued, fresh>>
          /\ \E l, k : Call(t, l, k)
      BY <1>4 DEF FindOwner, WakeDedicatedWorker, NotifySignal, Done, sVars, gVars
    <2>2. KeepsBumps
      BY <2>1 DEF KeepsBumps, Call, TypeOK, PostTypes
    <2>. QED
      BY <1>2, <1>3, <2>1, <2>2, FreshFrame
  <1>5. CASE NotifyBump(t)
    BY <1>5 DEF NotifyBump, FreshInv
  <1>6. CASE Enqueue(t)
    <2>1. ppc[t] = "enq" /\ UNCHANGED fresh
      BY <1>6 DEF Enqueue, gVars
    <2>2. CASE UNCHANGED queued /\ Done(t)
      <3>1. KeepsBumps
        BY <2>1, <2>2 DEF KeepsBumps, Done, Call, TypeOK, PostTypes
      <3>. QED
        BY <1>2, <1>3, <2>1, <2>2, <3>1, FreshFrame
    <2>3. ASSUME NEW k \in Queues, Enters(t, k)
          PROVE  FreshInv'
      <3>1. ppc'[t] = "bump" /\ pq'[t] = k /\ KeepsBumps
        BY <2>1, <2>3 DEF Enters, KeepsBumps, Call, TypeOK, PostTypes
      <3>2. \A q \in Queues \ {k} : queued'[q] = queued[q]
        BY <2>3 DEF Enters, TypeOK, SourceTypes
      <3>3. Calls(k, {"bump"})'
        BY <3>1 DEF Calls
      <3>4. \A q \in Queues : Calls(q, {"bump"}) => Calls(q, {"bump"})'
        BY <3>1 DEF Calls, KeepsBumps
      <3>5. \A v \in Workers : \A s : Passed(v, s)' <=> Passed(v, s)
        BY <1>1 DEF Passed, wVars
      <3>. QED
        BY <1>3, <2>1, <3>2, <3>3, <3>4, <3>5 DEF FreshInv
    <2>. QED
      BY <1>6, <2>2, <2>3, EnqueueOutcome
  <1>. QED
    BY <1>4, <1>5, <1>6 DEF Post

(* Every step keeps FreshInv. *)
LEMMA FreshStep ==
  ASSUME TypeOK, HandInv, EntryInv, FreshInv, [Next]_vars
  PROVE  FreshInv'
  <1>0. fresh \subseteq Workers
    BY DEF TypeOK, WakeTypes
  <1>1. ASSUME NEW w \in Workers, Work(w) \/ WakeUnasked(w) \/ ParkTimeout(w)
        PROVE  FreshInv'
    <2>1. CASE Scan(w) \/ Observe(w)
      BY <2>1, FreshScan, FreshObserve
    <2>2. CASE ~Scan(w) /\ ~Observe(w)
      <3>1. Missed /\ UNCHANGED fresh
        BY <1>1, <2>2, WorkerMissed DEF Work
      <3>2. \A q \in Queues : queued'[q] => queued[q]
        BY <1>1, <2>2, WorkerFewer DEF Fewer
      <3>. QED
        BY <1>0, <1>1, <3>1, <3>2, WorkerBumps, FreshFrame
    <2>. QED
      BY <2>1, <2>2
  <1>2. ASSUME UNCHANGED <<fresh, queued, pc, at>>, KeepsBumps
        PROVE  FreshInv'
    <2>1. Missed
      BY <1>2 DEF Missed, Passed
    <2>. QED
      BY <1>0, <1>2, <2>1, FreshFrame
  <1>3. ASSUME NEW t \in Workers \cup Posters, NEW q \in Queues, Push(t, q)
        PROVE  FreshInv'
    <2>1. UNCHANGED <<fresh, queued, pc, at>> /\ ppc[t] = "idle"
      BY <1>3 DEF Push, Ready, sVars, gVars
    <2>2. UNCHANGED pVars \/ \E l, k : Call(t, l, k)
      BY <1>3 DEF Push, ReEnqueueTaskQueue, pVars
    <2>3. KeepsBumps
      BY <2>1, <2>2 DEF KeepsBumps, Call, pVars, Threads, TypeOK, PostTypes
    <2>. QED
      BY <1>2, <2>1, <2>3
  <1>4. ASSUME (\E q \in Queues : Promote(q)) \/ PromoteReady
        PROVE  FreshInv'
    <2>1. /\ UNCHANGED <<fresh, queued, pc, at>> /\ ppc[Manager] # "bump"
          /\ \E l, k : Call(Manager, l, k)
      BY <1>4 DEF Promote, PromoteReady, Ready, Done, sVars, gVars, wVars
    <2>2. KeepsBumps
      BY <2>1 DEF KeepsBumps, Call, Threads, TypeOK, PostTypes
    <2>. QED
      BY <1>2, <2>1, <2>2
  <1>5. ASSUME Fence \/ UNCHANGED vars
        PROVE  FreshInv'
    <2>1. UNCHANGED <<fresh, queued, pc, at, ppc, pq>>
      BY <1>5 DEF Fence, BeginFence, CountFence, EndFence, SignalFence, vars, sVars, gVars,
         wVars, pVars
    <2>2. KeepsBumps
      BY <2>1 DEF KeepsBumps
    <2>. QED
      BY <1>2, <2>1, <2>2
  <1>. QED
    BY <1>1, <1>3, <1>4, <1>5, FreshPost DEF Next

----------------------------------------------------------------------------
(* As many helpers as marked queues: nothing to do when the queues get fewer   *)
(* and the helpers more.                                                      *)
LEMMA MatchFrame ==
  ASSUME MatchInv, sleeping' # {} => sleeping # {}, Entered' \subseteq Entered, Helpers \subseteq Helpers'
  PROVE  MatchInv'
  <1>. SUFFICES ASSUME sleeping' # {}
                PROVE  \E f \in [Entered' -> Helpers'] : \A p, q \in Entered' : f[p] = f[q] => p = q
    BY DEF MatchInv
  <1>1. PICK f \in [Entered -> Helpers] : \A p, q \in Entered : f[p] = f[q] => p = q
    BY DEF MatchInv
  <1>2. PICK g : g = [q \in Entered' |-> f[q]]
    OBVIOUS
  <1>3. g \in [Entered' -> Helpers']
    BY <1>1, <1>2
  <1>4. \A p, q \in Entered' : g[p] = g[q] => p = q
    BY <1>1, <1>2
  <1>. QED
    BY <1>3, <1>4

(* A queue that is marked brings its own helper. *)
LEMMA MatchMore ==
  ASSUME MatchInv, sleeping' # {} => sleeping # {}, NEW k, NEW h,
         Entered' \subseteq Entered \cup {k}, Helpers' = Helpers \cup {h}, h \notin Helpers
  PROVE  MatchInv'
  <1>. SUFFICES ASSUME sleeping' # {}
                PROVE  \E f \in [Entered' -> Helpers'] : \A p, q \in Entered' : f[p] = f[q] => p = q
    BY DEF MatchInv
  <1>1. PICK f \in [Entered -> Helpers] : \A p, q \in Entered : f[p] = f[q] => p = q
    BY DEF MatchInv
  <1>2. PICK g : g = [q \in Entered' |-> IF q \in Entered THEN f[q] ELSE h]
    OBVIOUS
  <1>3. g \in [Entered' -> Helpers']
    BY <1>1, <1>2
  <1>4. \A p, q \in Entered' : g[p] = g[q] => p = q
    BY <1>1, <1>2
  <1>. QED
    BY <1>3, <1>4

(* A helper may be replaced by another. *)
LEMMA MatchOther ==
  ASSUME MatchInv, sleeping # {}, NEW h, NEW i,
         Entered' \subseteq Entered, Helpers \subseteq Helpers' \cup {h}, i \in Helpers', i \notin Helpers
  PROVE  MatchInv'
  <1>1. PICK f \in [Entered -> Helpers] : \A p, q \in Entered : f[p] = f[q] => p = q
    BY DEF MatchInv
  <1>2. PICK g : g = [q \in Entered' |-> IF f[q] = h THEN i ELSE f[q]]
    OBVIOUS
  <1>3. g \in [Entered' -> Helpers']
    BY <1>1, <1>2
  <1>4. \A p, q \in Entered' : g[p] = g[q] => p = q
    BY <1>1, <1>2
  <1>. QED
    BY <1>3, <1>4 DEF MatchInv

(* A helper that leaves takes a queue with it, and lets another take the one   *)
(* it was to help.                                                            *)
LEMMA MatchLeave ==
  ASSUME MatchInv, sleeping' # {} => sleeping # {}, NEW k \in Entered, NEW h,
         Entered' \subseteq Entered \ {k}, Helpers \subseteq Helpers' \cup {h}
  PROVE  MatchInv'
  <1>. SUFFICES ASSUME sleeping' # {}
                PROVE  \E f \in [Entered' -> Helpers'] : \A p, q \in Entered' : f[p] = f[q] => p = q
    BY DEF MatchInv
  <1>1. PICK f \in [Entered -> Helpers] : \A p, q \in Entered : f[p] = f[q] => p = q
    BY DEF MatchInv
  <1>2. PICK g : g = [q \in Entered' |-> IF f[q] = h THEN f[k] ELSE f[q]]
    OBVIOUS
  <1>3. ASSUME NEW q \in Entered'
        PROVE  g[q] \in Helpers'
    <2>1. q \in Entered /\ q # k /\ f[q] # f[k]
      BY <1>1, <1>3
    <2>. QED
      BY <1>1, <1>2, <2>1
  <1>4. \A p, q \in Entered' : g[p] = g[q] => p = q
    BY <1>1, <1>2
  <1>5. g \in [Entered' -> Helpers']
    BY <1>2, <1>3
  <1>. QED
    BY <1>4, <1>5

(* Who remains a helper. *)
LEMMA HelpersGrow ==
  ASSUME \A v \in Workers : Seeks(v) => Seeks(v)',
         \A t \in Threads : ppc[t] \in {"bump", "signal"} => ppc'[t] \in {"bump", "signal"}
  PROVE  Helpers \subseteq Helpers'
  BY DEF Helpers

(* A worker that goes to sleep or exits though a queue is marked: a thread is  *)
(* about to bump the generation for each such queue.                           *)
LEMMA MatchFresh ==
  ASSUME TypeOK, FreshInv, NEW w \in fresh, pc[w] \in {"decide", "wait"}, UNCHANGED <<queued, pVars>>
  PROVE  MatchInv'
  <1>1. \A q \in Entered : \E t \in Threads : pq[t] = q /\ ppc[t] = "bump"
    <2>. SUFFICES ASSUME NEW q \in Queues, queued[q]
                  PROVE  \E t \in Threads : pq[t] = q /\ ppc[t] = "bump"
      BY DEF Entered
    <2>1. Calls(q, {"bump"})
      BY DEF FreshInv, Passed
    <2>. QED
      BY <2>1 DEF Calls
  <1>2. Entered' = Entered
    BY DEF Entered
  <1>3. \A t \in Threads : ppc[t] = "bump" => <<1, t>> \in Helpers'
    BY DEF Helpers, pVars
  <1>4. PICK f : f = [q \in Entered |-> <<1, CHOOSE t \in Threads : pq[t] = q /\ ppc[t] = "bump">>]
    OBVIOUS
  <1>5. \A q \in Entered : \E t \in Threads : f[q] = <<1, t>> /\ pq[t] = q /\ ppc[t] = "bump"
    BY <1>1, <1>4
  <1>6. f \in [Entered -> Helpers']
    BY <1>3, <1>4, <1>5
  <1>7. ASSUME NEW p \in Entered, NEW q \in Entered, f[p] = f[q]
        PROVE  p = q
    <2>1. PICK t \in Threads : f[p] = <<1, t>> /\ pq[t] = p
      BY <1>5
    <2>2. PICK u \in Threads : f[q] = <<1, u>> /\ pq[u] = q
      BY <1>5
    <2>3. <<1, t>> = <<1, u>>
      BY <1>7, <2>1, <2>2
    <2>4. t = u
      BY <2>3
    <2>. QED
      BY <2>1, <2>2, <2>4
  <1>. QED
    BY <1>2, <1>6, <1>7 DEF MatchInv

(* The workers that go on looking. *)
LEMMA WorkerSeeks ==
  ASSUME TypeOK, HandInv, NEW w \in Workers
  PROVE  /\ TopDedicated(w) => (Seeks(w) => Seeks(w)')
         /\ Observe(w) => (Seeks(w) => Seeks(w)')
         /\ Got(w) => (Seeks(w) => Seeks(w)')
         /\ PutBack(w) => (Seeks(w) => Seeks(w)')
         /\ FenceTest(w) => (Seeks(w) => Seeks(w)')
         /\ FenceWake(w) => (Seeks(w) => Seeks(w)')
         /\ AssignClaimed(w) => (Seeks(w) => Seeks(w)')
         /\ Take(w) => (Seeks(w) => Seeks(w)')
         /\ Finish(w) => (Seeks(w) => Seeks(w)')
         /\ Turned(w) => (Seeks(w) => Seeks(w)')
         /\ Recheck(w) => (Seeks(w) => Seeks(w)')
         /\ Unmark(w) => (Seeks(w) => Seeks(w)')
         /\ Requeue(w) => (Seeks(w) => Seeks(w)')
         /\ Park(w) => (Seeks(w) => Seeks(w)')
         /\ ParkWake(w) => (Seeks(w) => Seeks(w)')
         /\ ParkTimeout(w) => (Seeks(w) => Seeks(w)')
         /\ Release(w) => (Seeks(w) => Seeks(w)')
         /\ Released(w) => (Seeks(w) => Seeks(w)')
  <1>. USE NoneAssumption, HasNothing DEF Seeks, TypeOK, WorkerTypes, Goto, Leave, gVars, wVars, Busy, WorkerPC
  <1>0. Hand(w)
    BY DEF HandInv
  <1>1. TopDedicated(w) => (Seeks(w) => Seeks(w)')
    BY <1>0 DEF TopDedicated, Hand, SeekPC, TurnPC, DonePC, ParkPC
  <1>2. Observe(w) => (Seeks(w) => Seeks(w)')
    BY <1>0 DEF Observe, Hand, SeekPC, TurnPC, DonePC, ParkPC
  <1>3. Got(w) => (Seeks(w) => Seeks(w)')
    BY <1>0 DEF Got, Hand, SeekPC, TurnPC, DonePC, ParkPC
  <1>4. PutBack(w) => (Seeks(w) => Seeks(w)')
    BY <1>0 DEF PutBack, Hand, SeekPC, TurnPC, DonePC, ParkPC
  <1>5. FenceTest(w) => (Seeks(w) => Seeks(w)')
    BY <1>0 DEF FenceTest, Hand, SeekPC, TurnPC, DonePC, ParkPC
  <1>6. FenceWake(w) => (Seeks(w) => Seeks(w)')
    BY <1>0 DEF FenceWake, Hand, SeekPC, TurnPC, DonePC, ParkPC
  <1>7. AssignClaimed(w) => (Seeks(w) => Seeks(w)')
    BY <1>0 DEF AssignClaimed, Assign, Hand, SeekPC, TurnPC, DonePC, ParkPC
  <1>8. Take(w) => (Seeks(w) => Seeks(w)')
    BY <1>0 DEF Take, Hand, SeekPC, TurnPC, DonePC, ParkPC
  <1>9. Finish(w) => (Seeks(w) => Seeks(w)')
    BY <1>0 DEF Finish, Running, Hand, SeekPC, TurnPC, DonePC, ParkPC
  <1>10. Turned(w) => (Seeks(w) => Seeks(w)')
    BY <1>0 DEF Turned, Hand, SeekPC, TurnPC, DonePC, ParkPC
  <1>11. Recheck(w) => (Seeks(w) => Seeks(w)')
    BY <1>0 DEF Recheck, Hand, SeekPC, TurnPC, DonePC, ParkPC
  <1>12. Unmark(w) => (Seeks(w) => Seeks(w)')
    BY <1>0 DEF Unmark, Hand, SeekPC, TurnPC, DonePC, ParkPC
  <1>13. Requeue(w) => (Seeks(w) => Seeks(w)')
    BY <1>0 DEF Requeue, Hand, SeekPC, TurnPC, DonePC, ParkPC
  <1>14. Park(w) => (Seeks(w) => Seeks(w)')
    BY <1>0 DEF Park, Hand, SeekPC, TurnPC, DonePC, ParkPC
  <1>15. ParkWake(w) => (Seeks(w) => Seeks(w)')
    BY <1>0 DEF ParkWake, Hand, SeekPC, TurnPC, DonePC, ParkPC
  <1>16. ParkTimeout(w) => (Seeks(w) => Seeks(w)')
    BY <1>0 DEF ParkTimeout, Hand, SeekPC, TurnPC, DonePC, ParkPC
  <1>17. Release(w) => (Seeks(w) => Seeks(w)')
    BY <1>0 DEF Release, Hand, SeekPC, TurnPC, DonePC, ParkPC
  <1>18. Released(w) => (Seeks(w) => Seeks(w)')
    BY <1>0 DEF Released, Hand, SeekPC, TurnPC, DonePC, ParkPC
  <1>. QED
    BY <1>1, <1>2, <1>3, <1>4, <1>5, <1>6, <1>7, <1>8, <1>9, <1>10, <1>11, <1>12, <1>13, <1>14,
       <1>15, <1>16, <1>17, <1>18

(* A worker that turns to its local queue goes on seeking. *)
LEMMA LocalSeeks ==
  ASSUME TypeOK, HandInv, NEW w \in Workers, TopLocal(w), Seeks(w)
  PROVE  Seeks(w)'
  <1>1. /\ pc[w] = "top" /\ ded[w] = None /\ local[w] # <<>> /\ UNCHANGED gVars
        /\ local' = [local EXCEPT ![w] = Tail(@)]
    BY DEF TopLocal
  <1>2. local[w] \in Seq(Queues) /\ local \in [Workers -> Seq(Queues)]
    BY DEF TypeOK, WorkerTypes
  <1>3. PICK k \in Queues : k = Head(local[w]) /\ Has(local[w], k)
    BY <1>1, <1>2, HasTail, HeadTailProperties
  <1>4. k \notin Dedicated
    BY <1>3 DEF Seeks
  <1>5. Goto(w, "take") /\ cur' = [cur EXCEPT ![w] = k] /\ UNCHANGED ded
    BY <1>3, <1>4 DEF TopLocal
  <1>6. \A q \in Dedicated : ~Has(local'[w], q)
    <2>1. local'[w] = Tail(local[w])
      BY <1>1, <1>2
    <2>2. \A x : Has(Tail(local[w]), x) => Has(local[w], x)
      BY <1>1, <1>2, HasTail
    <2>. QED
      BY <2>1, <2>2 DEF Seeks
  <1>. QED
    BY <1>1, <1>4, <1>5, <1>6 DEF Seeks, Goto, gVars, TypeOK, WorkerTypes

(* A worker that scans remains a helper, unless it takes a dedicated queue. *)
LEMMA MatchScan ==
  ASSUME TypeOK, HandInv, EntryInv, MatchInv, NEW w \in Workers, Scan(w)
  PROVE  MatchInv'
  <1>1. pc[w] = "scan" /\ UNCHANGED <<gVars, ded, local, pVars>>
    BY DEF Scan
  <1>2. Entered' \subseteq Entered
    BY ScanOutcome DEF Entered
  <1>3. \A v \in Workers \ {w} : Seeks(v) => Seeks(v)'
    BY <1>1, WorkerAlone DEF Seeks, KeepsWorkers, gVars
  <1>4. ASSUME Seeks(w) => Seeks(w)'
        PROVE  MatchInv'
    <2>1. Helpers \subseteq Helpers'
      BY <1>1, <1>3, <1>4, HelpersGrow DEF pVars
    <2>. QED
      BY <1>1, <1>2, <2>1, MatchFrame DEF gVars
  <1>5. CASE Sweeps(w)
    <2>1. Seeks(w) => Seeks(w)'
      BY <1>1, <1>5 DEF Seeks, Sweeps, Goto, Busy, gVars, TypeOK, WorkerTypes
    <2>. QED
      BY <1>4, <2>1
  <1>6. ASSUME NEW k \in Queues, Picks(w, k)
        PROVE  MatchInv'
    <2>1. CASE k \notin Dedicated
      <3>1. Seeks(w) => Seeks(w)'
        BY <1>1, <1>6, <2>1 DEF Seeks, Picks, Goto, gVars, TypeOK, WorkerTypes
      <3>. QED
        BY <1>4, <3>1
    <2>2. CASE k \in Dedicated
      <3>1. k \in Entered /\ Entered' \subseteq Entered \ {k}
        BY <1>2, <1>6 DEF Picks, Entered
      <3>2. Helpers \subseteq Helpers' \cup {<<0, w>>}
        BY <1>1, <1>3 DEF Helpers, pVars
      <3>. QED
        BY <1>1, <3>1, <3>2, MatchLeave DEF gVars
    <2>. QED
      BY <2>1, <2>2
  <1>. QED
    BY <1>5, <1>6, ScanOutcome

(* A new entry is matched with its own thread, and a signal with whom it wakes. *)
LEMMA MatchPost ==
  ASSUME TypeOK, HandInv, EntryInv, MatchInv, NEW t \in Threads, Post(t)
  PROVE  MatchInv'
  <1>1. UNCHANGED wVars
    BY DEF Post, FindOwner, WakeDedicatedWorker, Enqueue, NotifyBump, NotifySignal
  <1>2. CASE FindOwner(t) \/ WakeDedicatedWorker(t) \/ NotifyBump(t)
    <2>1. /\ UNCHANGED <<queued, sleeping>>
          /\ ppc[t] \notin {"bump", "signal"} \/ \E k : Call(t, "signal", k)
          /\ \E l, k : Call(t, l, k)
      BY <1>2 DEF FindOwner, WakeDedicatedWorker, NotifyBump, Done, sVars, gVars
    <2>2. \A u \in Threads : ppc[u] \in {"bump", "signal"} => ppc'[u] \in {"bump", "signal"}
      BY <2>1 DEF Call, TypeOK, PostTypes
    <2>3. \A v \in Workers : Seeks(v) => Seeks(v)'
      BY <1>1, <2>1 DEF Seeks, wVars
    <2>4. Helpers \subseteq Helpers' /\ Entered' = Entered
      BY <2>1, <2>2, <2>3, HelpersGrow DEF Entered
    <2>. QED
      BY <2>1, <2>4, MatchFrame
  <1>3. CASE Enqueue(t)
    <2>1. ppc[t] = "enq" /\ UNCHANGED sleeping
      BY <1>3 DEF Enqueue, gVars
    <2>2. \A v \in Workers : Seeks(v)' <=> Seeks(v)
      BY <1>1, <2>1 DEF Seeks, wVars
    <2>3. CASE UNCHANGED queued /\ Done(t)
      <3>1. \A u \in Threads : ppc[u] \in {"bump", "signal"} => ppc'[u] \in {"bump", "signal"}
        BY <2>1, <2>3 DEF Done, Call, TypeOK, PostTypes
      <3>2. Helpers \subseteq Helpers' /\ Entered' = Entered
        BY <2>2, <2>3, <3>1, HelpersGrow DEF Entered
      <3>. QED
        BY <2>1, <3>2, MatchFrame
    <2>4. ASSUME NEW k \in Queues, Enters(t, k)
          PROVE  MatchInv'
      <3>1. \A u \in Threads : ppc'[u] \in {"bump", "signal"} <=> ppc[u] \in {"bump", "signal"} \/ u = t
        BY <2>1, <2>4 DEF Enters, Call, TypeOK, PostTypes
      <3>2. Helpers' = Helpers \cup {<<1, t>>}
        BY <2>2, <3>1 DEF Helpers
      <3>3. <<1, t>> \notin Helpers
        BY <2>1 DEF Helpers
      <3>4. Entered' \subseteq Entered \cup {k}
        BY <2>4 DEF Enters, Entered, TypeOK, SourceTypes
      <3>. QED
        BY <2>1, <3>2, <3>3, <3>4, MatchMore
    <2>. QED
      BY <1>3, <2>3, <2>4, EnqueueOutcome
  <1>4. CASE NotifySignal(t)
    <2>1. ppc[t] = "signal" /\ Done(t) /\ UNCHANGED queued
      BY <1>4 DEF NotifySignal, sVars
    <2>2. CASE sleeping = {}
      <3>1. sleeping' = {}
        BY <1>4, <2>2 DEF NotifySignal
      <3>. QED
        BY <3>1 DEF MatchInv
    <2>3. CASE sleeping # {}
      <3>1. PICK w \in sleeping : sleeping' = sleeping \ {w}
        BY <1>4, <2>3 DEF NotifySignal
      <3>2. w \in Workers /\ pc[w] = "wait" /\ ded[w] = None /\ local[w] = <<>>
        BY <3>1 DEF TypeOK, WakeTypes, HandInv, Hand, SeekPC
      <3>3. Seeks(w)' /\ ~Seeks(w)
        BY <1>1, <3>1, <3>2, HasNothing DEF Seeks, wVars, Busy
      <3>4. \A v \in Workers : Seeks(v) => Seeks(v)'
        BY <1>1, <3>1 DEF Seeks, wVars
      <3>5. \A u \in Threads \ {t} : ppc'[u] = ppc[u]
        BY <2>1 DEF Done, Call, TypeOK, PostTypes
      <3>6. Helpers \subseteq Helpers' \cup {<<1, t>>}
        BY <3>4, <3>5 DEF Helpers
      <3>7. <<0, w>> \in Helpers' /\ <<0, w>> \notin Helpers
        BY <3>2, <3>3 DEF Helpers
      <3>8. Entered' = Entered
        BY <2>1 DEF Entered
      <3>. QED
        BY <2>3, <3>6, <3>7, <3>8, MatchOther
    <2>. QED
      BY <2>2, <2>3
  <1>. QED
    BY <1>2, <1>3, <1>4 DEF Post

(* A worker that decides whether to sleep. *)
LEMMA MatchSleep ==
  ASSUME TypeOK, HandInv, FreshInv, MatchInv, NEW w \in Workers, Decide(w) \/ Wake(w) \/ WakeUnasked(w)
  PROVE  MatchInv'
  <1>1. /\ pc[w] \in {"decide", "wait"}
        /\ UNCHANGED <<queued, ded, cur, local, pVars>>
    BY DEF Decide, Wake, WakeUnasked, sVars
  <1>2. CASE w \in fresh
    BY <1>1, <1>2, MatchFresh
  <1>3. CASE w \notin fresh
    <2>1. Goto(w, "observe") /\ sleeping' \subseteq sleeping
      BY <1>3 DEF Decide, Wake, WakeUnasked
    <2>2. \A v \in Workers : Seeks(v) => Seeks(v)'
      BY <1>1, <2>1 DEF Seeks, Goto, Busy, TypeOK, WorkerTypes
    <2>3. Helpers \subseteq Helpers' /\ Entered' = Entered
      BY <1>1, <2>2, HelpersGrow DEF Entered, pVars
    <2>. QED
      BY <2>1, <2>3, MatchFrame
  <1>. QED
    BY <1>2, <1>3

(* Every step keeps the matching. *)
LEMMA MatchStep ==
  ASSUME TypeOK, HandInv, EntryInv, FreshInv, MatchInv, [Next]_vars
  PROVE  MatchInv'
  <1>1. ASSUME NEW w \in Workers, Work(w) \/ WakeUnasked(w) \/ ParkTimeout(w)
        PROVE  MatchInv'
    <2>1. CASE Decide(w) \/ Wake(w) \/ WakeUnasked(w) \/ Scan(w)
      BY <2>1, MatchSleep, MatchScan
    <2>2. CASE ~(Decide(w) \/ Wake(w) \/ WakeUnasked(w) \/ Scan(w))
      <3>1. UNCHANGED sleeping
        BY <1>1, <2>2 DEF Work, TopDedicated, TopLocal, Observe, Got, PutBack, FenceTest,
           FenceWake, AssignClaimed,
          Take, Finish, Turned, Recheck, Unmark, Requeue, Park, ParkWake, Release, Released, ParkTimeout, gVars
      <3>2. Seeks(w) => Seeks(w)'
        BY <1>1, <2>2, WorkerSeeks, LocalSeeks DEF Work
      <3>3. KeepsWorkers(w)
        BY <1>1, WorkerAlone DEF Work
      <3>4. \A v \in Workers : Seeks(v) => Seeks(v)'
        BY <3>1, <3>2, <3>3 DEF Seeks, KeepsWorkers
      <3>5. \A t \in Threads : ppc[t] \in {"bump", "signal"} => ppc'[t] \in {"bump", "signal"}
        <4>1. CASE UNCHANGED pVars
          BY <4>1 DEF pVars
        <4>2. CASE PutBack(w) \/ Requeue(w) \/ Released(w)
          <5>1. ppc[w] = "idle"
            BY <4>2 DEF HandInv, Hand, PutBack, Requeue, Released, Ready
          <5>2. UNCHANGED pVars \/ \E l, k : Call(w, l, k)
            BY <4>2 DEF PutBack, Requeue, Released, CallIf
          <5>. QED
            BY <4>1, <5>1, <5>2 DEF Call, TypeOK, PostTypes, Threads
        <4>. QED
          BY <1>1, <2>2, <4>1, <4>2 DEF Work, TopDedicated, TopLocal, Observe, Got, FenceTest,
             FenceWake,
            AssignClaimed, Take, Finish, Turned, Recheck, Unmark, Park, ParkWake, Release, ParkTimeout
      <3>6. Entered' \subseteq Entered
        BY <1>1, <2>2, WorkerFewer DEF Fewer, Entered
      <3>7. Helpers \subseteq Helpers'
        BY <3>4, <3>5, HelpersGrow
      <3>. QED
        BY <3>1, <3>6, <3>7, MatchFrame
    <2>. QED
      BY <2>1, <2>2
  <1>2. ASSUME UNCHANGED <<queued, sleeping>>, \A v \in Workers : Seeks(v) => Seeks(v)',
               \A t \in Threads : ppc[t] \in {"bump", "signal"} => ppc'[t] \in {"bump", "signal"}
        PROVE  MatchInv'
    <2>1. Helpers \subseteq Helpers' /\ Entered' = Entered
      BY <1>2, HelpersGrow DEF Entered
    <2>. QED
      BY <1>2, <2>1, MatchFrame
  <1>3. ASSUME NEW t \in Workers \cup Posters, NEW q \in Queues, Push(t, q)
        PROVE  MatchInv'
    <2>1. UNCHANGED <<queued, sleeping, pc, cur, ded>> /\ ppc[t] = "idle" /\ (t \in Workers => Running(t))
      BY <1>3 DEF Push, Ready, sVars, gVars
    <2>2. UNCHANGED pVars \/ \E l, k : Call(t, l, k)
      BY <1>3 DEF Push, ReEnqueueTaskQueue, pVars
    <2>3. UNCHANGED local \/ (t \in Workers /\ cur[t] = q /\ local' = [local EXCEPT ![t] = Append(@, q)])
      BY <1>3 DEF Push, ReEnqueueTaskQueue
    <2>4. \A u \in Threads : ppc[u] \in {"bump", "signal"} => ppc'[u] \in {"bump", "signal"}
      BY <2>1, <2>2 DEF Call, pVars, Threads, TypeOK, PostTypes
    <2>5. \A v \in Workers : Seeks(v) => Seeks(v)'
      <3>1. CASE UNCHANGED local
        BY <2>1, <3>1 DEF Seeks
      <3>2. CASE t \in Workers /\ cur[t] = q /\ local' = [local EXCEPT ![t] = Append(@, q)]
        <4>1. local \in [Workers -> Seq(Queues)]
          BY DEF TypeOK, WorkerTypes
        <4>2. local'[t] = Append(local[t], q) /\ local[t] \in Seq(Queues)
          BY <3>2, <4>1
        <4>3. \A p \in Queues : Has(local'[t], p) => Has(local[t], p) \/ p = q
          BY <4>2, HasAppended
        <4>4. Seeks(t) => Seeks(t)'
          <5>1. pc[t] \in Busy
            BY <2>1, <3>2 DEF Running, Busy, WorkerPC
          <5>. QED
            BY <2>1, <3>2, <4>3, <5>1, DedicatedAssumption DEF Seeks
        <4>5. \A v \in Workers \ {t} : local'[v] = local[v]
          BY <3>2, <4>1
        <4>. QED
          BY <2>1, <4>4, <4>5 DEF Seeks
      <3>. QED
        BY <2>3, <3>1, <3>2
    <2>. QED
      BY <1>2, <2>1, <2>4, <2>5
  <1>4. ASSUME (\E q \in Queues : Promote(q)) \/ PromoteReady
        PROVE  MatchInv'
    <2>1. /\ UNCHANGED <<queued, sleeping, wVars>> /\ ppc[Manager] \notin {"bump", "signal"}
          /\ \E l, k : Call(Manager, l, k)
      BY <1>4 DEF Promote, PromoteReady, Ready, Done, sVars, gVars
    <2>2. \A u \in Threads : ppc[u] \in {"bump", "signal"} => ppc'[u] \in {"bump", "signal"}
      BY <2>1 DEF Call, Threads, TypeOK, PostTypes
    <2>3. \A v \in Workers : Seeks(v) => Seeks(v)'
      BY <2>1 DEF Seeks, wVars
    <2>. QED
      BY <1>2, <2>1, <2>2, <2>3
  <1>5. ASSUME Fence \/ UNCHANGED vars
        PROVE  MatchInv'
    <2>1. UNCHANGED <<queued, sleeping, wVars, ppc>>
      BY <1>5 DEF Fence, BeginFence, CountFence, EndFence, SignalFence, vars, sVars, gVars, pVars
    <2>2. \A v \in Workers : Seeks(v) => Seeks(v)'
      BY <2>1 DEF Seeks, wVars
    <2>. QED
      BY <1>2, <2>1, <2>2
  <1>. QED
    BY <1>1, <1>3, <1>4, <1>5, MatchPost DEF Next

----------------------------------------------------------------------------
(* The inductive invariant, and what follows from it once all is quiet. *)
KeptInv == HandInv /\ OwnerInv /\ EntryInv /\ HeldInv /\ WorkInv /\ FreshInv /\ MatchInv

(* The strengthening holds initially. *)
LEMMA KeptInit == Init => KeptInv
  <1>. SUFFICES ASSUME Init
                PROVE  KeptInv
    OBVIOUS
  <1>. USE NoneAssumption, HasNothing DEF Init
  <1>1. HandInv
    BY DEF HandInv, Hand, SeekPC, TurnPC, DonePC, ParkPC, Busy, Ready, Threads
  <1>2. OwnerInv
    BY DEF OwnerInv
  <1>3. EntryInv /\ HeldInv /\ WorkInv
    BY DEF EntryInv, HeldInv, WorkInv, HasWorkOnConsumerSide
  <1>4. FreshInv /\ MatchInv
    BY DEF FreshInv, MatchInv
  <1>. QED
    BY <1>1, <1>2, <1>3, <1>4 DEF KeptInv

(* The strengthening is inductive. *)
LEMMA KeptStep ==
  ASSUME TypeOK, KeptInv, [Next]_vars
  PROVE  KeptInv'
  BY HandStep, OwnerStep, EntryStep, HeldStep, WorkStep, FreshStep, MatchStep DEF KeptInv

(* When everybody sleeps no queue is marked, so none with work is left. *)
LEMMA KeptNothingLeft ==
  ASSUME TypeOK, KeptInv
  PROVE  NothingLeft
  <1>. SUFFICES ASSUME Quiet, SomeWaits, NEW q \in Queues, HasWorkOnConsumerSide(q), q \notin withdrawn
                PROVE  FALSE
    BY DEF NothingLeft, Left
  <1>1. \A P : Calls(q, P) => "idle" \in P
    BY DEF Quiet, Ready, Calls
  <1>2. Tended(q)
    BY DEF KeptInv, WorkInv
  <1>3. \A w \in Workers : Hand(w) /\ Asleep(w)
    BY DEF KeptInv, HandInv, Quiet
  <1>4. \A w \in Workers : pc[w] = "parked" => ded[w] = cur[w] /\ cur[w] \in Queues /\ ded[w] # None
    BY <1>3, NoneAssumption DEF Hand, ParkPC, TypeOK, WorkerTypes, Busy, WorkerPC
  <1>5. owner[q] = None
    <2>. SUFFICES ASSUME owner[q] # None
                  PROVE  FALSE
      OBVIOUS
    <2>1. owner[q] \in Workers /\ ded[owner[q]] = q
      BY OwnerFacts DEF KeptInv
    <2>2. pc[owner[q]] = "parked" /\ ~event[cur[owner[q]]]
      BY <1>3, <2>1, NoneAssumption DEF Asleep, Hand, SeekPC
    <2>. QED
      BY <1>1, <1>2, <1>4, <2>1, <2>2 DEF Tended
  <1>6. \A w \in Workers : ~Minds(w, q)
    BY <1>3, <1>4, HasNothing DEF Asleep, Hand, Minds, Holds, SeekPC, TurnPC, DonePC
  <1>7. q \in Entered
    BY <1>1, <1>2, <1>5, <1>6 DEF Tended, Entered
  <1>8. sleeping # {}
    BY <1>3 DEF SomeWaits, Asleep
  <1>9. \E h : h \in Helpers
    BY <1>7, <1>8 DEF KeptInv, MatchInv
  <1>10. \A w \in Workers : ~Seeks(w)
    BY <1>3, <1>4 DEF Asleep, Seeks
  <1>11. \A t \in Threads : ppc[t] \notin {"bump", "signal"}
    BY DEF Quiet, Ready
  <1>. QED
    BY <1>9, <1>10, <1>11 DEF Helpers

(* However many workers, threads, queues and shards there are, whatever the    *)
(* heap discards and whoever posts to the queue it runs: once every thread is  *)
(* done posting and every worker sleeps, is parked or is gone, one at least    *)
(* still waiting for work, only a queue that a fence or a reclaim has          *)
(* withdrawn has a task left.  NotifyWorkAvailable, DequeueTaskSourceLocked,   *)
(* OnTaskQueueProcessed and WaitForDedicatedWork lose no wake-up between them. *)
THEOREM NothingLeftBehind == Spec => []NothingLeft
  <1>1. TypeOK /\ KeptInv /\ [Next]_vars => KeptInv'
    BY KeptStep
  <1>2. TypeOK /\ KeptInv => NothingLeft
    BY KeptNothingLeft
  <1>. QED
    BY KeptInit, <1>1, <1>2, TypeCorrect, PTL DEF Spec
=============================================================================
