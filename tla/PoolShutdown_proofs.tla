------------------------ MODULE PoolShutdown_proofs ------------------------
(***************************************************************************)
(* Proofs about PoolShutdown for any number of workers, queues and tasks:  *)
(* type correctness, that no two threads have tasks of one queue in hand   *)
(* unless it was reposted, and that no thread of the pool has a queue once *)
(* Shutdown has returned.                                                  *)
(***************************************************************************)
EXTENDS PoolShutdown, SequenceTheorems, TLAPS

Ids == 1..MaxTasks

----------------------------------------------------------------------------
(* A batch and what it leaves of the sequence it is taken from. *)
LEMMA BatchPieces ==
  ASSUME NEW S, NEW s \in Seq(S), NEW n \in Counts(s)
  PROVE  /\ SubSeq(s, 1, n) \in Seq(S) /\ SubSeq(s, 1, n) # <<>>
         /\ SubSeq(s, n + 1, Len(s)) \in Seq(S)
         /\ Head(s) \in S
  <1>1. n \in 1..Len(s)
    BY DEF Counts
  <1>2. SubSeq(s, 1, n) \in Seq(S) /\ Len(SubSeq(s, 1, n)) = n
    BY <1>1, SubSeqProperties
  <1>3. SubSeq(s, n + 1, Len(s)) \in Seq(S)
    BY <1>1, SubSeqProperties
  <1>4. s # <<>>
    BY <1>1, EmptySeq
  <1>5. Head(s) \in S
    BY <1>4, HeadTailProperties
  <1>. QED
    BY <1>1, <1>2, <1>3, <1>5, EmptySeq

(* What follows the task that has ended. *)
LEMMA Rest ==
  ASSUME NEW S, NEW s \in Seq(S), s # <<>>
  PROVE  /\ Head(s) \in S /\ Tail(s) \in Seq(S)
         /\ Len(s) > 1 <=> Tail(s) # <<>>
         /\ Len(s) > 1 => s[2] \in S
  <1>1. Head(s) \in S /\ Tail(s) \in Seq(S) /\ Len(Tail(s)) = Len(s) - 1
    BY HeadTailProperties
  <1>2. Len(Tail(s)) = 0 <=> Tail(s) = <<>>
    BY <1>1, EmptySeq
  <1>3. Len(s) > 1 => s[2] \in S
    BY ElementOfSeq, LenProperties
  <1>. QED
    BY <1>1, <1>2, <1>3, LenProperties

(* The tasks that block shutdown, in order, are a queue again. *)
LEMMA KeptType ==
  ASSUME NEW S, NEW s \in Seq(S), NEW r \in Kept(s)
  PROVE  r \in Seq(S)
  <1>1. PICK h \in UNION {[1..m -> DOMAIN s] : m \in 0..Len(s)} : r = [k \in DOMAIN h |-> s[h[k]]]
    BY DEF Kept
  <1>2. PICK m \in 0..Len(s) : h \in [1..m -> DOMAIN s]
    BY <1>1
  <1>3. \A i \in DOMAIN s : s[i] \in S
    BY ElementOfSeq, LenProperties
  <1>4. r \in [1..m -> S]
    BY <1>1, <1>2, <1>3
  <1>5. m \in Nat
    BY LenProperties
  <1>. QED
    BY <1>4, <1>5, SeqDef

----------------------------------------------------------------------------
(* What an action leaves alone keeps its type. *)
LEMMA Frame ==
  ASSUME TypeOK
  PROVE  /\ UNCHANGED tVars => TrackerTypes'
         /\ UNCHANGED cVars => CallerTypes'
         /\ UNCHANGED qVars => QueueTypes'
         /\ UNCHANGED dVars => DispatchTypes'
         /\ UNCHANGED wVars => ThreadTypes'
         /\ UNCHANGED <<pVars, hVars>> => HistoryTypes'
  <1>1. UNCHANGED tVars => TrackerTypes'
    BY DEF TypeOK, TrackerTypes, tVars
  <1>2. UNCHANGED cVars => CallerTypes'
    BY DEF TypeOK, CallerTypes, cVars
  <1>3. UNCHANGED qVars => QueueTypes'
    BY DEF TypeOK, QueueTypes, qVars
  <1>4. UNCHANGED dVars => DispatchTypes'
    BY DEF TypeOK, DispatchTypes, dVars
  <1>5. UNCHANGED wVars => ThreadTypes'
    BY DEF TypeOK, ThreadTypes, wVars
  <1>6. UNCHANGED <<pVars, hVars>> => HistoryTypes'
    BY DEF TypeOK, HistoryTypes, hVars, pVars
  <1>. QED
    BY <1>1, <1>2, <1>3, <1>4, <1>5, <1>6

(* What a thread takes is a batch, and what it leaves is a queue. *)
LEMMA TakeTypes ==
  ASSUME QueueTypes, ThreadTypes, NEW t \in Threads, NEW q \in Queues, TakeBatch(t, q),
         UNCHANGED <<reject, shut>>
  PROVE  /\ QueueTypes'
         /\ batch' \in [Threads -> Seq(Ids)]
         /\ batch'[t] # <<>>
         /\ \A u \in Threads \ {t} : batch'[u] = batch[u]
         /\ Head(Source(q)) \in Ids
  <1>. DEFINE s == Source(q)
  <1>1. s \in Seq(Ids) /\ work[q] \in Seq(Ids) /\ incoming[q] \in Seq(Ids)
    BY DEF QueueTypes, Source, Ids
  <1>2. PICK n \in Counts(s) :
          /\ batch' = [batch EXCEPT ![t] = SubSeq(s, 1, n)]
          /\ IF q \in SharedQueues
             THEN /\ work' = [work EXCEPT ![q] = SubSeq(s, n + 1, Len(s))]
                  /\ incoming' = [incoming EXCEPT ![q] = IF work[q] = <<>> THEN <<>> ELSE @]
             ELSE /\ incoming' = [incoming EXCEPT ![q] = SubSeq(s, n + 1, Len(s))]
                  /\ UNCHANGED work
    BY DEF TakeBatch
  <1>3. /\ SubSeq(s, 1, n) \in Seq(Ids) /\ SubSeq(s, 1, n) # <<>>
        /\ SubSeq(s, n + 1, Len(s)) \in Seq(Ids)
        /\ Head(s) \in Ids
    BY <1>1, BatchPieces
  <1>4. <<>> \in Seq(Ids)
    OBVIOUS
  <1>. HIDE DEF s
  <1>5. QueueTypes'
    <2>1. CASE q \in SharedQueues
      BY <1>1, <1>2, <1>3, <1>4, <2>1 DEF QueueTypes, Ids
    <2>2. CASE q \notin SharedQueues
      BY <1>1, <1>2, <1>3, <2>2 DEF QueueTypes, Ids
    <2>. QED
      BY <2>1, <2>2
  <1>6. /\ batch' \in [Threads -> Seq(Ids)]
        /\ batch'[t] # <<>>
        /\ \A u \in Threads \ {t} : batch'[u] = batch[u]
    BY <1>2, <1>3 DEF ThreadTypes, Ids
  <1>. QED
    BY <1>3, <1>5, <1>6 DEF s

----------------------------------------------------------------------------
(* Every action of a worker keeps the types and what a thread has in hand. *)
LEMMA WorkerTypes ==
  ASSUME TypeOK, HandInv, NEW w \in Workers, WorkerStep(w) \/ ParkTimeout(w)
  PROVE  TypeOK' /\ HandInv'
  <1>. USE SharedAssumption, NoneAssumption
  <1>. DEFINE Moves(l) == Goto(w, l) /\ UNCHANGED <<cur, batch, left, local>>
  <1>0. w \in Threads /\ w # SharedThread /\ Workers \subseteq Threads /\ SharedThread \in Threads
    BY DEF Threads
  <1>a. /\ TrackerTypes /\ CallerTypes /\ QueueTypes /\ DispatchTypes /\ ThreadTypes /\ HistoryTypes
        /\ cur[w] \in Queues \cup {None} /\ batch[w] \in Seq(Ids) /\ pc[w] \in ThreadPC
    BY <1>0 DEF TypeOK, ThreadTypes, Ids
  <1>b. ASSUME NEW l \in {"take", "turned"}, Moves(l), cur[w] # None, batch[w] = <<>>
        PROVE  ThreadTypes' /\ HandInv'
    BY <1>0, <1>a, <1>b DEF ThreadTypes, ThreadPC, HandInv, Goto
  <1>c. ASSUME NEW l \in {"take", "parked", "release"}, Moves(l), cur[w] \in SharedQueues, batch[w] = <<>>
        PROVE  ThreadTypes' /\ HandInv'
    BY <1>0, <1>a, <1>c DEF ThreadTypes, ThreadPC, HandInv, Goto
  <1>d. ASSUME Leave(w, "idle"), UNCHANGED <<batch, left, local>>, batch[w] = <<>>
        PROVE  ThreadTypes' /\ HandInv'
    BY <1>0, <1>a, <1>d DEF ThreadTypes, ThreadPC, HandInv, Goto, Leave
  <1>1. ASSUME NEW q \in Queues, Claim(w, q)
        PROVE  TypeOK' /\ HandInv'
    <2>1. TrackerTypes' /\ CallerTypes' /\ QueueTypes' /\ HistoryTypes'
      BY <1>1, Frame DEF Claim, hVars, pVars
    <2>2. DispatchTypes'
      <3>1. pooled' \in [Queues -> BOOLEAN] /\ UNCHANGED <<source_down, stop>>
        BY <1>1, <1>a DEF Claim, DispatchTypes
      <3>2. claimed' = claimed \/ claimed' = [claimed EXCEPT ![q] = TRUE]
        BY <1>1 DEF Claim
      <3>3. owner' = owner \/ owner' = [owner EXCEPT ![q] = w]
        BY <1>1 DEF Claim
      <3>4. claimed' \in [Queues -> BOOLEAN]
        BY <1>a, <3>2 DEF DispatchTypes
      <3>5. owner' \in [Queues -> Threads \cup {None}]
        BY <1>0, <1>a, <3>3 DEF DispatchTypes
      <3>. QED
        BY <1>a, <3>1, <3>4, <3>5 DEF DispatchTypes
    <2>3. ThreadTypes' /\ HandInv'
      <3>1. CASE Goto(w, "take") /\ cur' = [cur EXCEPT ![w] = q]
        <4>1. batch[w] = <<>> /\ UNCHANGED <<batch, left, local>>
          BY <1>0, <1>1 DEF Claim, HandInv
        <4>. QED
          BY <1>0, <1>a, <3>1, <4>1 DEF ThreadTypes, ThreadPC, HandInv, Goto
      <3>2. CASE UNCHANGED <<pc, cur>>
        BY <1>1, <1>a, <3>2 DEF Claim, ThreadTypes, HandInv
      <3>. QED
        BY <1>1, <3>1, <3>2 DEF Claim
    <2>. QED
      BY <2>1, <2>2, <2>3 DEF TypeOK
  <1>2. ASSUME Take(w)
        PROVE  TypeOK' /\ HandInv'
    <2>1. TrackerTypes' /\ CallerTypes' /\ DispatchTypes'
      BY <1>2, Frame DEF Take
    <2>2. cur[w] \in Queues /\ batch[w] = <<>>
      BY <1>0, <1>2, <1>a DEF Take, HandInv
    <2>3. CASE Source(cur[w]) = <<>>
      <3>1. Moves("turned") /\ UNCHANGED <<qVars, pVars, hVars>>
        BY <1>2, <2>3 DEF Take, qVars, hVars, pVars
      <3>2. QueueTypes' /\ HistoryTypes'
        BY <3>1, Frame DEF hVars, pVars
      <3>. QED
        BY <1>b, <2>1, <2>2, <3>1, <3>2 DEF TypeOK
    <2>4. CASE Source(cur[w]) # <<>>
      <3>1. /\ TakeBatch(w, cur[w]) /\ Goto(w, "run") /\ Started(Head(Source(cur[w])))
            /\ UNCHANGED <<reject, shut, cur, left, local, pVars, ran>>
        BY <1>2, <2>4 DEF Take
      <3>2. /\ QueueTypes' /\ batch' \in [Threads -> Seq(Ids)] /\ batch'[w] # <<>>
            /\ \A u \in Threads \ {w} : batch'[u] = batch[u]
            /\ Head(Source(cur[w])) \in Ids
        BY <1>0, <1>a, <2>2, <3>1, TakeTypes
      <3>3. HistoryTypes'
        BY <1>a, <3>1, <3>2 DEF HistoryTypes, Started, Ids, pVars
      <3>4. ThreadTypes'
        BY <1>0, <1>a, <2>2, <3>1, <3>2 DEF ThreadTypes, ThreadPC, Goto, Ids
      <3>5. HandInv'
        BY <1>0, <1>a, <2>2, <3>1, <3>2 DEF ThreadTypes, HandInv, Goto
      <3>. QED
        BY <2>1, <3>2, <3>3, <3>4, <3>5 DEF TypeOK
    <2>. QED
      BY <2>3, <2>4
  <1>3. ASSUME Finish(w)
        PROVE  TypeOK' /\ HandInv'
    <2>1. CallerTypes' /\ QueueTypes' /\ DispatchTypes'
      BY <1>3, Frame DEF Finish
    <2>2. cur[w] # None /\ batch[w] # <<>>
      BY <1>0, <1>3 DEF Finish, HandInv
    <2>3. /\ Head(batch[w]) \in Ids /\ Tail(batch[w]) \in Seq(Ids)
          /\ Len(batch[w]) > 1 <=> Tail(batch[w]) # <<>>
          /\ Len(batch[w]) > 1 => batch[w][2] \in Ids
      BY <1>a, <2>2, Rest
    <2>4. TrackerTypes'
      BY <1>3, <1>a DEF Finish, DidProcessTask, TrackerTypes
    <2>5. HistoryTypes'
      <3>1. late' \in SUBSET Ids /\ UNCHANGED <<posted, reposted>>
        BY <1>3, <1>a, <2>3 DEF Finish, Started, HistoryTypes, Ids, pVars
      <3>2. ran' = ran \cup {<<Head(batch[w]), w>>}
        BY <1>3 DEF Finish
      <3>. QED
        BY <1>0, <1>a, <2>3, <3>1, <3>2 DEF HistoryTypes, Ids
    <2>6. ThreadTypes' /\ HandInv'
      <3>1. batch' = [batch EXCEPT ![w] = Tail(@)] /\ UNCHANGED <<cur, left, local>> /\ pc[w] = "run"
        BY <1>3 DEF Finish
      <3>2. CASE Len(batch[w]) > 1
        <4>1. UNCHANGED pc
          BY <1>3, <3>2 DEF Finish
        <4>. QED
          BY <1>0, <1>a, <2>2, <2>3, <3>1, <3>2, <4>1 DEF ThreadTypes, HandInv, Ids
      <3>3. CASE ~(Len(batch[w]) > 1)
        <4>1. Goto(w, "turned") \/ Goto(w, "take")
          BY <1>3, <3>3 DEF Finish
        <4>2. PICK l \in {"turned", "take"} : Goto(w, l)
          BY <4>1
        <4>3. Tail(batch[w]) = <<>>
          BY <2>3, <3>3
        <4>4. ThreadTypes'
          BY <1>0, <1>a, <2>3, <3>1, <4>2 DEF ThreadTypes, ThreadPC, Goto, Ids
        <4>5. HandInv'
          BY <1>0, <1>a, <2>2, <3>1, <4>2, <4>3 DEF ThreadTypes, HandInv, Goto
        <4>. QED
          BY <4>4, <4>5
      <3>. QED
        BY <3>2, <3>3
    <2>. QED
      BY <2>1, <2>4, <2>5, <2>6 DEF TypeOK
  <1>4. ASSUME Turned(w)
        PROVE  TypeOK' /\ HandInv'
    <2>1. TrackerTypes' /\ CallerTypes' /\ QueueTypes' /\ HistoryTypes'
      BY <1>4, Frame DEF Turned, hVars, pVars
    <2>2. cur[w] \in Queues /\ batch[w] = <<>>
      BY <1>0, <1>4, <1>a DEF Turned, HandInv
    <2>3. DispatchTypes'
      BY <1>4, <1>a, <2>2 DEF Turned, DispatchTypes
    <2>4. CASE cur[w] \in SharedQueues
      <3>1. Moves("take") \/ Moves("parked") \/ Moves("release")
        BY <1>4, <2>4 DEF Turned
      <3>. QED
        BY <1>c, <2>1, <2>2, <2>3, <2>4, <3>1 DEF TypeOK
    <2>5. CASE cur[w] \notin SharedQueues
      <3>1. Leave(w, "idle") /\ UNCHANGED <<batch, left, local>>
        BY <1>4, <2>5 DEF Turned
      <3>. QED
        BY <1>d, <2>1, <2>2, <2>3, <3>1 DEF TypeOK
    <2>. QED
      BY <2>4, <2>5
  <1>5. ASSUME ParkWake(w) \/ ParkTimeout(w)
        PROVE  TypeOK' /\ HandInv'
    <2>1. TrackerTypes' /\ CallerTypes' /\ QueueTypes' /\ DispatchTypes' /\ HistoryTypes'
      BY <1>5, Frame DEF ParkWake, ParkTimeout, hVars, pVars
    <2>2. cur[w] \in SharedQueues /\ batch[w] = <<>>
      BY <1>0, <1>5 DEF ParkWake, ParkTimeout, HandInv
    <2>3. Moves("take") \/ Moves("release")
      BY <1>5 DEF ParkWake, ParkTimeout
    <2>. QED
      BY <1>c, <2>1, <2>2, <2>3 DEF TypeOK
  <1>6. ASSUME Release(w)
        PROVE  TypeOK' /\ HandInv'
    <2>1. TrackerTypes' /\ CallerTypes' /\ QueueTypes' /\ HistoryTypes'
      BY <1>6, Frame DEF Release, hVars, pVars
    <2>2. cur[w] \in Queues /\ batch[w] = <<>>
      BY <1>0, <1>6 DEF Release, HandInv
    <2>3. DispatchTypes'
      BY <1>6, <1>a, <2>2 DEF Release, Released, DispatchTypes
    <2>. QED
      BY <1>6, <1>d, <2>1, <2>2, <2>3 DEF TypeOK, Release
  <1>7. ASSUME Exit(w)
        PROVE  TypeOK' /\ HandInv'
    <2>1. TrackerTypes' /\ CallerTypes' /\ QueueTypes' /\ DispatchTypes' /\ HistoryTypes'
      BY <1>7, Frame DEF Exit, hVars, pVars
    <2>2. ThreadTypes' /\ HandInv'
      BY <1>0, <1>7, <1>a DEF Exit, ThreadTypes, ThreadPC, HandInv, Goto
    <2>. QED
      BY <2>1, <2>2 DEF TypeOK
  <1>8. ASSUME TakeLocal(w)
        PROVE  TypeOK' /\ HandInv'
    <2>1. TrackerTypes' /\ CallerTypes' /\ QueueTypes' /\ DispatchTypes' /\ HistoryTypes'
      BY <1>8, Frame DEF TakeLocal, hVars, pVars
    <2>2. /\ local[w] \in Seq(Queues \ SharedQueues) /\ local[w] # <<>> /\ pc[w] = "idle" /\ batch[w] = <<>>
          /\ UNCHANGED <<batch, left>>
      BY <1>0, <1>8, <1>a DEF TakeLocal, ThreadTypes, HandInv
    <2>3. Head(local[w]) \in Queues \ SharedQueues /\ Tail(local[w]) \in Seq(Queues \ SharedQueues)
      BY <2>2, HeadTailProperties
    <2>4. PICK q \in Queues \ SharedQueues, l \in Seq(Queues \ SharedQueues) :
            /\ Goto(w, "take") /\ cur' = [cur EXCEPT ![w] = q]
            /\ local' = [local EXCEPT ![w] = l]
      BY <1>8, <2>3 DEF TakeLocal
    <2>5. ThreadTypes'
      BY <1>0, <1>a, <2>2, <2>4 DEF ThreadTypes, ThreadPC, Goto
    <2>6. HandInv'
      BY <1>0, <1>a, <2>2, <2>4 DEF ThreadTypes, HandInv, Goto
    <2>. QED
      BY <2>1, <2>5, <2>6 DEF TypeOK
  <1>. QED
    BY <1>1, <1>2, <1>3, <1>4, <1>5, <1>6, <1>7, <1>8 DEF WorkerStep

(* So does every action of the shared thread. *)
LEMMA SharedTypes ==
  ASSUME TypeOK, HandInv, SharedStep
  PROVE  TypeOK' /\ HandInv'
  <1>. USE SharedAssumption, NoneAssumption
  <1>. DEFINE t == SharedThread
  <1>0. t \in Threads /\ t \notin Workers /\ Workers \subseteq Threads
    BY DEF Threads
  <1>a. /\ TrackerTypes /\ CallerTypes /\ QueueTypes /\ DispatchTypes /\ ThreadTypes /\ HistoryTypes
        /\ cur[t] \in SharedQueues \cup {None} /\ batch[t] \in Seq(Ids)
    BY <1>0 DEF TypeOK, ThreadTypes, HandInv, Ids
  <1>1. ASSUME NEW q \in SharedQueues, SharedVisit(q)
        PROVE  TypeOK' /\ HandInv'
    <2>1. TrackerTypes' /\ CallerTypes' /\ HistoryTypes'
      BY <1>1, Frame DEF SharedVisit, hVars, pVars
    <2>2. left' \in SUBSET SharedQueues
      BY <1>1, <1>a DEF SharedVisit, ThreadTypes
    <2>3. CASE Assignable(q)
      <3>1. /\ owner' = [owner EXCEPT ![q] = t] /\ pooled' = [pooled EXCEPT ![q] = FALSE]
            /\ TakeBatch(t, q) /\ Goto(t, "next") /\ cur' = [cur EXCEPT ![t] = q]
            /\ UNCHANGED <<claimed, source_down, stop, reject, shut, local>>
        BY <1>1, <2>3 DEF SharedVisit
      <3>2. /\ QueueTypes' /\ batch' \in [Threads -> Seq(Ids)] /\ batch'[t] # <<>>
            /\ \A u \in Threads \ {t} : batch'[u] = batch[u]
        BY <1>0, <1>a, <3>1, TakeTypes
      <3>3. DispatchTypes'
        BY <1>0, <1>a, <3>1 DEF DispatchTypes
      <3>4. ThreadTypes'
        BY <1>0, <1>a, <2>2, <3>1, <3>2 DEF ThreadTypes, ThreadPC, Goto, Ids
      <3>5. HandInv'
        BY <1>0, <1>a, <3>1, <3>2 DEF ThreadTypes, HandInv, Goto
      <3>. QED
        BY <2>1, <3>2, <3>3, <3>4, <3>5 DEF TypeOK
    <2>4. CASE ~Assignable(q)
      <3>1. UNCHANGED <<qVars, dVars, batch, pc, cur, local>>
        BY <1>1, <2>4 DEF SharedVisit, qVars, dVars
      <3>2. QueueTypes' /\ DispatchTypes'
        BY <3>1, Frame
      <3>3. ThreadTypes' /\ HandInv'
        BY <1>a, <2>2, <3>1 DEF ThreadTypes, HandInv
      <3>. QED
        BY <2>1, <3>2, <3>3 DEF TypeOK
    <2>. QED
      BY <2>3, <2>4
  <1>2. ASSUME SharedStart
        PROVE  TypeOK' /\ HandInv'
    <2>1. CallerTypes' /\ QueueTypes' /\ DispatchTypes'
      BY <1>2, Frame DEF SharedStart
    <2>2. pc[t] = "next" /\ batch[t] # <<>> /\ cur[t] # None /\ UNCHANGED <<cur, left, local>>
      BY <1>0, <1>2 DEF SharedStart, HandInv
    <2>3. Head(batch[t]) \in Ids /\ Tail(batch[t]) \in Seq(Ids)
      BY <1>a, <2>2, Rest
    <2>4. TrackerTypes'
      BY <1>2, <1>a DEF SharedStart, WillRunTask, TrackerTypes
    <2>5. HistoryTypes'
      BY <1>2, <1>a, <2>3 DEF SharedStart, Started, HistoryTypes, Ids, pVars
    <2>6. \/ batch' = [batch EXCEPT ![t] = Tail(@)] /\ UNCHANGED pc
          \/ UNCHANGED batch /\ Goto(t, "run")
      BY <1>2 DEF SharedStart
    <2>a. /\ batch' \in [Threads -> Seq(Ids)]
          /\ batch'[t] # <<>> \/ UNCHANGED pc
          /\ \A u \in Threads \ {t} : batch'[u] = batch[u]
      BY <1>0, <1>a, <2>2, <2>3, <2>6 DEF ThreadTypes, Ids
    <2>b. UNCHANGED pc \/ Goto(t, "run")
      BY <2>6
    <2>7. ThreadTypes'
      BY <1>0, <1>a, <2>2, <2>a, <2>b DEF ThreadTypes, ThreadPC, Goto, Ids
    <2>8. HandInv'
      BY <1>0, <1>a, <2>2, <2>a, <2>b DEF ThreadTypes, HandInv, Goto
    <2>. QED
      BY <2>1, <2>4, <2>5, <2>7, <2>8 DEF TypeOK
  <1>3. ASSUME SharedFinish
        PROVE  TypeOK' /\ HandInv'
    <2>1. CallerTypes' /\ QueueTypes' /\ DispatchTypes'
      BY <1>3, Frame DEF SharedFinish
    <2>2. pc[t] = "run" /\ batch[t] # <<>> /\ cur[t] # None /\ UNCHANGED <<cur, left, local>>
      BY <1>0, <1>3 DEF SharedFinish, HandInv
    <2>3. Head(batch[t]) \in Ids /\ Tail(batch[t]) \in Seq(Ids)
      BY <1>a, <2>2, Rest
    <2>4. TrackerTypes'
      BY <1>3, <1>a DEF SharedFinish, DidProcessTask, TrackerTypes
    <2>5. HistoryTypes'
      <3>1. ran' = ran \cup {<<Head(batch[t]), t>>} /\ UNCHANGED <<posted, reposted, late>>
        BY <1>3 DEF SharedFinish, pVars
      <3>. QED
        BY <1>0, <1>a, <2>3, <3>1 DEF HistoryTypes, Ids
    <2>6. batch' = [batch EXCEPT ![t] = Tail(@)] /\ Goto(t, "next")
      BY <1>3 DEF SharedFinish
    <2>7. ThreadTypes'
      BY <1>0, <1>a, <2>2, <2>3, <2>6 DEF ThreadTypes, ThreadPC, Goto, Ids
    <2>8. HandInv'
      BY <1>0, <1>a, <2>2, <2>3, <2>6 DEF ThreadTypes, HandInv, Goto
    <2>. QED
      BY <2>1, <2>4, <2>5, <2>7, <2>8 DEF TypeOK
  <1>4. ASSUME SharedRelease
        PROVE  TypeOK' /\ HandInv'
    <2>1. TrackerTypes' /\ CallerTypes' /\ QueueTypes' /\ HistoryTypes'
      BY <1>4, Frame DEF SharedRelease, hVars, pVars
    <2>2. cur[t] \in Queues
      BY <1>0, <1>4, <1>a DEF SharedRelease, HandInv
    <2>3. DispatchTypes'
      BY <1>4, <1>a, <2>2 DEF SharedRelease, Released, DispatchTypes
    <2>4. ThreadTypes' /\ HandInv'
      BY <1>0, <1>4, <1>a DEF SharedRelease, ThreadTypes, ThreadPC, HandInv, Goto, Leave
    <2>. QED
      BY <2>1, <2>3, <2>4 DEF TypeOK
  <1>5. ASSUME SharedPassed
        PROVE  TypeOK' /\ HandInv'
    <2>1. TrackerTypes' /\ CallerTypes' /\ QueueTypes' /\ DispatchTypes' /\ HistoryTypes'
      BY <1>5, Frame DEF SharedPassed, hVars, pVars
    <2>2. /\ pc[t] = "idle" /\ UNCHANGED <<cur, batch, local>>
          /\ \/ Goto(t, "exited") /\ UNCHANGED left
             \/ left' = SharedQueues /\ UNCHANGED pc
      BY <1>5 DEF SharedPassed
    <2>3. ThreadTypes'
      BY <1>0, <1>a, <2>2 DEF ThreadTypes, ThreadPC, Goto
    <2>4. HandInv'
      <3>1. CASE UNCHANGED pc
        BY <2>2, <3>1 DEF HandInv
      <3>2. CASE Goto(t, "exited")
        BY <1>0, <1>a, <2>2, <3>2 DEF ThreadTypes, HandInv, Goto
      <3>. QED
        BY <2>2, <3>1, <3>2
    <2>. QED
      BY <2>1, <2>3, <2>4 DEF TypeOK
  <1>. QED
    BY <1>1, <1>2, <1>3, <1>4, <1>5 DEF SharedStep

(* And so does Shutdown, and a post. *)
LEMMA CallerTyped ==
  ASSUME TypeOK, HandInv, StartShutdown \/ ShutdownStep
  PROVE  TypeOK' /\ HandInv'
  <1>0. TrackerTypes /\ CallerTypes /\ QueueTypes /\ DispatchTypes
    BY DEF TypeOK
  <1>a. ASSUME UNCHANGED wVars
        PROVE  ThreadTypes' /\ HandInv'
    BY <1>a, Frame DEF HandInv, wVars
  <1>1. ASSUME NEW q \in Queues, Cancel(q) \/ CloseQueue(q)
        PROVE  TypeOK' /\ HandInv'
    <2>1. TrackerTypes' /\ DispatchTypes' /\ ThreadTypes' /\ HandInv' /\ HistoryTypes'
      BY <1>1, <1>a, Frame DEF Cancel, CloseQueue, hVars, pVars
    <2>2. CallerTypes'
      BY <1>0, <1>1 DEF Cancel, CloseQueue, CallerTypes, ShutdownPC
    <2>3. PICK s \in Kept(incoming[q]) : incoming' = [incoming EXCEPT ![q] = s]
      BY <1>1 DEF Cancel, CloseQueue
    <2>4. s \in Seq(Ids)
      BY <1>0, <2>3, KeptType DEF QueueTypes, Ids
    <2>5. incoming' \in [Queues -> Seq(Ids)]
      BY <1>0, <2>3, <2>4 DEF QueueTypes, Ids
    <2>6. work' = work /\ reject' \in [Queues -> BOOLEAN] /\ shut' \in [Queues -> BOOLEAN]
      BY <1>0, <1>1 DEF Cancel, CloseQueue, QueueTypes
    <2>. QED
      BY <1>0, <2>1, <2>2, <2>5, <2>6 DEF TypeOK, QueueTypes, Ids
  <1>2. ASSUME NEW q \in Queues, ReEnqueue(q)
        PROVE  TypeOK' /\ HandInv'
    <2>1. TrackerTypes' /\ QueueTypes' /\ ThreadTypes' /\ HandInv' /\ HistoryTypes'
      BY <1>2, <1>a, Frame DEF ReEnqueue, hVars, pVars
    <2>2. CallerTypes' /\ DispatchTypes'
      BY <1>0, <1>2 DEF ReEnqueue, CallerTypes, DispatchTypes, ShutdownPC
    <2>. QED
      BY <2>1, <2>2 DEF TypeOK
  <1>3. ASSUME StartShutdown \/ CompleteShutdown \/ Drained
        PROVE  TypeOK' /\ HandInv'
    <2>1. QueueTypes' /\ DispatchTypes' /\ ThreadTypes' /\ HandInv' /\ HistoryTypes'
      BY <1>3, <1>a, Frame DEF StartShutdown, CompleteShutdown, Drained, hVars, pVars
    <2>2. TrackerTypes' /\ CallerTypes'
      BY <1>0, <1>3 DEF StartShutdown, CompleteShutdown, Drained, TrackerTypes, CallerTypes, ShutdownPC
    <2>. QED
      BY <2>1, <2>2 DEF TypeOK
  <1>4. ASSUME CloseSource \/ StopShared \/ JoinShared \/ JoinAll
        PROVE  TypeOK' /\ HandInv'
    <2>1. TrackerTypes' /\ QueueTypes' /\ ThreadTypes' /\ HandInv' /\ HistoryTypes'
      BY <1>4, <1>a, Frame DEF CloseSource, StopShared, JoinShared, JoinAll, hVars, pVars
    <2>2. CallerTypes' /\ DispatchTypes'
      BY <1>0, <1>4 DEF CloseSource, StopShared, JoinShared, JoinAll, CallerTypes, DispatchTypes, ShutdownPC, dVars
    <2>. QED
      BY <2>1, <2>2 DEF TypeOK
  <1>. QED
    BY <1>1, <1>2, <1>3, <1>4 DEF ShutdownStep

(* A task that is accepted has a number and a place in its queue. *)
LEMMA AcceptTypes ==
  ASSUME TypeOK, NEW q \in Queues, NEW k \in Kinds, Accept(q, k), UNCHANGED <<work, reject, shut>>
  PROVE  QueueTypes' /\ posted' \in Seq(Kinds)
  <1>1. posted' \in Seq(Kinds) /\ Len(posted) + 1 \in Ids
    BY BatchAssumption, AppendProperties, LenProperties DEF Accept, TypeOK, HistoryTypes, Ids
  <1>2. Append(incoming[q], Len(posted) + 1) \in Seq(Ids)
    BY <1>1, AppendProperties DEF TypeOK, QueueTypes, Ids
  <1>3. QueueTypes'
    BY <1>2 DEF Accept, TypeOK, QueueTypes, Ids
  <1>. QED
    BY <1>1, <1>3

LEMMA PushTyped ==
  ASSUME TypeOK, HandInv, NEW q \in Queues, NEW k \in Kinds, Push(q, k)
  PROVE  TypeOK' /\ HandInv'
  <1>1. TrackerTypes' /\ CallerTypes' /\ ThreadTypes'
    BY Frame DEF Push
  <1>2. HandInv'
    BY DEF Push, HandInv, wVars
  <1>3. QueueTypes' /\ posted' \in Seq(Kinds)
    BY AcceptTypes DEF Push
  <1>4. HistoryTypes'
    BY <1>3 DEF Push, TypeOK, HistoryTypes, hVars
  <1>5. DispatchTypes'
    BY DEF Push, TypeOK, DispatchTypes
  <1>. QED
    BY <1>1, <1>2, <1>3, <1>4, <1>5 DEF TypeOK

LEMMA RepostTyped ==
  ASSUME TypeOK, HandInv, NEW w \in Workers, NEW k \in Kinds, Repost(w, k)
  PROVE  TypeOK' /\ HandInv'
  <1>0. w \in Threads
    BY DEF Threads
  <1>1. TrackerTypes' /\ CallerTypes' /\ DispatchTypes'
    BY Frame DEF Repost
  <1>2. cur[w] \in Queues \ SharedQueues /\ pc[w] = "run"
    BY <1>0 DEF Repost, HandInv, TypeOK, ThreadTypes
  <1>3. QueueTypes' /\ posted' \in Seq(Kinds)
    BY <1>2, AcceptTypes DEF Repost
  <1>4. HistoryTypes'
    BY <1>2, <1>3 DEF Repost, TypeOK, HistoryTypes, hVars
  <1>5. Append(local[w], cur[w]) \in Seq(Queues \ SharedQueues)
    BY <1>2, AppendProperties DEF TypeOK, ThreadTypes
  <1>6. PICK l \in Seq(Queues \ SharedQueues) :
          local' = [local EXCEPT ![w] = l] /\ UNCHANGED <<pc, cur, batch, left>>
    BY <1>5 DEF Repost
  <1>7. ThreadTypes'
    BY <1>6 DEF TypeOK, ThreadTypes
  <1>8. HandInv'
    BY <1>2, <1>6 DEF TypeOK, ThreadTypes, HandInv
  <1>. QED
    BY <1>1, <1>3, <1>4, <1>7, <1>8 DEF TypeOK

LEMMA TypeStep == TypeOK /\ HandInv /\ [Next]_vars => TypeOK' /\ HandInv'
  <1>. SUFFICES ASSUME TypeOK, HandInv, [Next]_vars
                PROVE  TypeOK' /\ HandInv'
    OBVIOUS
  <1>1. ASSUME UNCHANGED vars
        PROVE  TypeOK' /\ HandInv'
    BY <1>1, Frame DEF vars, TypeOK, HandInv, wVars, pVars, hVars
  <1>. QED
    BY <1>1, WorkerTypes, SharedTypes, CallerTyped, PushTyped, RepostTyped DEF Next

LEMMA TypeInit == Init => TypeOK /\ HandInv
  <1>. SUFFICES ASSUME Init
                PROVE  TypeOK /\ HandInv
    OBVIOUS
  <1>1. <<>> \in Seq(Ids) /\ <<>> \in Seq(Kinds)
    OBVIOUS
  <1>2. TrackerTypes
    <2>1. state \in {"none", "started", "completed"} /\ blocking \in Int
      BY DEF Init
    <2>2. notified \in BOOLEAN
      BY DEF Init
    <2>. QED
      BY <2>1, <2>2 DEF TrackerTypes
  <1>3. CallerTypes
    BY DEF Init, CallerTypes, ShutdownPC
  <1>4. DispatchTypes
    BY DEF Init, DispatchTypes
  <1>5. QueueTypes
    BY <1>1 DEF Init, QueueTypes, Ids
  <1>6. HistoryTypes
    BY <1>1 DEF Init, HistoryTypes, Ids
  <1>7. ThreadTypes
    BY <1>1 DEF Init, ThreadTypes, ThreadPC, Ids
  <1>8. HandInv
    BY DEF Init, HandInv, Threads
  <1>. QED
    BY <1>2, <1>3, <1>4, <1>5, <1>6, <1>7, <1>8 DEF TypeOK

(* Every variable keeps to its type: a batch is not empty while it is run, a  *)
(* thread that is not idle has a queue to go back to, and the shared thread   *)
(* passes over SHARED queues only.                                            *)
THEOREM TypeCorrect == Spec => []TypeOK
  <1>1. Spec => [](TypeOK /\ HandInv)
    BY TypeInit, TypeStep, PTL DEF Spec
  <1>. QED
    BY <1>1, PTL

----------------------------------------------------------------------------
(* Who has a queue. *)

(* A step that takes or gives back no queue disturbs nobody's right to his. *)
LEMMA ClaimFrame ==
  ASSUME ClaimInv, UNCHANGED <<cur, owner, claimed, local, reposted>>
  PROVE  ClaimInv'
  BY DEF ClaimInv, Apart

(* A queue that nobody owns, or nobody has claimed, may be taken. *)
LEMMA ClaimTaken ==
  ASSUME TypeOK, ClaimInv, HandInv, NEW t \in Threads, NEW q \in Queues,
         cur[t] = None, cur' = [cur EXCEPT ![t] = q], UNCHANGED <<local, reposted>>,
         \/ /\ q \in SharedQueues /\ owner[q] = None
            /\ owner' = [owner EXCEPT ![q] = t]
            /\ claimed' = claimed \/ claimed' = [claimed EXCEPT ![q] = TRUE]
         \/ /\ q \notin SharedQueues /\ ~claimed[q] /\ t \in Workers
            /\ owner' = owner
            /\ claimed' = [claimed EXCEPT ![q] = TRUE]
  PROVE  ClaimInv'
  <1>. USE SharedAssumption, NoneAssumption
  <1>0. Workers \subseteq Threads /\ SharedThread \in Threads
    BY DEF Threads
  <1>1. /\ cur \in [Threads -> Queues \cup {None}]
        /\ owner \in [Queues -> Threads \cup {None}]
        /\ claimed \in [Queues -> BOOLEAN]
    BY DEF TypeOK, ThreadTypes, DispatchTypes
  <1>2. q \in SharedQueues \cup Apart => \A u \in Threads : cur[u] # q
    <2>1. CASE q \in SharedQueues
      BY <2>1, <1>1 DEF ClaimInv, Threads
    <2>2. CASE q \in Apart
      BY <2>2, <1>0, <1>1 DEF ClaimInv, HandInv, Threads, Apart
    <2>. QED
      BY <2>1, <2>2
  <1>3. \A u \in Threads : cur'[u] = IF u = t THEN q ELSE cur[u]
    BY <1>1
  <1>4. (\A u \in Threads : cur[u] \in SharedQueues => owner[cur[u]] = u)'
    BY <1>0, <1>1, <1>2, <1>3 DEF ClaimInv
  <1>a. Apart' = Apart /\ Apart \subseteq Queues /\ Apart \cap SharedQueues = {}
    BY DEF Apart
  <1>5. (\A w \in Workers : cur[w] \in Apart => claimed[cur[w]])'
    BY <1>0, <1>1, <1>2, <1>3, <1>a DEF ClaimInv
  <1>6. (\A v, w \in Workers : cur[v] = cur[w] /\ cur[v] \in Apart => v = w)'
    BY <1>0, <1>2, <1>3, <1>a DEF ClaimInv
  <1>. QED
    BY <1>4, <1>5, <1>6 DEF ClaimInv

(* The only thread that has a queue gives it back. *)
LEMMA ClaimGiven ==
  ASSUME TypeOK, ClaimInv, NEW t \in Threads, cur[t] \in Queues,
         cur' = [cur EXCEPT ![t] = None], UNCHANGED <<local, reposted>>,
         \/ /\ cur[t] \in SharedQueues
            /\ owner' = [owner EXCEPT ![cur[t]] = None] /\ claimed' = claimed
         \/ /\ cur[t] \notin SharedQueues /\ t \in Workers
            /\ owner' = owner /\ claimed' = [claimed EXCEPT ![cur[t]] = FALSE]
  PROVE  ClaimInv'
  <1>. USE SharedAssumption, NoneAssumption
  <1>0. Workers \subseteq Threads /\ SharedThread \in Threads
    BY DEF Threads
  <1>1. /\ cur \in [Threads -> Queues \cup {None}]
        /\ owner \in [Queues -> Threads \cup {None}]
        /\ claimed \in [Queues -> BOOLEAN]
    BY DEF TypeOK, ThreadTypes, DispatchTypes
  <1>2. \A u \in Threads : cur'[u] = IF u = t THEN None ELSE cur[u]
    BY <1>1
  <1>4. (\A u \in Threads : cur[u] \in SharedQueues => owner[cur[u]] = u)'
    BY <1>0, <1>1, <1>2 DEF ClaimInv
  <1>3. Apart' = Apart /\ Apart \subseteq Queues /\ Apart \cap SharedQueues = {}
    BY DEF Apart
  <1>5. (\A w \in Workers : cur[w] \in Apart => claimed[cur[w]])'
    BY <1>0, <1>1, <1>2, <1>3 DEF ClaimInv
  <1>6. (\A v, w \in Workers : cur[v] = cur[w] /\ cur[v] \in Apart => v = w)'
    BY <1>0, <1>2, <1>3 DEF ClaimInv
  <1>. QED
    BY <1>4, <1>5, <1>6 DEF ClaimInv

LEMMA ClaimStep == TypeOK /\ HandInv /\ ClaimInv /\ [Next]_vars => ClaimInv'
  <1>. SUFFICES ASSUME TypeOK, HandInv, ClaimInv, [Next]_vars
                PROVE  ClaimInv'
    OBVIOUS
  <1>. USE SharedAssumption, NoneAssumption
  <1>0. /\ Workers \subseteq Threads /\ SharedThread \in Threads /\ SharedThread \notin Workers
        /\ \A t \in Threads : cur[t] \in Queues \cup {None}
    BY DEF Threads, TypeOK, ThreadTypes
  <1>1. ASSUME NEW w \in Workers, NEW q \in Queues, Claim(w, q)
        PROVE  ClaimInv'
    <2>1. cur[w] = None
      BY <1>0, <1>1 DEF Claim, HandInv
    <2>2. CASE claimed[q]
      BY <1>1, <2>2, ClaimFrame DEF Claim, pVars
    <2>3. CASE ~claimed[q] /\ q \in SharedQueues /\ owner[q] # None
      <3>1. UNCHANGED <<owner, cur, local, reposted>> /\ claimed' = [claimed EXCEPT ![q] = TRUE]
        BY <1>1, <2>3 DEF Claim, pVars
      <3>. QED
        BY <3>1, <2>3, <1>0 DEF ClaimInv, Apart, TypeOK, DispatchTypes
    <2>4. CASE ~claimed[q] /\ q \in SharedQueues /\ owner[q] = None
      <3>1. /\ owner' = [owner EXCEPT ![q] = w] /\ cur' = [cur EXCEPT ![w] = q]
            /\ claimed' = [claimed EXCEPT ![q] = TRUE] /\ UNCHANGED <<local, reposted>>
        BY <1>1, <2>4 DEF Claim, pVars
      <3>. QED
        BY <1>0, <2>1, <2>4, <3>1, ClaimTaken
    <2>5. CASE ~claimed[q] /\ q \notin SharedQueues
      <3>1. /\ owner' = owner /\ cur' = [cur EXCEPT ![w] = q]
            /\ claimed' = [claimed EXCEPT ![q] = TRUE] /\ UNCHANGED <<local, reposted>>
        BY <1>1, <2>5 DEF Claim, pVars
      <3>. QED
        BY <1>0, <2>1, <2>5, <3>1, ClaimTaken
    <2>. QED
      BY <2>2, <2>3, <2>4, <2>5
  <1>2. ASSUME NEW w \in Workers, Turned(w)
        PROVE  ClaimInv'
    <2>1. cur[w] \in Queues
      BY <1>0, <1>2 DEF Turned, HandInv
    <2>2. CASE cur[w] \in SharedQueues
      BY <1>2, <2>2, ClaimFrame DEF Turned, pVars
    <2>3. CASE cur[w] \notin SharedQueues
      <3>1. /\ cur' = [cur EXCEPT ![w] = None] /\ owner' = owner
            /\ claimed' = [claimed EXCEPT ![cur[w]] = FALSE] /\ UNCHANGED <<local, reposted>>
        BY <1>2, <2>3 DEF Turned, Leave, pVars
      <3>. QED
        BY <1>0, <2>1, <2>3, <3>1, ClaimGiven
    <2>. QED
      BY <2>2, <2>3
  <1>3. ASSUME NEW w \in Workers, Release(w)
        PROVE  ClaimInv'
    <2>1. cur[w] \in SharedQueues
      BY <1>3 DEF Release, HandInv
    <2>2. /\ cur' = [cur EXCEPT ![w] = None] /\ claimed' = claimed
          /\ owner' = [owner EXCEPT ![cur[w]] = None] /\ UNCHANGED <<local, reposted>>
      BY <1>3 DEF Release, Released, Leave, pVars
    <2>. QED
      BY <1>0, <2>1, <2>2, ClaimGiven
  <1>4. ASSUME NEW q \in SharedQueues, SharedVisit(q)
        PROVE  ClaimInv'
    <2>1. cur[SharedThread] = None
      BY <1>0, <1>4 DEF SharedVisit, HandInv
    <2>2. CASE Assignable(q)
      <3>1. /\ owner' = [owner EXCEPT ![q] = SharedThread] /\ claimed' = claimed
            /\ cur' = [cur EXCEPT ![SharedThread] = q] /\ owner[q] = None /\ UNCHANGED <<local, reposted>>
        BY <1>4, <2>2 DEF SharedVisit, Assignable, pVars
      <3>. QED
        BY <1>0, <2>1, <3>1, ClaimTaken
    <2>3. CASE ~Assignable(q)
      BY <1>4, <2>3, ClaimFrame DEF SharedVisit, pVars
    <2>. QED
      BY <2>2, <2>3
  <1>5. ASSUME SharedRelease
        PROVE  ClaimInv'
    <2>1. cur[SharedThread] \in SharedQueues
      BY <1>0, <1>5 DEF SharedRelease, HandInv
    <2>2. /\ cur' = [cur EXCEPT ![SharedThread] = None] /\ claimed' = claimed
          /\ owner' = [owner EXCEPT ![cur[SharedThread]] = None] /\ UNCHANGED <<local, reposted>>
      BY <1>5 DEF SharedRelease, Released, Leave, pVars
    <2>. QED
      BY <1>0, <2>1, <2>2, ClaimGiven
  <1>6. ASSUME NEW w \in Workers, Take(w) \/ Finish(w) \/ ParkWake(w) \/ ParkTimeout(w) \/ Exit(w)
        PROVE  ClaimInv'
    BY <1>6, ClaimFrame DEF Take, Finish, ParkWake, ParkTimeout, Exit, dVars, pVars
  <1>7. ASSUME SharedStart \/ SharedFinish \/ SharedPassed
        PROVE  ClaimInv'
    BY <1>7, ClaimFrame DEF SharedStart, SharedFinish, SharedPassed, dVars, pVars
  <1>8. ASSUME StartShutdown \/ ShutdownStep
        PROVE  ClaimInv'
    <2>1. UNCHANGED <<cur, owner, claimed, local, reposted>>
      BY <1>8 DEF StartShutdown, ShutdownStep, Cancel, ReEnqueue, CloseQueue, CompleteShutdown, Drained,
                  CloseSource, StopShared, JoinShared, JoinAll, dVars, wVars, pVars
    <2>. QED
      BY <2>1, ClaimFrame
  <1>9. ASSUME NEW q \in Queues, NEW k \in Kinds, Push(q, k)
        PROVE  ClaimInv'
    BY <1>9, ClaimFrame DEF Push, wVars
  <1>10. ASSUME UNCHANGED vars
        PROVE  ClaimInv'
    BY <1>10, ClaimFrame DEF vars, dVars, wVars, pVars
  <1>11. ASSUME NEW w \in Workers, TakeLocal(w)
        PROVE  ClaimInv'
    <2>1. local[w] \in Seq(Queues \ SharedQueues) /\ local[w] # <<>>
      BY <1>11 DEF TakeLocal, TypeOK, ThreadTypes
    <2>2. 1 \in DOMAIN local[w] /\ Head(local[w]) = local[w][1]
      BY <2>1, HeadTailProperties, LenProperties, EmptySeq
    <2>3. Head(local[w]) \in reposted /\ Head(local[w]) \notin SharedQueues
      BY <2>2 DEF ClaimInv
    <2>4. \A i \in DOMAIN Tail(local[w]) : Tail(local[w])[i] \in reposted
      <3>1. \A i \in DOMAIN local[w] : local[w][i] \in reposted
        BY DEF ClaimInv
      <3>2. DOMAIN local[w] = 1..Len(local[w]) /\ Len(local[w]) \in Nat
        BY <2>1, LenProperties
      <3>3. Tail(local[w]) \in Seq(Queues \ SharedQueues) /\ Len(Tail(local[w])) = Len(local[w]) - 1
        BY <2>1, HeadTailProperties
      <3>4. \A i \in 1..Len(Tail(local[w])) : Tail(local[w])[i] = local[w][i + 1]
        BY <2>1, HeadTailProperties
      <3>5. DOMAIN Tail(local[w]) = 1..Len(Tail(local[w]))
        BY <3>3, LenProperties
      <3>. QED
        BY <3>1, <3>2, <3>3, <3>4, <3>5
    <2>5. PICK q, l : /\ q \in reposted /\ q \notin SharedQueues
                      /\ \A i \in DOMAIN l : l[i] \in reposted
                      /\ cur' = [cur EXCEPT ![w] = q] /\ local' = [local EXCEPT ![w] = l]
                      /\ UNCHANGED <<owner, claimed, reposted>>
      BY <1>11, <2>3, <2>4 DEF TakeLocal, dVars, pVars
    <2>6. /\ \A t \in Threads : cur'[t] = IF t = w THEN q ELSE cur[t]
          /\ \A v \in Workers : local'[v] = IF v = w THEN l ELSE local[v]
      BY <1>0, <2>5 DEF TypeOK, ThreadTypes
    <2>7. Apart' = Apart /\ q \notin Apart
      BY <2>5 DEF Apart
    <2>8. (\A t \in Threads : cur[t] \in SharedQueues => owner[cur[t]] = t)'
      BY <1>0, <2>5, <2>6 DEF ClaimInv
    <2>9. (\A v \in Workers : cur[v] \in Apart => claimed[cur[v]])'
      BY <1>0, <2>5, <2>6, <2>7 DEF ClaimInv
    <2>10. (\A u, v \in Workers : cur[u] = cur[v] /\ cur[u] \in Apart => u = v)'
      BY <1>0, <2>5, <2>6, <2>7 DEF ClaimInv
    <2>11. (\A v \in Workers : \A i \in DOMAIN local[v] : local[v][i] \in reposted)'
      BY <2>5, <2>6 DEF ClaimInv
    <2>. QED
      BY <2>5, <2>8, <2>9, <2>10, <2>11 DEF ClaimInv
  <1>12. ASSUME NEW w \in Workers, NEW k \in Kinds, Repost(w, k)
        PROVE  ClaimInv'
    <2>1. cur[w] \in Queues \ SharedQueues
      BY <1>0, <1>12 DEF Repost, HandInv
    <2>2. /\ UNCHANGED <<cur, owner, claimed>> /\ reposted' = reposted \cup {cur[w]}
          /\ local' = [local EXCEPT ![w] = Append(local[w], cur[w])]
      BY <1>12 DEF Repost, dVars
    <2>3. Apart' \subseteq Apart
      BY <2>2 DEF Apart
    <2>4. local[w] \in Seq(Queues \ SharedQueues)
      BY DEF TypeOK, ThreadTypes
    <2>5. \A i \in DOMAIN Append(local[w], cur[w]) : Append(local[w], cur[w])[i] \in reposted'
      <3>1. /\ \A i \in 1..Len(local[w]) : local[w][i] \in reposted
            /\ Len(local[w]) \in Nat
        BY <2>4, LenProperties DEF ClaimInv
      <3>2. /\ Append(local[w], cur[w]) \in Seq(Queues \ SharedQueues)
            /\ Len(Append(local[w], cur[w])) = Len(local[w]) + 1
            /\ \A i \in 1..Len(local[w]) : Append(local[w], cur[w])[i] = local[w][i]
            /\ Append(local[w], cur[w])[Len(local[w]) + 1] = cur[w]
        BY <2>1, <2>4, AppendProperties
      <3>3. DOMAIN Append(local[w], cur[w]) = 1..(Len(local[w]) + 1)
        BY <3>2, LenProperties
      <3>. QED
        BY <2>2, <3>1, <3>2, <3>3
    <2>6. PICK l : /\ local' = [local EXCEPT ![w] = l]
                   /\ \A i \in DOMAIN l : l[i] \in reposted'
      BY <2>2, <2>5
    <2>7. (\A v \in Workers : \A i \in DOMAIN local[v] : local[v][i] \in reposted)'
      <3>1. \A v \in Workers : local'[v] = IF v = w THEN l ELSE local[v]
        BY <2>6 DEF TypeOK, ThreadTypes
      <3>. QED
        BY <2>2, <2>6, <3>1 DEF ClaimInv
    <2>. QED
      BY <2>1, <2>2, <2>3, <2>7 DEF ClaimInv
  <1>. QED
    BY <1>1, <1>2, <1>3, <1>4, <1>5, <1>6, <1>7, <1>8, <1>9, <1>10, <1>11, <1>12 DEF Next, WorkerStep, SharedStep

(* No two threads have tasks of one queue in hand, whatever Shutdown cancels  *)
(* and puts back into the heap meanwhile, as long as no running task has      *)
(* posted to that queue while it was empty: has_worker_ and dedicated_owner   *)
(* keep the threads apart.  SHARED queues are never reposted.                 *)
THEOREM SingleConsumer == Spec => []OneConsumerUnlessReposted
  <1>1. Init => ClaimInv
    BY SharedAssumption, NoneAssumption DEF Init, ClaimInv, Apart, Threads
  <1>2. TypeOK /\ HandInv /\ ClaimInv => OneConsumerUnlessReposted
    <2>. SUFFICES ASSUME TypeOK, HandInv, ClaimInv, NEW t \in Threads, NEW u \in Threads,
                         batch[t] # <<>>, batch[u] # <<>>, cur[t] = cur[u], cur[t] \notin reposted
                  PROVE  t = u
      BY DEF OneConsumerUnlessReposted
    <2>1. cur[t] \in Queues /\ cur[u] \in Queues
      BY DEF HandInv, TypeOK, ThreadTypes
    <2>2. CASE cur[t] \in SharedQueues
      BY <2>2 DEF ClaimInv
    <2>3. CASE cur[t] \notin SharedQueues
      <3>1. t # SharedThread /\ u # SharedThread
        BY <2>1, <2>3, NoneAssumption DEF HandInv
      <3>. QED
        BY <2>1, <2>3, <3>1 DEF ClaimInv, Apart, Threads
    <2>. QED
      BY <2>2, <2>3
  <1>3. Spec => [](TypeOK /\ HandInv /\ ClaimInv)
    BY <1>1, TypeInit, TypeStep, ClaimStep, PTL DEF Spec
  <1>. QED
    BY <1>2, <1>3, PTL

----------------------------------------------------------------------------
(* The joins. *)

(* A thread that has exited stays so. *)
LEMMA ExitedStays ==
  ASSUME TypeOK, HandInv, [Next]_vars, NEW t \in Threads, pc[t] = "exited"
  PROVE  pc'[t] = "exited"
  <1>. USE SharedAssumption DEF Goto, Leave, TypeOK, ThreadTypes
  <1>0. Workers \subseteq Threads /\ SharedThread \in Threads
    BY DEF Threads
  <1>1. ASSUME NEW w \in Workers, WorkerStep(w) \/ ParkTimeout(w)
        PROVE  pc'[t] = "exited"
    BY <1>0, <1>1 DEF WorkerStep, TakeLocal, Claim, Take, Finish, Turned, ParkWake, ParkTimeout, Release, Exit
  <1>2. ASSUME SharedStep
        PROVE  pc'[t] = "exited"
    BY <1>0, <1>2 DEF SharedStep, SharedVisit, SharedStart, SharedFinish, SharedRelease, SharedPassed
  <1>3. ASSUME StartShutdown \/ ShutdownStep \/ UNCHANGED vars
        PROVE  pc' = pc
    BY <1>3 DEF StartShutdown, ShutdownStep, Cancel, ReEnqueue, CloseQueue, CompleteShutdown, Drained,
                CloseSource, StopShared, JoinShared, JoinAll, wVars, vars
  <1>4. ASSUME NEW q \in Queues, NEW k \in Kinds, Push(q, k)
        PROVE  pc' = pc
    BY <1>4 DEF Push, wVars
  <1>5. ASSUME NEW w \in Workers, NEW k \in Kinds, Repost(w, k)
        PROVE  pc' = pc
    BY <1>5 DEF Repost
  <1>. QED
    BY <1>1, <1>2, <1>3, <1>4, <1>5 DEF Next

LEMMA JoinStep == TypeOK /\ HandInv /\ JoinInv /\ [Next]_vars => JoinInv'
  <1>. SUFFICES ASSUME TypeOK, HandInv, JoinInv, [Next]_vars
                PROVE  JoinInv'
    OBVIOUS
  <1>0. Workers \subseteq Threads /\ SharedThread \in Threads
    BY DEF Threads
  <1>1. \A t \in Threads : pc[t] = "exited" => pc'[t] = "exited"
    BY ExitedStays
  <1>2. /\ spc' \in {"join", "done"} => spc \in {"join", "done"} \/ JoinShared
        /\ spc' = "done" => spc = "done" \/ JoinAll
    <2>1. ASSUME NEW w \in Workers, WorkerStep(w) \/ ParkTimeout(w)
          PROVE  spc' = spc
      BY <2>1 DEF WorkerStep, TakeLocal, Claim, Take, Finish, Turned, ParkWake, ParkTimeout, Release, Exit, cVars
    <2>2. ASSUME SharedStep
          PROVE  spc' = spc
      BY <2>2 DEF SharedStep, SharedVisit, SharedStart, SharedFinish, SharedRelease, SharedPassed, cVars
    <2>3. ASSUME NEW q \in Queues, NEW k \in Kinds, Push(q, k)
          PROVE  spc' = spc
      BY <2>3 DEF Push, cVars
    <2>4. ASSUME StartShutdown \/ ShutdownStep
          PROVE  <1>2!1 /\ <1>2!2
      BY <2>4 DEF StartShutdown, ShutdownStep, Cancel, ReEnqueue, CloseQueue, CompleteShutdown, Drained,
                  CloseSource, StopShared, JoinShared, JoinAll
    <2>5. ASSUME UNCHANGED vars
          PROVE  spc' = spc
      BY <2>5 DEF vars, cVars
    <2>6. ASSUME NEW w \in Workers, NEW k \in Kinds, Repost(w, k)
          PROVE  spc' = spc
      BY <2>6 DEF Repost, cVars
    <2>. QED
      BY <2>1, <2>2, <2>3, <2>4, <2>5, <2>6 DEF Next
  <1>. QED
    BY <1>0, <1>1, <1>2 DEF JoinInv, JoinShared, JoinAll

(* Once Shutdown has returned and the queues are gone, no thread of the pool  *)
(* has one: both joins wait for an exit, which is for good and comes only     *)
(* when a thread has given its queue back.                                    *)
THEOREM QuietShutdown == Spec => []QuietAfter
  <1>1. Init => JoinInv
    BY DEF Init, JoinInv
  <1>2. TypeOK /\ HandInv /\ JoinInv => QuietAfter
    BY DEF HandInv, JoinInv, QuietAfter, Threads
  <1>3. Spec => [](TypeOK /\ HandInv /\ JoinInv)
    BY <1>1, TypeInit, TypeStep, JoinStep, PTL DEF Spec
  <1>. QED
    BY <1>2, <1>3, PTL
=============================================================================
