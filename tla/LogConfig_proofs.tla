-------------------------- MODULE LogConfig_proofs --------------------------
(***************************************************************************)
(* Proofs about LogConfig for any number of clients, slots and sinks: type *)
(* correctness; no sink used after its release or released twice; a        *)
(* current cache is the table; nobody left asleep by an idle consumer.     *)
(***************************************************************************)
EXTENDS LogConfig, SequenceTheorems, TLAPS

----------------------------------------------------------------------------
(* The facts about slots and sinks that the type proof uses. *)
LEMMA TableFacts ==
  /\ 0 \in Table
  /\ NoSink \in SinkId /\ Unused \notin SinkId
  /\ \A k \in SinkId : k < MaxSinks => k + 1 \in SinkId
  BY ConfigsAssumption, BoundsAssumption DEF Table, SinkId, NoSink, Unused

(* The oldest event and the rest of the queue have their types. *)
LEMMA HeadTail ==
  ASSUME NEW S, NEW q \in Seq(S), q # <<>>
  PROVE  Head(q) \in S /\ Tail(q) \in Seq(S)
  BY HeadTailProperties

(* Every step keeps the types. *)
LEMMA TypeStep ==
  TypeOK /\ [Next]_vars => TypeOK'
  <1>. SUFFICES ASSUME TypeOK, [Next]_vars
                PROVE  TypeOK'
    OBVIOUS
  <1>. USE TableFacts DEF TypeOK, BumpSnapshot, cfVars, tlVars, clVars, coVars, hsVars
  <1>1. ASSUME NEW t \in Clients, AddConfig(t)
        PROVE  TypeOK'
    BY <1>1 DEF AddConfig, Goto, Return, FreeSlots
  <1>2. ASSUME NEW t \in Clients, AddDefaultSink(t)
        PROVE  TypeOK'
    BY <1>2 DEF AddDefaultSink, Goto, Return
  <1>3. ASSUME NEW t \in Clients, UpdateConfig(t)
        PROVE  TypeOK'
    BY <1>3 DEF UpdateConfig, Goto, Return
  <1>4. ASSUME NEW t \in Clients, QuiesceTest(t)
        PROVE  TypeOK'
    BY <1>4 DEF QuiesceTest, Goto, Return
  <1>5. ASSUME NEW t \in Clients, QuiesceWait(t)
        PROVE  TypeOK'
    <2>1. CASE count[slot[t]] # 0
      BY <1>5, <2>1 DEF QuiesceWait
    <2>2. CASE count[slot[t]] = 0
      <3>1. Goto(t, "release") /\ UNCHANGED waiters
        BY <1>5, <2>2 DEF QuiesceWait
      <3>. QED
        BY <1>5, <3>1 DEF QuiesceWait, Goto
    <2>. QED
      BY <2>1, <2>2
  <1>6. ASSUME NEW t \in Clients, ReleaseSinks(t)
        PROVE  TypeOK'
    BY <1>6 DEF ReleaseSinks, Goto, Return
  <1>7. ASSUME NEW t \in Clients, LogRefresh(t)
        PROVE  TypeOK'
    BY <1>7 DEF LogRefresh, Goto, Return
  <1>8. ASSUME NEW t \in Clients, LogSkip(t)
        PROVE  TypeOK'
    BY <1>8 DEF LogSkip, Goto, Return
  <1>9. ASSUME NEW t \in Clients, LogEnqueue(t)
        PROVE  TypeOK'
    <2>1. Cached(t) \in SinkId
      BY <1>9 DEF LogEnqueue, Cached
    <2>. QED
      <3>1. queue' \in Seq([slot : Table, sink : SinkId]) /\ queue' # <<>>
        BY <1>9, <2>1 DEF LogEnqueue
      <3>2. pc' = [pc EXCEPT ![t] = "idle"] /\ target' = [target EXCEPT ![t] = 0] /\ slot' = [slot EXCEPT ![t] = 0]
        BY <1>9 DEF LogEnqueue, Return
      <3>3. \A q \in Clients : pc'[q] = "edit" => target'[q] \in SinkId
        BY <3>2
      <3>4. UNCHANGED <<ptr, snapshot, count, tls, tls_snap, saved, consumed, cpc, cur, waiters, created, detached, released>>
        BY <1>9 DEF LogEnqueue
      <3>. QED
        BY <3>1, <3>2, <3>3, <3>4
  <1>10. ASSUME NEW t \in Clients, FlushCall(t)
        PROVE  TypeOK'
    BY <1>10 DEF FlushCall, Goto, Return
  <1>11. ASSUME NEW t \in Clients, FlushWait(t)
        PROVE  TypeOK'
    <2>1. CASE consumed < target[t]
      BY <1>11, <2>1 DEF FlushWait
    <2>2. CASE ~(consumed < target[t])
      <3>1. Return(t) /\ UNCHANGED waiters
        BY <1>11, <2>2 DEF FlushWait
      <3>. QED
        BY <1>11, <3>1 DEF FlushWait, Return
    <2>. QED
      BY <2>1, <2>2
  <1>12. ASSUME NEW t \in Clients, NEW s \in Table, Unpublish(t, s)
        PROVE  TypeOK'
    BY <1>12 DEF Unpublish, Goto, Return
  <1>13. ASSUME NEW t \in Clients, NEW s \in Table, LogStart(t, s)
        PROVE  TypeOK'
    BY <1>13 DEF LogStart, Goto, Return
  <1>21. ASSUME NEW t \in Clients, NEW s \in Table, GetConfig(t, s)
        PROVE  TypeOK'
    <2>1. ptr[s] \in SinkId /\ ptr[s] \in Nat
      BY <1>21, BoundsAssumption DEF GetConfig, SinkId
    <2>. QED
      BY <1>21, <2>1 DEF GetConfig, Goto
  <1>22. ASSUME NEW t \in Clients, RemoveSink(t)
        PROVE  TypeOK'
    <2>1. HeldSink(t) \in SinkId
      BY <1>22 DEF RemoveSink, HeldSink
    <2>. QED
      BY <1>22, <2>1 DEF RemoveSink, Goto
  <1>23. ASSUME NEW t \in Clients, SinkNotFound(t)
        PROVE  TypeOK'
    BY <1>23 DEF SinkNotFound, Return
  <1>24. ASSUME NEW t \in Clients, ReleaseByHand(t)
        PROVE  TypeOK'
    BY <1>24 DEF ReleaseByHand, Return
  <1>14. CASE ConsumerAcquire
    <2>1. Head(queue) \in [slot : Table, sink : SinkId]
      BY <1>14, HeadTail DEF ConsumerAcquire
    <2>2. CASE ptr[Head(queue).slot] # Unused
      <3>1. /\ count' = [count EXCEPT ![Head(queue).slot] = @ + 1]
            /\ cur' = [slot |-> Head(queue).slot, sink |-> ptr[Head(queue).slot]]
            /\ cpc' = "format"
        BY <1>14, <2>2 DEF ConsumerAcquire
      <3>2. count' \in [Table -> Int] /\ cur' \in [slot : Table, sink : SinkId \cup {Unused}]
        BY <2>1, <3>1
      <3>. QED
        BY <1>14, <3>1, <3>2 DEF ConsumerAcquire
    <2>3. CASE ptr[Head(queue).slot] = Unused
      <3>1. UNCHANGED <<count, cur>> /\ cpc' = "free"
        BY <1>14, <2>3 DEF ConsumerAcquire
      <3>. QED
        BY <1>14, <3>1 DEF ConsumerAcquire
    <2>. QED
      BY <2>2, <2>3
  <1>15. CASE ConsumerEmit
    <2>. DEFINE k == IF cur.slot = 0 THEN ptr[0] ELSE IF cur.sink \in detached THEN NoSink ELSE cur.sink
    <2>1. k \in SinkId \cup {Unused} /\ cur.slot \in Table
      OBVIOUS
    <2>2. cur' \in [slot : Table, sink : SinkId \cup {Unused}]
      BY <1>15, <2>1 DEF ConsumerEmit
    <2>. QED
      BY <1>15, <2>2 DEF ConsumerEmit
  <1>16. CASE ConsumerRelease
    <2>1. cur' \in [slot : Table, sink : SinkId \cup {Unused}]
      BY <1>16 DEF ConsumerRelease, NoneAcquired
    <2>2. count' \in [Table -> Int]
      BY <1>16 DEF ConsumerRelease
    <2>. QED
      BY <1>16, <2>1, <2>2 DEF ConsumerRelease
  <1>17. CASE ConsumerSignal
    <2>1. waiters' \subseteq waiters
      BY <1>17 DEF ConsumerSignal, Signal
    <2>2. waiters' \subseteq Clients
      BY <2>1
    <2>3. /\ cpc' = "free"
          /\ UNCHANGED <<cfVars, tlVars, clVars, queue, consumed, cur, hsVars>>
      BY <1>17 DEF ConsumerSignal
    <2>4. queue # <<>>
      BY <1>17 DEF ConsumerSignal
    <2>. QED
      BY <2>2, <2>3, <2>4
  <1>18. CASE ConsumerFree
    <2>1. Tail(queue) \in Seq([slot : Table, sink : SinkId])
      BY <1>18, HeadTail DEF ConsumerFree
    <2>. QED
      BY <1>18, <2>1 DEF ConsumerFree
  <1>19. CASE ConsumerNotify
    BY <1>19 DEF ConsumerNotify
  <1>20. CASE UNCHANGED vars
    BY <1>20 DEF vars
  <1>. QED
    BY <1>1, <1>2, <1>3, <1>4, <1>5, <1>6, <1>7, <1>8, <1>9, <1>10, <1>11, <1>12, <1>13, <1>14, <1>15, <1>16, <1>17, <1>18, <1>19, <1>20, <1>21, <1>22, <1>23, <1>24 DEF Next, Advance, ConsumerStep

LEMMA TypeInit ==
  Init => TypeOK
  BY ConfigsAssumption, BoundsAssumption
     DEF Init, TypeOK, Table, SinkId, Unused, NoSink, NoneAcquired

(* Type correctness of the configuration table model. *)
THEOREM TypeCorrect == Spec => []TypeOK
  BY TypeInit, TypeStep, PTL DEF Spec

----------------------------------------------------------------------------
(* The sinks.  A sink moves from the table to one removal and from there to  *)
(* the released ones; what the consumer is inside keeps a removal waiting.   *)
Removing == {"quiesce", "qlock", "release", "byhand"}

(* A client outside a removal that touches no sink keeps SinkInv. *)
LEMMA ClientFrame ==
  ASSUME NEW t \in Clients, TypeOK, SinkInv,
         UNCHANGED <<ptr, count, saved, hsVars, cur, cpc>>,
         pc[t] \notin Removing, pc'[t] # "byhand", pc'[t] = "edit" => target'[t] <= created,
         \A q \in Clients \ {t} : pc'[q] = pc[q] /\ slot'[q] = slot[q] /\ target'[q] = target[q]
  PROVE  SinkInv'
  <1>. USE DEF hsVars
  <1>1. ReleasedOnce'
    BY DEF SinkInv, ReleasedOnce
  <1>2. PlaceInv'
    <2>1. saved[t] = {}
      BY DEF SinkInv, PlaceInv, Removing
    <2>. QED
      BY <2>1 DEF SinkInv, PlaceInv, TypeOK
  <1>3. InsideInv'
    BY DEF SinkInv, InsideInv, Inside, Removing
  <1>. QED
    BY <1>1, <1>2, <1>3 DEF SinkInv

(* A consumer step outside a configuration keeps SinkInv. *)
LEMMA ConsumerFrame ==
  ASSUME SinkInv, ~Inside, ~Inside',
         UNCHANGED <<ptr, count, clVars, hsVars, cur>>
  PROVE  SinkInv'
  <1>. USE DEF clVars, hsVars
  <1>1. ReleasedOnce' /\ PlaceInv'
    BY DEF SinkInv, ReleasedOnce, PlaceInv
  <1>2. InsideInv'
    BY DEF SinkInv, InsideInv
  <1>. QED
    BY <1>1, <1>2 DEF SinkInv

(* A new sink goes to a place of the table that holds none. *)
LEMMA NewSink ==
  ASSUME TypeOK, SinkInv, NEW s \in Table, ptr[s] \in {NoSink, Unused}, created < MaxSinks,
         ptr' = [ptr EXCEPT ![s] = created + 1], created' = created + 1,
         UNCHANGED <<count, clVars, detached, released, cur, cpc>>
  PROVE  SinkInv'
  <1>. USE BoundsAssumption DEF SinkId, NoSink, Unused, TypeOK, clVars
  <1>1. ReleasedOnce'
    BY DEF SinkInv, ReleasedOnce
  <1>2. PlaceInv'
    <2>1. ASSUME NEW r \in Table, ptr[r] = created + 1
          PROVE  FALSE
      <3>1. ptr[r] \in 1..MaxSinks
        BY <2>1
      <3>2. ptr[r] <= created
        BY <3>1 DEF SinkInv, PlaceInv
      <3>. QED
        BY <2>1, <3>2
    <2>2. created + 1 \notin released /\ \A t \in Clients : created + 1 \notin saved[t]
      BY DEF SinkInv, PlaceInv
    <2>3. /\ ptr'[s] = created + 1
          /\ \A r \in Table \ {s} : ptr'[r] = ptr[r]
      OBVIOUS
    <2>4. ASSUME NEW r \in Table, ptr'[r] \in 1..MaxSinks
          PROVE  /\ ptr'[r] <= created'
                 /\ \A u \in Table : ptr'[u] = ptr'[r] => u = r
                 /\ ptr'[r] \notin detached' => ptr'[r] \notin released' /\ \A t \in Clients : ptr'[r] \notin saved'[t]
      BY <2>1, <2>2, <2>3, <2>4 DEF SinkInv, PlaceInv
    <2>5. \A t \in Clients : \A k \in saved'[t] : k # NoSink /\ k <= created'
      BY DEF SinkInv, PlaceInv
    <2>6. \A k \in released' : k # NoSink /\ k <= created'
      BY DEF SinkInv, PlaceInv
    <2>7. \A t \in Clients : saved'[t] # {} => pc'[t] \in Removing
      BY DEF SinkInv, PlaceInv, Removing
    <2>8. /\ \A k \in detached' : k # NoSink /\ k <= created'
          /\ \A t \in Clients : pc'[t] = "edit" => target'[t] <= created'
          /\ \A t \in Clients : pc'[t] = "byhand" => saved'[t] \subseteq detached'
      BY DEF SinkInv, PlaceInv
    <2>. QED
      BY <2>4, <2>5, <2>6, <2>7, <2>8 DEF PlaceInv, Removing
  <1>3. InsideInv'
    <2>1. /\ \A r \in Table : count'[r] = IF Inside' /\ cur'.slot = r THEN 1 ELSE 0
          /\ ~Inside' => cur'.sink = Unused
      BY DEF SinkInv, InsideInv, Inside
    <2>2. ASSUME Inside', cur'.sink \notin {NoSink} \cup detached',
                 ~(cur'.sink \in 1..MaxSinks /\ cur'.sink = ptr'[cur'.slot])
          PROVE  \E t \in Clients : /\ cur'.sink \in saved'[t] /\ slot'[t] = cur'.slot
                                    /\ pc'[t] \in {"quiesce", "qlock"}
      BY <2>2 DEF SinkInv, InsideInv, Inside
    <2>. QED
      BY <2>1, <2>2 DEF InsideInv
  <1>. QED
    BY <1>1, <1>2, <1>3 DEF SinkInv

(* nei_log_remove_config takes the sink out of the table into the removal. *)
LEMMA UnpublishStep ==
  ASSUME TypeOK, SinkInv, NEW t \in Clients, NEW s \in Table, Unpublish(t, s)
  PROVE  SinkInv'
  <1>. USE TableFacts DEF TypeOK
  <1>. DEFINE gone == {ptr[s]} \ ({NoSink} \cup detached)
  <1>1. /\ saved[t] = {}
        /\ saved'[t] = gone
        /\ \A q \in Clients \ {t} : saved'[q] = saved[q] /\ pc'[q] = pc[q] /\ slot'[q] = slot[q]
        /\ pc'[t] = "quiesce" /\ slot'[t] = s
    BY DEF Unpublish, Goto, SinkInv, PlaceInv, Removing
  <1>2. /\ ptr'[s] \in {NoSink, Unused}
        /\ \A r \in Table \ {s} : ptr'[r] = ptr[r]
    BY DEF Unpublish
  <1>3. UNCHANGED <<count, target, released, created, detached, cur, cpc>>
    BY DEF Unpublish, coVars, hsVars
  <1>4. ptr[s] # NoSink => ptr[s] \in 1..MaxSinks
    BY BoundsAssumption DEF Unpublish, SinkId, NoSink, Unused
  <1>. HIDE DEF gone
  <1>5. \A k \in gone : k = ptr[s] /\ k \in 1..MaxSinks
    BY <1>4 DEF gone
  <1>6. /\ gone \cap released = {}
        /\ \A q \in Clients : gone \cap saved[q] = {}
        /\ \A k \in gone : k # NoSink /\ k <= created
    <2>1. \A k \in gone : k \notin detached
      BY DEF gone
    <2>. QED
      BY <1>5, <2>1 DEF SinkInv, PlaceInv, NoSink
  <1>7. ReleasedOnce'
    BY <1>1, <1>3, <1>6 DEF SinkInv, ReleasedOnce
  <1>8. PlaceInv'
    <2>1. NoSink \notin 1..MaxSinks /\ Unused \notin 1..MaxSinks
      BY DEF NoSink, Unused
    <2>2. ASSUME NEW r \in Table, ptr'[r] \in 1..MaxSinks
          PROVE  /\ ptr'[r] <= created'
                 /\ \A u \in Table : ptr'[u] = ptr'[r] => u = r
                 /\ ptr'[r] \notin detached' => ptr'[r] \notin released' /\ \A q \in Clients : ptr'[r] \notin saved'[q]
      <3>1. r # s /\ ptr'[r] = ptr[r]
        BY <1>2, <2>1, <2>2
      <3>2. /\ ptr[r] <= created
            /\ \A u \in Table : ptr[u] = ptr[r] => u = r
            /\ ptr[r] \notin detached => ptr[r] \notin released /\ \A q \in Clients : ptr[r] \notin saved[q]
        BY <2>2, <3>1 DEF SinkInv, PlaceInv
      <3>3. ptr[r] \notin gone
        BY <1>5, <3>1, <3>2
      <3>4. \A u \in Table : ptr'[u] = ptr'[r] => u = r
        BY <1>2, <2>1, <2>2, <3>1, <3>2
      <3>5. ptr[r] \notin detached => \A q \in Clients : ptr'[r] \notin saved'[q]
        BY <1>1, <3>1, <3>2, <3>3
      <3>. QED
        BY <1>3, <3>1, <3>2, <3>4, <3>5
    <2>3. \A q \in Clients : \A k \in saved'[q] : k # NoSink /\ k <= created'
      BY <1>1, <1>3, <1>6 DEF SinkInv, PlaceInv
    <2>4. \A k \in released' : k # NoSink /\ k <= created'
      BY <1>3 DEF SinkInv, PlaceInv
    <2>5. \A q \in Clients : saved'[q] # {} => pc'[q] \in Removing
      BY <1>1 DEF SinkInv, PlaceInv, Removing
    <2>6. /\ \A k \in detached' : k # NoSink /\ k <= created'
          /\ \A q \in Clients : pc'[q] = "edit" => target'[q] <= created'
          /\ \A q \in Clients : pc'[q] = "byhand" => saved'[q] \subseteq detached'
      BY <1>1, <1>3 DEF SinkInv, PlaceInv
    <2>. QED
      BY <2>2, <2>3, <2>4, <2>5, <2>6 DEF PlaceInv, Removing
  <1>9. InsideInv'
    <2>1. /\ \A r \in Table : count'[r] = IF Inside' /\ cur'.slot = r THEN 1 ELSE 0
          /\ ~Inside' => cur'.sink = Unused
      BY <1>3 DEF SinkInv, InsideInv, Inside
    <2>2. ASSUME Inside', cur'.sink \notin {NoSink} \cup detached',
                 ~(cur'.sink \in 1..MaxSinks /\ cur'.sink = ptr'[cur'.slot])
          PROVE  \E q \in Clients : /\ cur'.sink \in saved'[q] /\ slot'[q] = cur'.slot
                                    /\ pc'[q] \in {"quiesce", "qlock"}
      <3>1. CASE cur.sink \in 1..MaxSinks /\ cur.sink = ptr[cur.slot]
        <4>1. cur.slot = s
          BY <1>2, <1>3, <2>2, <3>1
        <4>. QED
          BY <1>1, <1>3, <2>2, <3>1, <4>1 DEF gone
      <3>2. CASE \E q \in Clients : /\ cur.sink \in saved[q] /\ slot[q] = cur.slot
                                    /\ pc[q] \in {"quiesce", "qlock"}
        BY <1>1, <1>3, <3>2
      <3>. QED
        BY <1>3, <2>2, <3>1, <3>2 DEF SinkInv, InsideInv, Inside
    <2>. QED
      BY <2>1, <2>2 DEF InsideInv
  <1>. QED
    BY <1>7, <1>8, <1>9 DEF SinkInv

(* A removal leaves the wait only when the consumer is not inside its slot. *)
LEMMA QuiesceStep ==
  ASSUME TypeOK, SinkInv, NEW t \in Clients, pc[t] \in {"quiesce", "qlock"},
         NEW l \in {"qlock", "release"}, pc' = [pc EXCEPT ![t] = l],
         l = "release" => count[slot[t]] = 0,
         UNCHANGED <<ptr, count, slot, saved, target, hsVars, cur, cpc>>
  PROVE  SinkInv'
  <1>. USE DEF TypeOK, hsVars
  <1>1. ReleasedOnce' /\ PlaceInv'
    BY DEF SinkInv, ReleasedOnce, PlaceInv
  <1>2. InsideInv'
    <2>1. ASSUME Inside, l = "release"
          PROVE  slot[t] # cur.slot
      BY <2>1 DEF SinkInv, InsideInv
    <2>. QED
      BY <2>1 DEF SinkInv, InsideInv, Inside
  <1>. QED
    BY <1>1, <1>2 DEF SinkInv

(* The release callbacks run on sinks no table entry and no callback uses, or *)
(* that were taken out by hand.                                               *)
LEMMA ReleaseSinksStep ==
  ASSUME TypeOK, SinkInv, NEW t \in Clients, ReleaseSinks(t) \/ ReleaseByHand(t)
  PROVE  SinkInv'
  <1>. USE DEF TypeOK
  <1>1. /\ saved'[t] = {} /\ pc[t] \in {"release", "byhand"}
        /\ \A q \in Clients \ {t} : saved'[q] = saved[q] /\ pc'[q] = pc[q] /\ slot'[q] = slot[q] /\ target'[q] = target[q]
        /\ pc'[t] = "idle"
        /\ released' = released \cup saved[t]
        /\ UNCHANGED <<ptr, count, created, detached, cur, cpc>>
    BY DEF ReleaseSinks, ReleaseByHand, Return, cfVars, coVars
  <1>2. ReleasedOnce'
    BY <1>1 DEF SinkInv, ReleasedOnce
  <1>3. PlaceInv'
    <2>1. /\ \A s \in Table : ptr[s] \in 1..MaxSinks =>
                /\ ptr[s] <= created
                /\ \A r \in Table : ptr[r] = ptr[s] => r = s
                /\ ptr[s] \notin detached => ptr[s] \notin released /\ \A q \in Clients : ptr[s] \notin saved[q]
          /\ \A k \in released \cup saved[t] : k # NoSink /\ k <= created
      BY DEF SinkInv, PlaceInv
    <2>2. \A q \in Clients : saved'[q] \subseteq saved[q]
      BY <1>1
    <2>3. \A s \in Table : ptr'[s] \in 1..MaxSinks =>
            /\ ptr'[s] <= created'
            /\ \A r \in Table : ptr'[r] = ptr'[s] => r = s
            /\ ptr'[s] \notin detached' => ptr'[s] \notin released' /\ \A q \in Clients : ptr'[s] \notin saved'[q]
      BY <1>1, <2>1, <2>2
    <2>4. \A k \in released' : k # NoSink /\ k <= created'
      BY <1>1, <2>1
    <2>5. /\ \A k \in detached' : k # NoSink /\ k <= created'
          /\ \A q \in Clients : \A k \in saved'[q] : k # NoSink /\ k <= created'
      BY <1>1, <2>2 DEF SinkInv, PlaceInv
    <2>6. /\ \A q \in Clients : saved'[q] # {} => pc'[q] \in {"quiesce", "qlock", "release", "byhand"}
          /\ \A q \in Clients : pc'[q] = "edit" => target'[q] <= created'
          /\ \A q \in Clients : pc'[q] = "byhand" => saved'[q] \subseteq detached'
      BY <1>1 DEF SinkInv, PlaceInv
    <2>. QED
      BY <2>3, <2>4, <2>5, <2>6 DEF PlaceInv
  <1>4. InsideInv'
    BY <1>1 DEF SinkInv, InsideInv, Inside
  <1>. QED
    BY <1>2, <1>3, <1>4 DEF SinkInv

(* The consumer enters the configuration of the oldest event. *)
LEMMA AcquireStep ==
  ASSUME TypeOK, SinkInv, ConsumerAcquire
  PROVE  SinkInv'
  <1>. USE DEF TypeOK
  <1>. DEFINE s == Head(queue).slot
  <1>1. s \in Table
    <2>1. Head(queue) \in [slot : Table, sink : SinkId]
      BY HeadTail DEF ConsumerAcquire
    <2>. QED
      BY <2>1
  <1>2. /\ UNCHANGED <<ptr, clVars, hsVars>>
        /\ ~Inside
    BY DEF ConsumerAcquire, Inside
  <1>. HIDE DEF s
  <1>3. CASE ptr[s] # Unused
    <2>1. /\ count' = [count EXCEPT ![s] = @ + 1]
          /\ cur' = [slot |-> s, sink |-> ptr[s]]
          /\ cpc' = "format"
      BY <1>3 DEF ConsumerAcquire, s
    <2>2. ReleasedOnce' /\ PlaceInv'
      BY <1>2 DEF SinkInv, ReleasedOnce, PlaceInv, clVars, hsVars
    <2>3. Inside' /\ cur'.slot = s /\ cur'.sink = ptr[s]
      BY <2>1 DEF Inside
    <2>4. \A r \in Table : count'[r] = IF r = s THEN 1 ELSE 0
      BY <1>1, <1>2, <2>1 DEF SinkInv, InsideInv
    <2>5. ptr[s] = NoSink \/ ptr[s] \in 1..MaxSinks
      BY <1>1, <1>3, BoundsAssumption DEF SinkId, NoSink, Unused
    <2>6. InsideInv'
      BY <1>2, <2>3, <2>4, <2>5 DEF InsideInv, hsVars
    <2>. QED
      BY <2>2, <2>6 DEF SinkInv
  <1>4. CASE ptr[s] = Unused
    <2>1. UNCHANGED <<count, cur>> /\ cpc' = "free"
      BY <1>4 DEF ConsumerAcquire, s
    <2>. QED
      BY <1>2, <2>1, ConsumerFrame DEF Inside
  <1>. QED
    BY <1>3, <1>4

(* It reads the sink it calls: of the default configuration, the live one. *)
LEMMA EmitStep ==
  ASSUME TypeOK, SinkInv, ConsumerEmit
  PROVE  SinkInv'
  <1>. USE TableFacts DEF TypeOK
  <1>1. /\ UNCHANGED <<ptr, count, clVars, hsVars>>
        /\ Inside /\ Inside'
        /\ cur'.slot = cur.slot
        /\ cur'.sink = IF cur.slot = 0 THEN ptr[0] ELSE IF cur.sink \in detached THEN NoSink ELSE cur.sink
    BY DEF ConsumerEmit, cfVars, Inside
  <1>2. ReleasedOnce' /\ PlaceInv'
    BY <1>1 DEF SinkInv, ReleasedOnce, PlaceInv, clVars, hsVars
  <1>3. InsideInv'
    <2>1. CASE cur.slot = 0
      <3>1. ptr[0] = NoSink \/ ptr[0] \in 1..MaxSinks
        BY BoundsAssumption DEF SinkId, NoSink, Unused
      <3>. QED
        BY <1>1, <2>1, <3>1 DEF SinkInv, InsideInv
    <2>2. CASE cur.slot # 0
      BY <1>1, <2>2 DEF SinkInv, InsideInv, clVars, hsVars
    <2>. QED
      BY <2>1, <2>2
  <1>. QED
    BY <1>2, <1>3 DEF SinkInv

(* It leaves the configuration, and the count goes back to 0. *)
LEMMA ReleaseStep ==
  ASSUME TypeOK, SinkInv, ConsumerRelease
  PROVE  SinkInv'
  <1>. USE DEF TypeOK
  <1>1. /\ UNCHANGED <<ptr, clVars, hsVars>>
        /\ Inside /\ ~Inside'
        /\ cur'.sink = Unused
        /\ count' = [count EXCEPT ![cur.slot] = @ - 1]
    BY DEF ConsumerRelease, NoneAcquired, Inside
  <1>2. ReleasedOnce' /\ PlaceInv'
    BY <1>1 DEF SinkInv, ReleasedOnce, PlaceInv, clVars, hsVars
  <1>3. \A s \in Table : count'[s] = 0
    BY <1>1 DEF SinkInv, InsideInv
  <1>4. InsideInv'
    BY <1>1, <1>3 DEF InsideInv
  <1>. QED
    BY <1>2, <1>4 DEF SinkInv

(* nei_log_remove_sink: the sink in hand is excepted from now on. *)
LEMMA RemoveSinkStep ==
  ASSUME TypeOK, SinkInv, NEW t \in Clients, RemoveSink(t)
  PROVE  SinkInv'
  <1>. USE TableFacts, BoundsAssumption DEF TypeOK
  <1>. DEFINE k == HeldSink(t)
  <1>1. /\ k \in 1..MaxSinks /\ k \notin detached /\ k <= created
        /\ slot[t] = 0 => k = ptr[0]
    BY DEF RemoveSink, HeldSink, SinkId, NoSink, Unused, SinkInv, PlaceInv
  <1>. HIDE DEF k
  <1>2. /\ saved[t] = {} /\ saved'[t] = {k} /\ pc'[t] = "byhand"
        /\ \A q \in Clients \ {t} : saved'[q] = saved[q] /\ pc'[q] = pc[q]
        /\ detached' = detached \cup {k}
        /\ UNCHANGED <<count, slot, target, created, released, cur, cpc>>
    BY DEF RemoveSink, Goto, coVars, SinkInv, PlaceInv, k
  <1>3. \A r \in Table : ptr'[r] = ptr[r] \/ (ptr'[r] = NoSink /\ ptr[r] = k)
    <2>1. ptr' = IF slot[t] = 0 THEN [ptr EXCEPT ![0] = NoSink] ELSE ptr
      BY DEF RemoveSink
    <2>2. CASE slot[t] = 0
      <3>1. ptr' = [ptr EXCEPT ![0] = NoSink] /\ k = ptr[0]
        BY <1>1, <2>1, <2>2
      <3>. QED
        BY <3>1
    <2>3. CASE slot[t] # 0
      BY <2>1, <2>3
    <2>. QED
      BY <2>2, <2>3
  <1>4. ReleasedOnce'
    BY <1>2 DEF SinkInv, ReleasedOnce
  <1>5. PlaceInv'
    <2>1. ASSUME NEW r \in Table, ptr'[r] \in 1..MaxSinks
          PROVE  /\ ptr'[r] <= created'
                 /\ \A u \in Table : ptr'[u] = ptr'[r] => u = r
                 /\ ptr'[r] \notin detached' => ptr'[r] \notin released' /\ \A q \in Clients : ptr'[r] \notin saved'[q]
      <3>1. NoSink \notin 1..MaxSinks
        BY DEF NoSink
      <3>2. ptr'[r] = ptr[r]
        BY <1>3, <2>1, <3>1
      <3>3. \A u \in Table : ptr'[u] = ptr'[r] => ptr[u] = ptr[r]
        BY <1>3, <2>1, <3>1, <3>2
      <3>. QED
        BY <1>2, <2>1, <3>2, <3>3 DEF SinkInv, PlaceInv
    <2>2. \A q \in Clients : \A j \in saved'[q] : j # NoSink /\ j <= created'
      <3>1. k # NoSink /\ k <= created
        BY <1>1 DEF NoSink
      <3>2. \A q \in Clients : \A j \in saved[q] : j # NoSink /\ j <= created
        BY DEF SinkInv, PlaceInv
      <3>3. \A q \in Clients : saved'[q] \subseteq saved[q] \cup {k}
        BY <1>2
      <3>4. created' = created
        BY <1>2
      <3>. QED
        BY <3>1, <3>2, <3>3, <3>4
    <2>3. \A q \in Clients : saved'[q] # {} => pc'[q] \in Removing
      BY <1>2 DEF SinkInv, PlaceInv, Removing
    <2>4. /\ \A j \in released' : j # NoSink /\ j <= created'
          /\ \A j \in detached' : j # NoSink /\ j <= created'
      <3>1. k # NoSink /\ k <= created
        BY <1>1 DEF NoSink
      <3>2. /\ \A j \in released : j # NoSink /\ j <= created
            /\ \A j \in detached : j # NoSink /\ j <= created
        BY DEF SinkInv, PlaceInv
      <3>. QED
        BY <1>2, <3>1, <3>2
    <2>5. /\ \A q \in Clients : pc'[q] = "edit" => target'[q] <= created'
          /\ \A q \in Clients : pc'[q] = "byhand" => saved'[q] \subseteq detached'
      BY <1>2 DEF SinkInv, PlaceInv
    <2>. QED
      BY <2>1, <2>2, <2>3, <2>4, <2>5 DEF PlaceInv, Removing
  <1>6. InsideInv'
    <2>1. /\ \A r \in Table : count'[r] = IF Inside' /\ cur'.slot = r THEN 1 ELSE 0
          /\ ~Inside' => cur'.sink = Unused
      BY <1>2 DEF SinkInv, InsideInv, Inside
    <2>2. ASSUME Inside', cur'.sink \notin {NoSink} \cup detached',
                 ~(cur'.sink \in 1..MaxSinks /\ cur'.sink = ptr'[cur'.slot])
          PROVE  \E q \in Clients : /\ cur'.sink \in saved'[q] /\ slot'[q] = cur'.slot
                                    /\ pc'[q] \in {"quiesce", "qlock"}
      <3>1. cur.slot \in Table /\ ~(cur.sink \in 1..MaxSinks /\ cur.sink = ptr[cur.slot])
        BY <1>2, <1>3, <2>2
      <3>2. \E q \in Clients : /\ cur.sink \in saved[q] /\ slot[q] = cur.slot
                                /\ pc[q] \in {"quiesce", "qlock"}
        BY <1>2, <2>2, <3>1 DEF SinkInv, InsideInv, Inside
      <3>. QED
        BY <1>2, <3>2
    <2>. QED
      BY <2>1, <2>2 DEF InsideInv
  <1>. QED
    BY <1>4, <1>5, <1>6 DEF SinkInv

(* SinkInv is inductive. *)
LEMMA SinkStep ==
  TypeOK /\ SinkInv /\ [Next]_vars => SinkInv'
  <1>. SUFFICES ASSUME TypeOK, SinkInv, [Next]_vars
                PROVE  SinkInv'
    OBVIOUS
  <1>1. ASSUME NEW t \in Clients, AddConfig(t)
        PROVE  SinkInv'
    <2>1. PICK s \in FreeSlots : ptr' = [ptr EXCEPT ![s] = created + 1]
      BY <1>1 DEF AddConfig
    <2>2. s \in Table /\ ptr[s] = Unused
      BY <2>1 DEF FreeSlots
    <2>. QED
      BY <1>1, <2>1, <2>2, NewSink DEF AddConfig, coVars
  <1>2. ASSUME NEW t \in Clients, AddDefaultSink(t)
        PROVE  SinkInv'
    BY <1>2, TableFacts, NewSink DEF AddDefaultSink, coVars
  <1>3. ASSUME NEW t \in Clients, \/ UpdateConfig(t) \/ LogRefresh(t) \/ LogSkip(t)
                                   \/ LogEnqueue(t) \/ FlushCall(t) \/ FlushWait(t)
                                   \/ SinkNotFound(t) \/ \E s \in Table : LogStart(t, s)
        PROVE  SinkInv'
    <2>. USE <1>3 DEF UpdateConfig, LogRefresh, LogSkip, LogEnqueue, FlushCall, FlushWait, SinkNotFound, LogStart
    <2>1. UNCHANGED <<ptr, count, saved, hsVars, cur, cpc>>
      BY DEF cfVars, clVars, coVars, hsVars
    <2>2. pc[t] \notin Removing /\ pc'[t] \notin {"edit", "byhand"}
      BY DEF Removing, Goto, Return, clVars, TypeOK
    <2>3. \A q \in Clients \ {t} : pc'[q] = pc[q] /\ slot'[q] = slot[q] /\ target'[q] = target[q]
      BY DEF Goto, Return, clVars, TypeOK
    <2>. QED
      BY <2>1, <2>2, <2>3, ClientFrame
  <1>8. ASSUME NEW t \in Clients, NEW s \in Table, GetConfig(t, s)
        PROVE  SinkInv'
    <2>1. UNCHANGED <<ptr, count, saved, hsVars, cur, cpc>>
      BY <1>8 DEF GetConfig, cfVars, coVars
    <2>2. pc[t] = "idle" /\ pc'[t] = "edit" /\ target'[t] = ptr[s] /\ ptr[s] \in 1..MaxSinks
      BY <1>8, BoundsAssumption DEF GetConfig, Goto, TypeOK, SinkId, NoSink, Unused
    <2>3. \A q \in Clients \ {t} : pc'[q] = pc[q] /\ slot'[q] = slot[q] /\ target'[q] = target[q]
      BY <1>8 DEF GetConfig, Goto, TypeOK
    <2>4. target'[t] <= created
      BY <2>2 DEF SinkInv, PlaceInv
    <2>. QED
      BY <2>1, <2>2, <2>3, <2>4, ClientFrame DEF Removing
  <1>4. ASSUME NEW t \in Clients, QuiesceTest(t)
        PROVE  SinkInv'
    <2>. DEFINE l == IF count[slot[t]] = 0 THEN "release" ELSE "qlock"
    <2>1. pc[t] = "quiesce" /\ pc' = [pc EXCEPT ![t] = l]
      BY <1>4 DEF QuiesceTest, Goto
    <2>2. l \in {"qlock", "release"} /\ (l = "release" => count[slot[t]] = 0)
      OBVIOUS
    <2>3. UNCHANGED <<ptr, count, slot, saved, target, hsVars, cur, cpc>>
      BY <1>4 DEF QuiesceTest, cfVars, coVars
    <2>. HIDE DEF l
    <2>. QED
      BY <2>1, <2>2, <2>3, QuiesceStep
  <1>5. ASSUME NEW t \in Clients, QuiesceWait(t)
        PROVE  SinkInv'
    <2>1. UNCHANGED <<ptr, count, slot, saved, target, hsVars, cur, cpc>> /\ pc[t] = "qlock"
      BY <1>5 DEF QuiesceWait, cfVars, coVars
    <2>2. CASE count[slot[t]] # 0
      <3>1. UNCHANGED pc
        BY <1>5, <2>2 DEF QuiesceWait
      <3>2. pc' = [pc EXCEPT ![t] = "qlock"]
        BY <2>1, <3>1 DEF TypeOK
      <3>. QED
        BY <2>1, <3>2, QuiesceStep
    <2>3. CASE count[slot[t]] = 0
      <3>1. pc' = [pc EXCEPT ![t] = "release"]
        BY <1>5, <2>3 DEF QuiesceWait, Goto
      <3>. QED
        BY <2>1, <2>3, <3>1, QuiesceStep
    <2>. QED
      BY <2>2, <2>3
  <1>6. CASE ConsumerSignal \/ ConsumerFree \/ ConsumerNotify
    <2>1. UNCHANGED <<ptr, count, clVars, hsVars, cur>>
      BY <1>6 DEF ConsumerSignal, ConsumerFree, ConsumerNotify, cfVars
    <2>2. ~Inside /\ ~Inside'
      BY <1>6 DEF ConsumerSignal, ConsumerFree, ConsumerNotify, Inside
    <2>. QED
      BY <2>1, <2>2, ConsumerFrame
  <1>7. CASE UNCHANGED vars
    BY <1>7 DEF vars, cfVars, clVars, coVars, hsVars, SinkInv, ReleasedOnce, PlaceInv, InsideInv, Inside
  <1>. QED
    BY <1>1, <1>2, <1>3, <1>4, <1>5, <1>6, <1>7, <1>8, UnpublishStep, ReleaseSinksStep, RemoveSinkStep,
       AcquireStep, EmitStep, ReleaseStep DEF Next, Advance, ConsumerStep

LEMMA SinkInit ==
  Init => SinkInv
  BY TableFacts, ConfigsAssumption, BoundsAssumption
     DEF Init, SinkInv, ReleasedOnce, PlaceInv, InsideInv, Inside, NoneAcquired, NoSink, Unused

(* SinkInv excludes both a use after release and a second release. *)
LEMMA SinkSafe ==
  TypeOK /\ SinkInv => NoUseAfterRelease /\ ReleasedOnce
  <1>. SUFFICES ASSUME TypeOK, SinkInv
                PROVE  NoUseAfterRelease /\ ReleasedOnce
    OBVIOUS
  <1>1. ASSUME NEW s \in Table
        PROVE  ptr[s] \notin released \ detached
    <2>1. CASE ptr[s] \in 1..MaxSinks
      BY <2>1 DEF SinkInv, PlaceInv
    <2>2. CASE ptr[s] \in {NoSink, Unused}
      BY <2>2, TableFacts DEF TypeOK, SinkInv, PlaceInv
    <2>. QED
      BY <2>1, <2>2, BoundsAssumption DEF TypeOK, SinkId, NoSink, Unused
  <1>2. cur.sink \notin released \ detached
    <2>1. CASE ~Inside
      BY <2>1, TableFacts DEF TypeOK, SinkInv, InsideInv
    <2>2. CASE Inside
      BY <1>1, <2>2 DEF TypeOK, SinkInv, InsideInv, PlaceInv, ReleasedOnce
    <2>. QED
      BY <2>1, <2>2
  <1>. QED
    BY <1>1, <1>2 DEF NoUseAfterRelease, SinkInv

(* The consumer never runs a sink, and the table never shows one, after its   *)
(* release callback (nei_log_remove_config, _nei_log_wait_for_emit_quiescent).*)
THEOREM SafeRemoval == Spec => []NoUseAfterRelease
  <1>1. Init => TypeOK /\ SinkInv
    BY SinkInit, TypeInit
  <1>2. TypeOK /\ SinkInv /\ [Next]_vars => (TypeOK /\ SinkInv)'
    BY TypeStep, SinkStep
  <1>3. TypeOK /\ SinkInv => NoUseAfterRelease
    BY SinkSafe
  <1>. QED
    BY <1>1, <1>2, <1>3, PTL DEF Spec

(* No two removals release the same sink, whatever slots are reused.          *)
THEOREM SingleRelease == Spec => []ReleasedOnce
  <1>1. Init => TypeOK /\ SinkInv
    BY SinkInit, TypeInit
  <1>2. TypeOK /\ SinkInv /\ [Next]_vars => (TypeOK /\ SinkInv)'
    BY TypeStep, SinkStep
  <1>3. TypeOK /\ SinkInv => ReleasedOnce
    BY SinkSafe
  <1>. QED
    BY <1>1, <1>2, <1>3, PTL DEF Spec

----------------------------------------------------------------------------
(* CacheInv is inductive: every change of an entry other than 0 moves the    *)
(* snapshot past every copy that was taken.                                  *)
LEMMA CacheStep ==
  TypeOK /\ CacheInv /\ [Next]_vars => CacheInv'
  <1>. SUFFICES ASSUME TypeOK, CacheInv, [Next]_vars
                PROVE  CacheInv'
    OBVIOUS
  <1>. USE DEF CacheInv, CacheCoherent, TypeOK
  <1>1. ASSUME UNCHANGED tlVars, snapshot' = snapshot + 1
        PROVE  CacheInv'
    BY <1>1 DEF tlVars
  <1>2. ASSUME UNCHANGED tlVars, UNCHANGED snapshot, \A s \in Table \ {0} : ptr'[s] = ptr[s]
        PROVE  CacheInv'
    BY <1>2 DEF tlVars
  <1>3. ASSUME NEW t \in Clients, LogRefresh(t)
        PROVE  CacheInv'
    <2>1. /\ tls_snap'[t] = snapshot /\ (\A s \in Table \ {0} : tls'[t][s] = ptr[s]) /\ UNCHANGED <<ptr, snapshot>>
          /\ \A q \in Clients \ {t} : tls_snap'[q] = tls_snap[q] /\ tls'[q] = tls[q]
      BY <1>3 DEF LogRefresh, cfVars
    <2>2. ASSUME NEW q \in Clients
          PROVE  /\ tls_snap'[q] <= snapshot'
                 /\ tls_snap'[q] = snapshot' => \A s \in Table \ {0} : tls'[q][s] = ptr'[s]
      <3>1. CASE q = t
        BY <2>1, <3>1
      <3>2. CASE q # t
        BY <2>1, <3>2
      <3>. QED
        BY <3>1, <3>2
    <2>. QED
      BY <2>2
  <1>4. ASSUME NEW t \in Clients,
               AddConfig(t) \/ UpdateConfig(t) \/ \E s \in Table : Unpublish(t, s)
        PROVE  CacheInv'
    BY <1>1, <1>4 DEF AddConfig, UpdateConfig, Unpublish, BumpSnapshot
  <1>5. ASSUME NEW t \in Clients, AddDefaultSink(t) \/ RemoveSink(t)
        PROVE  CacheInv'
    BY <1>2, <1>5 DEF AddDefaultSink, RemoveSink
  <1>6. ASSUME NEW t \in Clients,
               \/ QuiesceTest(t) \/ QuiesceWait(t) \/ ReleaseSinks(t) \/ LogSkip(t)
               \/ LogEnqueue(t) \/ FlushCall(t) \/ FlushWait(t)
               \/ SinkNotFound(t) \/ ReleaseByHand(t)
               \/ \E s \in Table : GetConfig(t, s) \/ LogStart(t, s)
        PROVE  CacheInv'
    BY <1>2, <1>6 DEF GetConfig, SinkNotFound, ReleaseByHand, QuiesceTest, QuiesceWait, ReleaseSinks, LogSkip, LogEnqueue, FlushCall,
         FlushWait, LogStart, cfVars
  <1>7. CASE ConsumerStep \/ UNCHANGED vars
    BY <1>2, <1>7 DEF ConsumerStep, ConsumerAcquire, ConsumerEmit, ConsumerRelease, ConsumerSignal,
         ConsumerFree, ConsumerNotify, cfVars, vars
  <1>. QED
    BY <1>3, <1>4, <1>5, <1>6, <1>7 DEF Next, Advance

(* For any clients, slots and table changes: a thread that finds its cached   *)
(* snapshot current (_nei_log_get_config_fast) has the current table.         *)
THEOREM CacheCorrect == Spec => []CacheCoherent
  <1>1. Init => CacheInv
    BY DEF Init, CacheInv, CacheCoherent
  <1>2. CacheInv => CacheCoherent
    BY DEF CacheInv
  <1>. QED
    BY <1>1, <1>2, CacheStep, TypeCorrect, PTL DEF Spec

----------------------------------------------------------------------------
(* StrandInv is inductive relative to InsideInv, which puts the consumer      *)
(* inside the configuration a removal waits for.                              *)
LEMMA StrandStep ==
  TypeOK /\ SinkInv /\ StrandInv /\ [Next]_vars => StrandInv'
  <1>. SUFFICES ASSUME TypeOK, SinkInv, StrandInv, [Next]_vars
                PROVE  StrandInv'
    OBVIOUS
  <1>. USE DEF StrandInv, NobodyStranded, TypeOK
  <1>1. ASSUME NEW t \in Clients, pc[t] # "flock", pc'[t] # "flock",
               UNCHANGED <<cpc, queue, consumed, waiters>>,
               \A q \in Clients \ {t} : pc'[q] = pc[q] /\ target'[q] = target[q]
        PROVE  StrandInv'
    BY <1>1
  <1>11. ASSUME NEW t \in Clients, AddConfig(t) \/ AddDefaultSink(t) \/ UpdateConfig(t)
        PROVE  StrandInv'
    <2>1. UNCHANGED <<cpc, queue, consumed, waiters, pc, target>> /\ pc[t] = "idle"
      BY <1>11 DEF AddConfig, AddDefaultSink, UpdateConfig, coVars, clVars
    <2>. QED
      BY <1>1, <2>1
  <1>2. ASSUME NEW t \in Clients,
               \/ QuiesceTest(t) \/ LogRefresh(t) \/ ReleaseSinks(t) \/ LogSkip(t)
               \/ \E s \in Table : Unpublish(t, s) \/ LogStart(t, s)
        PROVE  StrandInv'
    <2>1. UNCHANGED <<cpc, queue, consumed, waiters>>
      BY <1>2 DEF QuiesceTest, ReleaseSinks, LogRefresh, LogSkip, Unpublish, LogStart, coVars
    <2>2. pc[t] # "flock" /\ \E l \in {"idle", "quiesce", "qlock", "release", "refresh", "use"} : pc' = [pc EXCEPT ![t] = l]
      BY <1>2 DEF QuiesceTest, ReleaseSinks, LogRefresh, LogSkip, Unpublish, LogStart, Goto, Return
    <2>3. target' = target \/ target' = [target EXCEPT ![t] = 0]
      BY <1>2 DEF QuiesceTest, ReleaseSinks, LogRefresh, LogSkip, Unpublish, LogStart, Return
    <2>4. pc'[t] # "flock" /\ \A q \in Clients \ {t} : pc'[q] = pc[q]
      BY <2>2
    <2>5. \A q \in Clients \ {t} : target'[q] = target[q]
      BY <2>3
    <2>. QED
      BY <1>1, <2>1, <2>2, <2>4, <2>5
  <1>10. ASSUME NEW t \in Clients,
               \/ RemoveSink(t) \/ SinkNotFound(t) \/ ReleaseByHand(t)
               \/ \E s \in Table : GetConfig(t, s)
        PROVE  StrandInv'
    <2>. USE <1>10 DEF RemoveSink, SinkNotFound, ReleaseByHand, GetConfig
    <2>1. UNCHANGED <<cpc, queue, consumed, waiters>>
      BY DEF coVars
    <2>2. pc[t] # "flock" /\ \E l \in {"idle", "edit", "byhand"} : pc' = [pc EXCEPT ![t] = l]
      BY DEF Goto, Return
    <2>3. target' = target \/ \E k : target' = [target EXCEPT ![t] = k]
      BY DEF Return
    <2>4. pc'[t] # "flock" /\ \A q \in Clients \ {t} : pc'[q] = pc[q]
      BY <2>2
    <2>5. \A q \in Clients \ {t} : target'[q] = target[q]
      BY <2>3
    <2>. QED
      BY <1>1, <2>1, <2>2, <2>4, <2>5
  <1>3. ASSUME NEW t \in Clients, QuiesceWait(t)
        PROVE  StrandInv'
    <2>1. count[slot[t]] # 0 => Inside
      BY DEF SinkInv, InsideInv
    <2>. QED
      BY <1>3, <2>1 DEF QuiesceWait, Goto, Inside, coVars
  <1>4. ASSUME NEW t \in Clients, LogEnqueue(t)
        PROVE  StrandInv'
    <2>1. Cached(t) \in SinkId
      BY <1>4, TableFacts DEF LogEnqueue, Cached
    <2>2. queue' # <<>> /\ Len(queue') = Len(queue) + 1
      BY <1>4, <2>1 DEF LogEnqueue
    <2>. QED
      <3>1. /\ UNCHANGED <<consumed, cpc, waiters>> /\ pc'[t] = "idle"
            /\ \A q \in Clients \ {t} : pc'[q] = pc[q] /\ target'[q] = target[q]
        BY <1>4 DEF LogEnqueue, Return
      <3>2. ASSUME NEW q \in Clients, pc'[q] = "flock"
            PROVE  target'[q] <= consumed' + Len(queue')
        <4>1. q # t
          BY <3>1, <3>2
        <4>2. target[q] <= consumed + Len(queue) /\ target'[q] = target[q]
          BY <3>1, <3>2, <4>1
        <4>. QED
          BY <2>2, <3>1, <4>2
      <3>. QED
        BY <2>2, <3>2
  <1>5. ASSUME NEW t \in Clients, FlushCall(t)
        PROVE  StrandInv'
    BY <1>5 DEF FlushCall, Goto, coVars
  <1>6. ASSUME NEW t \in Clients, FlushWait(t)
        PROVE  StrandInv'
    <2>1. UNCHANGED <<queue, consumed, cpc>> /\ pc[t] = "flock"
      BY <1>6 DEF FlushWait, coVars
    <2>2. CASE consumed < target[t]
      <3>1. queue # <<>>
        BY <2>1, <2>2
      <3>. QED
        BY <1>6, <2>1, <2>2, <3>1 DEF FlushWait
    <2>3. CASE ~(consumed < target[t])
      <3>1. Return(t) /\ UNCHANGED waiters
        BY <1>6, <2>3 DEF FlushWait
      <3>. QED
        BY <2>1, <3>1 DEF Return
    <2>. QED
      BY <2>2, <2>3
  <1>7. CASE ConsumerFree
    <2>1. queue # <<>> /\ Len(queue) \in Nat \ {0} /\ queue' = Tail(queue)
      BY <1>7 DEF ConsumerFree
    <2>2. Len(queue') = Len(queue) - 1 /\ consumed' = consumed + 1
      BY <1>7, <2>1 DEF ConsumerFree
    <2>3. cpc' = "drain" => queue' # <<>>
      <3>1. cpc' = "drain" => Len(queue) # 1
        BY <1>7 DEF ConsumerFree
      <3>2. cpc' = "drain" => Len(queue') # 0
        BY <2>1, <2>2, <3>1
      <3>. QED
        BY <3>2, EmptySeq
    <2>. QED
      BY <1>7, <2>2, <2>3 DEF ConsumerFree, clVars
  <1>8. CASE ConsumerAcquire \/ ConsumerEmit \/ ConsumerRelease \/ ConsumerSignal
    BY <1>8 DEF ConsumerAcquire, ConsumerEmit, ConsumerRelease, ConsumerSignal, clVars
  <1>9. CASE ConsumerNotify \/ UNCHANGED vars
    BY <1>9 DEF ConsumerNotify, vars, clVars, coVars
  <1>. QED
    BY <1>2, <1>3, <1>4, <1>5, <1>6, <1>7, <1>8, <1>9, <1>10, <1>11 DEF Next, Advance, ConsumerStep

(* The safety half of CallsReturn, for every instance: a removal or a flush   *)
(* never sleeps on while the consumer has nothing left to drain.              *)
THEOREM NoStranding == Spec => []NobodyStranded
  <1>1. Init => StrandInv
    BY DEF Init, StrandInv, NobodyStranded
  <1>2. Init => SinkInv
    BY SinkInit
  <1>3. StrandInv => NobodyStranded
    BY DEF StrandInv
  <1>. QED
    BY <1>1, <1>2, <1>3, SinkStep, StrandStep, TypeCorrect, PTL DEF Spec
=============================================================================
