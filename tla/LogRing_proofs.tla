--------------------------- MODULE LogRing_proofs ---------------------------
(***************************************************************************)
(* Proofs about LogRing for any set of clients and any ring size: type     *)
(* correctness; whole events in reservation order for the sinks; a         *)
(* complete published prefix; a last drain of all of it; and no lost       *)
(* wake-up of the consumer.                                                *)
(***************************************************************************)
EXTENDS LogRing, TLAPS

----------------------------------------------------------------------------
(* Arithmetic of ring positions. *)

(* A natural number is its quotient and remainder. *)
LEMMA DivMod ==
  ASSUME NEW n \in Nat \ {0}, NEW p \in Nat
  PROVE  p = n * (p \div n) + (p % n) /\ p % n \in 0..n-1 /\ p \div n \in Nat
  OBVIOUS

(* Quotient and remainder are unique. *)
LEMMA DivModUnique ==
  ASSUME NEW n \in Nat \ {0}, NEW a \in Nat, NEW b \in Nat,
         NEW r \in 0..n-1, NEW s \in 0..n-1, n * a + r = n * b + s
  PROVE  r = s
  <1>1. CASE a < b
    <2>1. n * b >= n * (a + 1)
      BY <1>1
    <2>2. n * (a + 1) = n * a + n
      OBVIOUS
    <2>. QED
      BY <2>1, <2>2
  <1>2. CASE b < a
    <2>1. n * a >= n * (b + 1)
      BY <1>2
    <2>2. n * (b + 1) = n * b + n
      OBVIOUS
    <2>. QED
      BY <2>1, <2>2
  <1>. QED
    BY <1>1, <1>2

(* Two positions of one window of n that fall on the same slot are equal. *)
LEMMA WindowUnique ==
  ASSUME NEW n \in Nat \ {0}, NEW h \in Nat, NEW p \in Nat, NEW q \in Nat,
         h <= p, p < h + n, h <= q, q < h + n, p % n = q % n
  PROVE  p = q
  <1>. DEFINE a == p \div n
              b == q \div n
              r == p % n
  <1>1. p = n * a + r /\ a \in Nat /\ r \in 0..n-1
    BY DivMod
  <1>2. q = n * b + r /\ b \in Nat
    BY DivMod
  <1>3. n * a < n * b + n /\ n * b < n * a + n
    BY <1>1, <1>2
  <1>. HIDE DEF a, b, r
  <1>4. CASE a < b
    <2>1. n * b >= n * (a + 1)
      BY <1>4, <1>1, <1>2
    <2>2. n * (a + 1) = n * a + n
      BY <1>1
    <2>. QED
      BY <2>1, <2>2, <1>3, <1>1, <1>2
  <1>5. CASE b < a
    <2>1. n * a >= n * (b + 1)
      BY <1>5, <1>1, <1>2
    <2>2. n * (b + 1) = n * b + n
      BY <1>2
    <2>. QED
      BY <2>1, <2>2, <1>3, <1>1, <1>2
  <1>. QED
    BY <1>1, <1>2, <1>4, <1>5

(* A position and the one a ring size later fall on the same slot. *)
LEMMA SameSlot ==
  ASSUME NEW n \in Nat \ {0}, NEW p \in Nat, NEW q \in Nat, p = q + n
  PROVE  p % n = q % n
  <1>. DEFINE a == p \div n
              b == q \div n
              r == p % n
              s == q % n
  <1>1. p = n * a + r /\ a \in Nat /\ r \in 0..n-1
    BY DivMod
  <1>2. q = n * b + s /\ b \in Nat /\ s \in 0..n-1
    BY DivMod
  <1>. HIDE DEF a, b, r, s
  <1>3. n * (b + 1) = n * b + n
    BY <1>2
  <1>4. n * (b + 1) + s = n * a + r /\ b + 1 \in Nat
    BY <1>1, <1>2, <1>3
  <1>5. r = s
    BY DivModUnique, <1>1, <1>2, <1>4
  <1>. QED
    BY <1>5 DEF r, s

(* The slot of a position is a slot of the ring. *)
LEMMA IdxRange ==
  ASSUME NEW p \in Nat
  PROVE  Idx(p) \in 0..Slots-1
  BY DivMod, SlotsAssumption DEF Idx

(* The two facts about Idx that the invariant proof uses. *)
LEMMA IdxWindow ==
  ASSUME NEW h \in Nat, NEW p \in Nat, NEW q \in Nat,
         h <= p, p < h + Slots, h <= q, q < h + Slots, Idx(p) = Idx(q)
  PROVE  p = q
  BY WindowUnique, SlotsAssumption DEF Idx

LEMMA IdxLap ==
  ASSUME NEW p \in Nat, NEW q \in Nat, p = q + Slots
  PROVE  Idx(p) = Idx(q)
  BY SameSlot, SlotsAssumption DEF Idx

----------------------------------------------------------------------------
(* The words of LogRing have their types (TypeOK), whatever the scheduling. *)
LEMMA TypeStep ==
  TypeOK /\ [Next]_vars => TypeOK'
  <1>. SUFFICES ASSUME TypeOK, [Next]_vars
                PROVE  TypeOK'
    OBVIOUS
  <1>. USE SlotsAssumption
       DEF TypeOK, Uncommitted, UncommittedPC, ClientPC, ConsumerPC, NoPos,
           ringVars, rtVars, clVars, coVars, histVars
  <1>1. ASSUME NEW t \in Clients, LogCall(t)
        PROVE  TypeOK'
    <2>1. CASE ~initialized /\ ~once
      BY <1>1, <2>1 DEF LogCall, Goto
    <2>2. CASE ~(~initialized /\ ~once)
      BY <1>1, <2>2 DEF LogCall, Goto
    <2>. QED
      BY <2>1, <2>2
  <1>2. ASSUME NEW t \in Clients, FlushCall(t)
        PROVE  TypeOK'
    BY <1>2 DEF FlushCall, Goto, Return
  <1>3. ASSUME NEW t \in Clients, Drop(t)
        PROVE  TypeOK'
    BY <1>3 DEF Drop, Goto, Return
  <1>4. ASSUME NEW t \in Clients, Reserve(t)
        PROVE  TypeOK'
    BY <1>4 DEF Reserve, Goto, Return
  <1>5. ASSUME NEW t \in Clients, SlotFree(t)
        PROVE  TypeOK'
    BY <1>5 DEF SlotFree, Goto, Return
  <1>6. ASSUME NEW t \in Clients, SpinOut(t)
        PROVE  TypeOK'
    BY <1>6 DEF SpinOut, Goto, Return
  <1>7. ASSUME NEW t \in Clients, BlockOnSlot(t)
        PROVE  TypeOK'
    <2>1. CASE state[Idx(pos[t])] # 0 /\ ~stop_requested
      <3>1. waiters' = waiters \cup {t} /\ Goto(t, "pwait")
        BY <1>7, <2>1 DEF BlockOnSlot
      <3>. QED
        BY <1>7, <3>1 DEF BlockOnSlot, Goto
    <2>2. CASE ~(state[Idx(pos[t])] # 0 /\ ~stop_requested)
      <3>1. UNCHANGED waiters /\ Goto(t, "spin")
        BY <1>7, <2>2 DEF BlockOnSlot
      <3>. QED
        BY <1>7, <3>1 DEF BlockOnSlot, Goto, Return
    <2>. QED
      BY <2>1, <2>2
  <1>8. ASSUME NEW t \in Clients, WriteSlot(t)
        PROVE  TypeOK'
    <2>1. data' \in [0..Slots-1 -> SUBSET Nat]
      <3>1. \A q \in Clients : Uncommitted(q) => pos[q] \in Nat
        OBVIOUS
      <3>2. {pos[t]} \cup {pos[q] : q \in {r \in Clients : Writing(r) /\ Idx(pos[r]) = Idx(pos[t])}}
              \in SUBSET Nat
        BY <1>8, <3>1 DEF WriteSlot, Writing
      <3>. QED
        BY <1>8, <3>2 DEF WriteSlot
    <2>. QED
      BY <1>8, <2>1 DEF WriteSlot, Goto
  <1>9. ASSUME NEW t \in Clients, CommitSlot(t)
        PROVE  TypeOK'
    <2>1. state' \in [0..Slots-1 -> {0, 1}]
      BY <1>9 DEF CommitSlot
    <2>. QED
      BY <1>9, <2>1 DEF CommitSlot, Goto
  <1>10. ASSUME NEW t \in Clients, PublishSeq(t)
        PROVE  TypeOK'
    <2>1. published_seq' \in [0..Slots-1 -> Nat]
      <3>1. pos[t] + 1 \in Nat
        OBVIOUS
      <3>. QED
        BY <1>10, <3>1 DEF PublishSeq
    <2>. QED
      BY <1>10, <2>1 DEF PublishSeq, Goto
  <1>11. ASSUME NEW t \in Clients, AdvanceLoad(t)
        PROVE  TypeOK'
    BY <1>11 DEF AdvanceLoad, Goto, Return
  <1>12. ASSUME NEW t \in Clients, AdvanceCheck(t)
        PROVE  TypeOK'
    <2>1. CASE published_seq[Idx(reg[t])] = reg[t] + 1
      <3>1. Goto(t, "advcas")
        BY <1>12, <2>1 DEF AdvanceCheck
      <3>. QED
        BY <1>12, <3>1 DEF AdvanceCheck, Goto
    <2>2. CASE ~(published_seq[Idx(reg[t])] = reg[t] + 1)
      <3>1. pc' = [pc EXCEPT ![t] = "sig"] /\ reg' = [reg EXCEPT ![t] = 0]
        BY <1>12, <2>2 DEF AdvanceCheck
      <3>. QED
        BY <1>12, <3>1 DEF AdvanceCheck, Goto, Return
    <2>. QED
      BY <2>1, <2>2
  <1>13. ASSUME NEW t \in Clients, AdvanceCas(t)
        PROVE  TypeOK'
    BY <1>13 DEF AdvanceCas, Goto, Return
  <1>14. ASSUME NEW t \in Clients, SignalTest(t)
        PROVE  TypeOK'
    <2>1. CASE consumer_sleeping
      <3>1. Goto(t, "siglock")
        BY <1>14, <2>1 DEF SignalTest
      <3>. QED
        BY <1>14, <3>1 DEF SignalTest, Goto
    <2>2. CASE ~(consumer_sleeping)
      <3>1. Return(t)
        BY <1>14, <2>2 DEF SignalTest
      <3>. QED
        BY <1>14, <3>1 DEF SignalTest, Goto, Return
    <2>. QED
      BY <2>1, <2>2
  <1>15. ASSUME NEW t \in Clients, SignalConsumer(t)
        PROVE  TypeOK'
    BY <1>15 DEF SignalConsumer, Signal, Goto, Return
  <1>16. ASSUME NEW t \in Clients, FlushDone(t)
        PROVE  TypeOK'
    BY <1>16 DEF FlushDone, Goto, Return
  <1>17. ASSUME NEW t \in Clients, FlushBlock(t)
        PROVE  TypeOK'
    <2>1. (Goto(t, "fwait") \/ Return(t)) /\ waiters' \subseteq waiters \cup {t}
      BY <1>17 DEF FlushBlock
    <2>2. pc' \in [Clients -> ClientPC] /\ reg' \in [Clients -> Nat]
      <3>1. CASE Goto(t, "fwait")
        BY <3>1 DEF Goto
      <3>2. CASE Return(t)
        BY <3>2 DEF Return
      <3>. QED
        BY <2>1, <3>1, <3>2
    <2>3. \A q \in Clients : Uncommitted(q)' => Uncommitted(q)
      BY <2>1 DEF Goto, Return
    <2>. QED
      BY <1>17, <2>1, <2>2, <2>3 DEF FlushBlock
  <1>18. ASSUME NEW t \in Clients, FlushWake(t)
        PROVE  TypeOK'
    <2>1. CASE consumer_pos < reg[t]
      <3>1. waiters' = waiters \cup {t} /\ UNCHANGED <<pc, reg>>
        BY <1>18, <2>1 DEF FlushWake
      <3>. QED
        BY <1>18, <3>1 DEF FlushWake, Goto
    <2>2. CASE ~(consumer_pos < reg[t])
      <3>1. UNCHANGED waiters /\ Return(t)
        BY <1>18, <2>2 DEF FlushWake
      <3>. QED
        BY <1>18, <3>1 DEF FlushWake, Goto, Return
    <2>. QED
      BY <2>1, <2>2
  <1>19. CASE ConsumerLock
    BY <1>19 DEF ConsumerLock
  <1>20. CASE ConsumerTop
    BY <1>20 DEF ConsumerTop
  <1>21. CASE ConsumerMark
    BY <1>21 DEF ConsumerMark
  <1>22. CASE ConsumerRecheck
    BY <1>22 DEF ConsumerRecheck
  <1>23. CASE ConsumerWake
    BY <1>23 DEF ConsumerWake
  <1>24. CASE ConsumerLeave
    BY <1>24 DEF ConsumerLeave
  <1>25. CASE ConsumerEmit
    <2>1. consumer_pos \in Nat /\ data[Idx(consumer_pos)] \in SUBSET Nat
      BY IdxRange
    <2>2. emitted' \in Seq(SUBSET Nat)
      BY <1>25, <2>1 DEF ConsumerEmit
    <2>. QED
      BY <1>25, <2>2 DEF ConsumerEmit
  <1>26. CASE ConsumerFree
    BY <1>26 DEF ConsumerFree
  <1>27. CASE ConsumerBump
    BY <1>27 DEF ConsumerBump
  <1>28. CASE ConsumerStopDrain
    BY <1>28 DEF ConsumerStopDrain
  <1>29. CASE ConsumerRetry
    BY <1>29 DEF ConsumerRetry
  <1>30. CASE ConsumerNotify
    BY <1>30 DEF ConsumerNotify, Broadcast
  <1>31. CASE Unblock
    BY <1>31 DEF Unblock
  <1>32. CASE StopRequest
    BY <1>32 DEF StopRequest, Broadcast
  <1>33. CASE StopJoin
    BY <1>33 DEF StopJoin
  <1>34. CASE UNCHANGED vars
    BY <1>34 DEF vars
  <1>35. CASE ConsumerRelease
    BY <1>35 DEF ConsumerRelease, Signal
  <1>. QED
    BY <1>35, <1>1, <1>2, <1>3, <1>4, <1>5, <1>6, <1>7, <1>8, <1>9, <1>10, <1>11, <1>12, <1>13, <1>14, <1>15, <1>16, <1>17, <1>18, <1>19, <1>20, <1>21, <1>22, <1>23, <1>24, <1>25, <1>26, <1>27, <1>28, <1>29, <1>30, <1>31, <1>32, <1>33, <1>34 DEF Next, Enqueue, Flush, ConsumerStep

(* Type correctness for every set of clients and every ring size. *)
THEOREM TypeCorrect == Spec => []TypeOK
  <1>1. Init => TypeOK
    BY SlotsAssumption
       DEF Init, TypeOK, ClientPC, ConsumerPC, UncommittedPC, Uncommitted, NoPos
  <1>. QED
    BY <1>1, TypeStep, PTL DEF Spec
----------------------------------------------------------------------------
(* The inductive invariant RingInv. *)

(* Its parts, as one conjunction. *)
Parts == ReservedInv /\ CommittedInv /\ SlotInv /\ EmittedInv

(* What a step that neither reserves, takes, fills, commits, emits nor frees *)
(* a slot leaves alone.                                                      *)
FrameVars == <<state, data, write_pos, consumer_pos, pos, emitted, lapped>>
SameOwner(q) ==
  /\ Uncommitted(q)' <=> Uncommitted(q)
  /\ (pc'[q] = "write") <=> (pc[q] = "write")
  /\ (pc'[q] = "commit") <=> (pc[q] = "commit")
SamePhase ==
  /\ (cpc' \in {"bump", "fbump"}) <=> (cpc \in {"bump", "fbump"})
  /\ (cpc' \in EmittedPC) <=> (cpc \in EmittedPC)
  /\ ~once' => cpc' = "none"

(* RingInv depends on nothing else. *)
LEMMA Frame ==
  ASSUME RingInv, UNCHANGED FrameVars, \A q \in Clients : SameOwner(q), SamePhase
  PROVE  RingInv'
  <1>. USE DEF FrameVars, SamePhase, EmittedPC
  <1>1. SUFFICES ASSUME ~lapped
                 PROVE  Parts'
    BY DEF RingInv, Parts
  <1>2. Parts
    BY <1>1 DEF RingInv, Parts
  <1>3. Oldest' = Oldest
    BY DEF Oldest
  <1>4. \A c : Window(c)' <=> Window(c)
    BY <1>3 DEF Window
  <1>5. \A c : \A q \in Clients : HeldBy(c, q)' <=> HeldBy(c, q)
    BY DEF HeldBy, SameOwner
  <1>6. ReservedInv'
    BY <1>2, <1>3 DEF Parts, ReservedInv, SameOwner
  <1>7. CommittedInv'
    BY <1>2, <1>3, <1>4, <1>5 DEF Parts, CommittedInv
  <1>8. SlotInv'
    BY <1>2, <1>3, <1>4, <1>5 DEF Parts, SlotInv, SameOwner
  <1>9. EmittedInv'
    BY <1>2 DEF Parts, EmittedInv, EmittedInOrder, EmittedPC
  <1>. QED
    BY <1>6, <1>7, <1>8, <1>9 DEF Parts
(* The fetch-add: unless it laps, the new position is above all others. *)
LEMMA ReserveStep ==
  ASSUME TypeOK, RingInv, NEW t \in Clients, Reserve(t)
  PROVE  RingInv'
  <1>1. SUFFICES ASSUME ~lapped'
                 PROVE  Parts'
    BY DEF RingInv, Parts, Reserve, rtVars, coVars
  <1>2. ~lapped /\ ~\E q \in Clients : Uncommitted(q) /\ pos[q] + Slots <= write_pos
    BY <1>1 DEF Reserve
  <1>3. Parts
    BY <1>2 DEF RingInv, Parts
  <1>4. /\ Slots \in Nat /\ write_pos \in Nat /\ consumer_pos \in Nat
        /\ \A q \in Clients : pos[q] \in Int
    BY SlotsAssumption DEF TypeOK, NoPos
  <1>5. \A q \in Clients : Uncommitted(q) => write_pos < pos[q] + Slots
    BY <1>2, <1>4
  <1>6. /\ ~Uncommitted(t) /\ Uncommitted(t)' /\ pos'[t] = write_pos
        /\ \A q \in Clients \ {t} : pos'[q] = pos[q] /\ (Uncommitted(q)' <=> Uncommitted(q))
        /\ \A q \in Clients : pc'[q] \in {"write", "commit"} => q # t /\ pc'[q] = pc[q]
        /\ write_pos' = write_pos + 1
    BY DEF TypeOK, Reserve, Goto, Uncommitted, UncommittedPC
  <1>7. UNCHANGED <<state, data, cpc, consumer_pos, emitted, once>>
    BY DEF Reserve, rtVars, coVars
  <1>8. Oldest' = Oldest /\ Oldest \in Nat
    BY <1>4, <1>7 DEF Oldest
  <1>9. \A c : Window(c)' <=> Window(c)
    BY <1>8 DEF Window
  <1>10. ReservedInv'
    <2>1. Oldest' <= write_pos'
      BY <1>3, <1>4, <1>6, <1>8 DEF Parts, ReservedInv
    <2>2. ASSUME NEW q \in Clients, Uncommitted(q)'
          PROVE  Oldest' <= pos'[q] /\ pos'[q] < write_pos' /\ write_pos' <= pos'[q] + Slots
      <3>1. CASE q = t
        BY <1>3, <1>4, <1>6, <1>8, <3>1, SlotsAssumption DEF Parts, ReservedInv
      <3>2. CASE q # t
        BY <1>3, <1>4, <1>5, <1>6, <1>8, <2>2, <3>2 DEF Parts, ReservedInv
      <3>. QED
        BY <3>1, <3>2
    <2>3. ASSUME NEW q \in Clients, NEW r \in Clients,
                 Uncommitted(q)', Uncommitted(r)', pos'[q] = pos'[r]
          PROVE  q = r
      BY <1>3, <1>4, <1>6, <2>3 DEF Parts, ReservedInv
    <2>. QED
      BY <2>1, <2>2, <2>3 DEF ReservedInv
  <1>11. CommittedInv'
    <2>. SUFFICES ASSUME NEW c \in Oldest..write_pos
                  PROVE  \/ \E q \in Clients : HeldBy(c, q)'
                         \/ Window(c)' /\ state'[Idx(c)] = 1 /\ data'[Idx(c)] = {c}
      <3>1. Oldest'..(write_pos' - 1) = Oldest..write_pos
        BY <1>4, <1>6, <1>8
      <3>. QED
        BY <3>1 DEF CommittedInv
    <2>1. CASE c = write_pos
      BY <1>6, <2>1 DEF HeldBy
    <2>2. CASE c # write_pos
      <3>1. c \in Oldest..write_pos-1
        BY <1>4, <1>8, <2>2
      <3>2. CASE \E q \in Clients : HeldBy(c, q)
        BY <1>6, <3>2 DEF HeldBy
      <3>3. CASE Window(c) /\ state[Idx(c)] = 1 /\ data[Idx(c)] = {c}
        BY <1>7, <1>9, <3>3
      <3>. QED
        BY <1>3, <3>1, <3>2, <3>3 DEF Parts, CommittedInv
    <2>. QED
      BY <2>1, <2>2
  <1>12. SlotInv'
    <2>1. ASSUME NEW q \in Clients, pc'[q] \in {"write", "commit"}
          PROVE  (Window(pos[q]) /\ state[Idx(pos[q])] = 0)'
      BY <1>3, <1>6, <1>7, <1>9, <2>1 DEF Parts, SlotInv
    <2>2. ASSUME NEW q \in Clients, pc'[q] = "commit"
          PROVE  data'[Idx(pos'[q])] = {pos'[q]}
      BY <1>3, <1>6, <1>7, <2>2 DEF Parts, SlotInv
    <2>3. ASSUME NEW i \in 0..Slots-1, state'[i] = 1
          PROVE  (\E c \in Oldest..write_pos-1 :
                    Idx(c) = i /\ Window(c) /\ \A q \in Clients : ~HeldBy(c, q))'
      <3>1. PICK c \in Oldest..write_pos-1 :
                   Idx(c) = i /\ Window(c) /\ \A q \in Clients : ~HeldBy(c, q)
        BY <1>3, <1>7, <2>3 DEF Parts, SlotInv
      <3>2. \A q \in Clients : ~HeldBy(c, q)'
        BY <1>4, <1>6, <1>8, <3>1 DEF HeldBy
      <3>3. c \in Oldest'..write_pos'-1
        BY <1>4, <1>6, <1>8, <3>1
      <3>. QED
        BY <1>9, <3>1, <3>2, <3>3
    <2>. QED
      BY <2>1, <2>2, <2>3 DEF SlotInv
  <1>13. EmittedInv'
    BY <1>3, <1>7 DEF Parts, EmittedInv, EmittedInOrder, EmittedPC
  <1>. QED
    BY <1>10, <1>11, <1>12, <1>13 DEF Parts

(* The spin ends on an empty slot: it is in the window, for otherwise the    *)
(* position one ring size earlier would be held (a lap) or committed.        *)
LEMMA SlotFreeStep ==
  ASSUME TypeOK, RingInv, NEW t \in Clients, SlotFree(t)
  PROVE  RingInv'
  <1>. USE SlotsAssumption DEF TypeOK, rtVars, coVars, ringVars, histVars
  <1>1. SUFFICES ASSUME ~lapped
                 PROVE  Parts'
    BY DEF RingInv, Parts, SlotFree
  <1>2. Parts
    BY <1>1 DEF RingInv, Parts
  <1>3. /\ Uncommitted(t) /\ pc[t] = "spin" /\ pc'[t] = "write" /\ state[Idx(pos[t])] = 0
        /\ \A q \in Clients : Uncommitted(q)' <=> Uncommitted(q)
        /\ \A q \in Clients \ {t} : pc'[q] = pc[q]
        /\ UNCHANGED <<state, data, write_pos, consumer_pos, pos, emitted, cpc, once>>
    BY DEF SlotFree, Goto, Uncommitted, UncommittedPC
  <1>4. Oldest' = Oldest /\ Oldest \in Nat
    BY <1>3 DEF Oldest
  <1>5. \A c : Window(c)' <=> Window(c)
    BY <1>4 DEF Window
  <1>6. \A c : \A q \in Clients : HeldBy(c, q)' <=> HeldBy(c, q)
    BY <1>3 DEF HeldBy
  <1>7. pos[t] \in Nat /\ Oldest <= pos[t] /\ pos[t] < write_pos
    BY <1>2, <1>3, <1>4 DEF Parts, ReservedInv, NoPos
  <1>8. Window(pos[t])
    <2>. SUFFICES ASSUME pos[t] >= Oldest + Slots
                  PROVE  FALSE
      BY <1>4, <1>7 DEF Window
    <2>. DEFINE c == pos[t] - Slots
    <2>1. c \in Oldest..write_pos-1 /\ c \in Nat /\ pos[t] = c + Slots
      BY <1>4, <1>7
    <2>. HIDE DEF c
    <2>2. Idx(c) = Idx(pos[t])
      BY <1>7, <2>1, IdxLap
    <2>3. ~\E q \in Clients : HeldBy(c, q)
      BY <1>2, <1>7, <2>1 DEF Parts, ReservedInv, HeldBy
    <2>. QED
      BY <1>2, <1>3, <2>1, <2>2, <2>3 DEF Parts, CommittedInv
  <1>9. ReservedInv'
    BY <1>2, <1>3, <1>4 DEF Parts, ReservedInv
  <1>10. CommittedInv'
    BY <1>2, <1>3, <1>4, <1>5, <1>6 DEF Parts, CommittedInv
  <1>11. SlotInv'
    BY <1>2, <1>3, <1>4, <1>5, <1>6, <1>8 DEF Parts, SlotInv
  <1>12. EmittedInv'
    BY <1>2, <1>3 DEF Parts, EmittedInv, EmittedInOrder, EmittedPC
  <1>. QED
    BY <1>9, <1>10, <1>11, <1>12 DEF Parts
(* memcpy: the writer's slot is in the window, so no other writer is in it. *)
LEMMA WriteSlotStep ==
  ASSUME TypeOK, RingInv, NEW t \in Clients, WriteSlot(t)
  PROVE  RingInv'
  <1>1. SUFFICES ASSUME ~lapped
                 PROVE  Parts'
    BY DEF RingInv, Parts, WriteSlot, rtVars, coVars, histVars
  <1>2. Parts
    BY <1>1 DEF RingInv, Parts
  <1>3. /\ Uncommitted(t) /\ pc[t] = "write" /\ pc'[t] = "commit"
        /\ \A q \in Clients : Uncommitted(q)' <=> Uncommitted(q)
        /\ \A q \in Clients \ {t} : pc'[q] = pc[q]
        /\ UNCHANGED <<state, write_pos, consumer_pos, pos, emitted, cpc, once>>
    BY DEF TypeOK, WriteSlot, Goto, Uncommitted, UncommittedPC, rtVars, coVars
  <1>4. Slots \in Nat \ {0} /\ Oldest \in Nat /\ Oldest' = Oldest
    BY <1>3, SlotsAssumption DEF TypeOK, Oldest
  <1>5. \A c : Window(c)' <=> Window(c)
    BY <1>4 DEF Window
  <1>6. \A c : \A q \in Clients : HeldBy(c, q)' <=> HeldBy(c, q)
    BY <1>3 DEF HeldBy
  <1>7. \A q \in Clients : Uncommitted(q) => pos[q] \in Nat
    BY DEF TypeOK
  <1>8. ASSUME NEW q \in Clients, q # t, pc[q] \in {"write", "commit"}
        PROVE  Idx(pos[q]) # Idx(pos[t])
    <2>1. Uncommitted(q)
      BY <1>8 DEF Uncommitted, UncommittedPC
    <2>2. Window(pos[q]) /\ Window(pos[t])
      BY <1>2, <1>3, <1>8 DEF Parts, SlotInv
    <2>3. pos[q] # pos[t]
      BY <1>2, <1>3, <1>8, <2>1 DEF Parts, ReservedInv
    <2>. QED
      BY <1>3, <1>4, <1>7, <2>1, <2>2, <2>3, IdxWindow DEF Window
  <1>9. data' = [data EXCEPT ![Idx(pos[t])] = {pos[t]}]
    <2>1. {r \in Clients : Writing(r) /\ Idx(pos[r]) = Idx(pos[t])} = {}
      BY <1>3, <1>8 DEF Writing
    <2>. QED
      BY <2>1 DEF WriteSlot
  <1>10. /\ \A i \in 0..Slots-1 : i # Idx(pos[t]) => data'[i] = data[i]
         /\ data'[Idx(pos[t])] = {pos[t]}
    BY <1>3, <1>7, <1>9, IdxRange DEF TypeOK
  <1>11. ReservedInv'
    BY <1>2, <1>3, <1>4 DEF Parts, ReservedInv
  <1>12. CommittedInv'
    <2>. SUFFICES ASSUME NEW c \in Oldest..write_pos-1, ~\E q \in Clients : HeldBy(c, q)
                  PROVE  Window(c) /\ state[Idx(c)] = 1 /\ data'[Idx(c)] = {c}
      BY <1>3, <1>4, <1>5, <1>6 DEF CommittedInv
    <2>1. Window(c) /\ state[Idx(c)] = 1 /\ data[Idx(c)] = {c}
      BY <1>2 DEF Parts, CommittedInv
    <2>2. Idx(c) # Idx(pos[t])
      BY <1>2, <1>3, <2>1 DEF Parts, SlotInv
    <2>3. Idx(c) \in 0..Slots-1
      BY <1>4, IdxRange
    <2>. QED
      BY <1>10, <2>1, <2>2, <2>3
  <1>13. SlotInv'
    <2>1. ASSUME NEW q \in Clients, pc'[q] \in {"write", "commit"}
          PROVE  (Window(pos[q]) /\ state[Idx(pos[q])] = 0)'
      BY <1>2, <1>3, <1>5, <2>1 DEF Parts, SlotInv
    <2>2. ASSUME NEW q \in Clients, pc'[q] = "commit"
          PROVE  data'[Idx(pos'[q])] = {pos'[q]}
      <3>1. CASE q = t
        BY <1>3, <1>10, <3>1
      <3>2. CASE q # t
        <4>1. pc[q] = "commit" /\ Uncommitted(q) /\ pos'[q] = pos[q]
          BY <1>3, <2>2, <3>2 DEF Uncommitted, UncommittedPC
        <4>2. data[Idx(pos[q])] = {pos[q]}
          BY <1>2, <4>1 DEF Parts, SlotInv
        <4>3. Idx(pos[q]) # Idx(pos[t]) /\ Idx(pos[q]) \in 0..Slots-1
          BY <1>7, <1>8, <3>2, <4>1, IdxRange
        <4>. QED
          BY <1>10, <4>1, <4>2, <4>3
      <3>. QED
        BY <3>1, <3>2
    <2>3. \A i \in 0..Slots-1 : state'[i] = 1 =>
            \E c \in Oldest'..write_pos'-1 : /\ Idx(c) = i /\ Window(c)'
                                            /\ \A q \in Clients : ~HeldBy(c, q)'
      BY <1>2, <1>3, <1>4, <1>5, <1>6 DEF Parts, SlotInv
    <2>. QED
      BY <2>1, <2>2, <2>3 DEF SlotInv
  <1>14. EmittedInv'
    BY <1>2, <1>3 DEF Parts, EmittedInv, EmittedInOrder, EmittedPC
  <1>. QED
    BY <1>11, <1>12, <1>13, <1>14 DEF Parts

(* The commit: the slot now holds exactly the event of its position. *)
LEMMA CommitSlotStep ==
  ASSUME TypeOK, RingInv, NEW t \in Clients, CommitSlot(t)
  PROVE  RingInv'
  <1>1. SUFFICES ASSUME ~lapped
                 PROVE  Parts'
    BY DEF RingInv, Parts, CommitSlot, rtVars, coVars, histVars
  <1>2. Parts
    BY <1>1 DEF RingInv, Parts
  <1>3. /\ Uncommitted(t) /\ pc[t] = "commit" /\ ~Uncommitted(t)'
        /\ \A q \in Clients \ {t} : Uncommitted(q)' <=> Uncommitted(q)
        /\ \A q \in Clients : pc'[q] \in {"write", "commit"} => q # t /\ pc'[q] = pc[q]
        /\ UNCHANGED <<data, write_pos, consumer_pos, pos, emitted, cpc, once>>
    BY DEF TypeOK, CommitSlot, Goto, Uncommitted, UncommittedPC, rtVars, coVars
  <1>4. Slots \in Nat \ {0} /\ Oldest \in Nat /\ Oldest' = Oldest
    BY <1>3, SlotsAssumption DEF TypeOK, Oldest
  <1>5. \A c : Window(c)' <=> Window(c)
    BY <1>4 DEF Window
  <1>6. \A c : \A q \in Clients : HeldBy(c, q)' => HeldBy(c, q) /\ q # t
    BY <1>3 DEF HeldBy
  <1>7. \A q \in Clients : Uncommitted(q) => pos[q] \in Nat
    BY DEF TypeOK
  <1>8. /\ Idx(pos[t]) \in 0..Slots-1
        /\ state'[Idx(pos[t])] = 1
        /\ \A i \in 0..Slots-1 : i # Idx(pos[t]) => state'[i] = state[i]
    BY <1>3, <1>7, IdxRange DEF TypeOK, CommitSlot
  <1>9. /\ Window(pos[t]) /\ data[Idx(pos[t])] = {pos[t]}
        /\ pos[t] \in Oldest..write_pos-1 /\ pos[t] \in Nat
    BY <1>2, <1>3, <1>7 DEF Parts, SlotInv, ReservedInv, TypeOK, Oldest
  <1>10. ReservedInv'
    BY <1>2, <1>3, <1>4 DEF Parts, ReservedInv
  <1>11. CommittedInv'
    <2>. SUFFICES ASSUME NEW c \in Oldest..write_pos-1, ~\E q \in Clients : HeldBy(c, q)'
                  PROVE  Window(c) /\ state'[Idx(c)] = 1 /\ data[Idx(c)] = {c}
      BY <1>3, <1>4, <1>5 DEF CommittedInv
    <2>1. CASE c = pos[t]
      BY <1>8, <1>9, <2>1
    <2>2. CASE c # pos[t]
      <3>1. ~\E q \in Clients : HeldBy(c, q)
        BY <1>3, <2>2 DEF HeldBy
      <3>2. Window(c) /\ state[Idx(c)] = 1 /\ data[Idx(c)] = {c}
        BY <1>2, <3>1 DEF Parts, CommittedInv
      <3>3. Idx(c) \in 0..Slots-1
        BY <1>4, IdxRange
      <3>. QED
        BY <1>8, <3>2, <3>3
    <2>. QED
      BY <2>1, <2>2
  <1>12. SlotInv'
    <2>1. ASSUME NEW q \in Clients, pc'[q] \in {"write", "commit"}
          PROVE  (Window(pos[q]) /\ state[Idx(pos[q])] = 0)'
      <3>1. q # t /\ pc[q] \in {"write", "commit"} /\ Uncommitted(q) /\ pos'[q] = pos[q]
        BY <1>3, <2>1 DEF Uncommitted, UncommittedPC
      <3>2. Window(pos[q]) /\ state[Idx(pos[q])] = 0
        BY <1>2, <3>1 DEF Parts, SlotInv
      <3>3. pos[q] # pos[t]
        BY <1>2, <1>3, <3>1 DEF Parts, ReservedInv
      <3>4. Idx(pos[q]) # Idx(pos[t]) /\ Idx(pos[q]) \in 0..Slots-1
        BY <1>4, <1>7, <1>9, <3>1, <3>2, <3>3, IdxWindow, IdxRange DEF Window
      <3>5. Window(pos[q])'
        BY <1>4, <3>1, <3>2 DEF Window
      <3>. QED
        BY <1>8, <3>1, <3>2, <3>4, <3>5
    <2>2. ASSUME NEW q \in Clients, pc'[q] = "commit"
          PROVE  data'[Idx(pos'[q])] = {pos'[q]}
      BY <1>2, <1>3, <2>2 DEF Parts, SlotInv
    <2>3. ASSUME NEW i \in 0..Slots-1, state'[i] = 1
          PROVE  \E c \in Oldest..write_pos-1 :
                   Idx(c) = i /\ Window(c) /\ \A q \in Clients : ~HeldBy(c, q)'
      <3>1. CASE i = Idx(pos[t])
        <4>1. \A c : c = pos[t] => \A q \in Clients : ~HeldBy(c, q)'
          BY <1>2, <1>3, <1>6 DEF Parts, ReservedInv, HeldBy
        <4>. QED
          BY <1>9, <3>1, <4>1
      <3>2. CASE i # Idx(pos[t])
        BY <1>2, <1>6, <1>8, <2>3, <3>2 DEF Parts, SlotInv
      <3>. QED
        BY <3>1, <3>2
    <2>. QED
      BY <1>3, <1>4, <1>5, <2>1, <2>2, <2>3 DEF SlotInv
  <1>13. EmittedInv'
    <2>1. cpc \in EmittedPC => state'[Idx(consumer_pos)] = 1
      <3>1. Idx(consumer_pos) \in 0..Slots-1
        BY IdxRange DEF TypeOK
      <3>. QED
        BY <1>2, <1>8, <3>1 DEF Parts, EmittedInv, EmittedPC
    <2>. QED
      BY <1>2, <1>3, <2>1 DEF Parts, EmittedInv, EmittedInOrder, EmittedPC
  <1>. QED
    BY <1>10, <1>11, <1>12, <1>13 DEF Parts
(* The consumer takes the event at consumer_pos: a committed slot under it can *)
(* only be the one of that very position.                                      *)
LEMMA ConsumerEmitStep ==
  ASSUME TypeOK, RingInv, ConsumerEmit
  PROVE  RingInv'
  <1>1. SUFFICES ASSUME ~lapped
                 PROVE  Parts'
    BY DEF RingInv, Parts, ConsumerEmit, rtVars, histVars
  <1>2. Parts
    BY <1>1 DEF RingInv, Parts
  <1>3. /\ UNCHANGED <<state, data, write_pos, consumer_pos, pos, pc>>
        /\ cpc \in {"drain", "final"} /\ cpc' \in EmittedPC
        /\ state[Idx(consumer_pos)] = 1
        /\ emitted' = Append(emitted, data[Idx(consumer_pos)])
    BY DEF ConsumerEmit, EmittedPC, ringVars, clVars
  <1>4. /\ Slots \in Nat \ {0} /\ consumer_pos \in Nat /\ emitted \in Seq(SUBSET Nat)
        /\ Oldest = consumer_pos /\ Oldest' = Oldest
    BY <1>3, SlotsAssumption DEF TypeOK, Oldest, EmittedPC
  <1>5. \A c : Window(c)' <=> Window(c)
    BY <1>4 DEF Window
  <1>6. \A q \in Clients : Uncommitted(q)' <=> Uncommitted(q)
    BY <1>3 DEF Uncommitted
  <1>7. \A c : \A q \in Clients : HeldBy(c, q)' <=> HeldBy(c, q)
    BY <1>3, <1>6 DEF HeldBy
  <1>8. data[Idx(consumer_pos)] = {consumer_pos}
    <2>1. PICK c \in Oldest..write_pos-1 :
                 /\ Idx(c) = Idx(consumer_pos) /\ Window(c)
                 /\ \A q \in Clients : ~HeldBy(c, q)
      BY <1>2, <1>3, <1>4, IdxRange DEF Parts, SlotInv
    <2>2. c \in Nat /\ Window(consumer_pos)
      BY <1>4, <2>1 DEF Window
    <2>3. c = consumer_pos
      BY <1>4, <2>1, <2>2, IdxWindow DEF Window
    <2>. QED
      BY <1>2, <2>1, <2>3 DEF Parts, CommittedInv
  <1>9. ReservedInv'
    BY <1>2, <1>3, <1>4, <1>6 DEF Parts, ReservedInv
  <1>10. CommittedInv'
    BY <1>2, <1>3, <1>4, <1>5, <1>7 DEF Parts, CommittedInv
  <1>11. SlotInv'
    BY <1>2, <1>3, <1>4, <1>5, <1>7 DEF Parts, SlotInv
  <1>12. EmittedInv'
    <2>1. Len(emitted) = consumer_pos
      BY <1>2, <1>3 DEF Parts, EmittedInv, EmittedPC
    <2>2. Len(emitted') = consumer_pos + 1
      BY <1>3, <1>4, <2>1
    <2>3. \A i \in 1..Len(emitted') : emitted'[i] = {i - 1}
      BY <1>2, <1>3, <1>4, <1>8, <2>1 DEF Parts, EmittedInv, EmittedInOrder, EmittedPC
    <2>. QED
      BY <1>3, <2>2, <2>3 DEF EmittedInv, EmittedInOrder, EmittedPC
  <1>. QED
    BY <1>9, <1>10, <1>11, <1>12 DEF Parts

(* The consumer frees the slot of consumer_pos: nobody holds that position,   *)
(* and every other position of the window has another slot.                   *)
LEMMA ConsumerFreeStep ==
  ASSUME TypeOK, RingInv, ConsumerFree
  PROVE  RingInv'
  <1>1. SUFFICES ASSUME ~lapped
                 PROVE  Parts'
    BY DEF RingInv, Parts, ConsumerFree, rtVars, histVars
  <1>2. Parts
    BY <1>1 DEF RingInv, Parts
  <1>3. /\ UNCHANGED <<data, write_pos, consumer_pos, pos, pc, emitted>>
        /\ cpc \in {"free", "ffree"} /\ cpc' \in {"bump", "fbump"}
    BY DEF ConsumerFree, clVars
  <1>4. /\ Slots \in Nat \ {0} /\ consumer_pos \in Nat /\ write_pos \in Nat
        /\ \A q \in Clients : pos[q] \in Int
        /\ Oldest = consumer_pos /\ Oldest' = consumer_pos + 1
    BY <1>3, SlotsAssumption DEF TypeOK, Oldest, NoPos
  <1>5. \A q \in Clients : Uncommitted(q)' <=> Uncommitted(q)
    BY <1>3 DEF Uncommitted
  <1>6. \A c : \A q \in Clients : HeldBy(c, q)' <=> HeldBy(c, q)
    BY <1>3, <1>5 DEF HeldBy
  <1>7. /\ Idx(consumer_pos) \in 0..Slots-1
        /\ state'[Idx(consumer_pos)] = 0
        /\ \A i \in 0..Slots-1 : i # Idx(consumer_pos) => state'[i] = state[i]
    BY <1>4, IdxRange DEF TypeOK, ConsumerFree
  <1>8. consumer_pos < write_pos /\ \A q \in Clients : ~HeldBy(consumer_pos, q)
    <2>1. PICK c \in Oldest..write_pos-1 :
                 /\ Idx(c) = Idx(consumer_pos) /\ Window(c)
                 /\ \A q \in Clients : ~HeldBy(c, q)
      BY <1>2, <1>3, <1>7 DEF Parts, SlotInv, EmittedInv, EmittedPC
    <2>2. c \in Nat /\ Window(consumer_pos)
      BY <1>4, <2>1 DEF Window
    <2>3. c = consumer_pos
      BY <1>4, <2>1, <2>2, IdxWindow DEF Window
    <2>. QED
      BY <1>4, <2>1, <2>3
  <1>9. \A c \in Int : c # consumer_pos /\ Window(c) => Window(c)'
    BY <1>4 DEF Window
  <1>10. ASSUME NEW c \in Nat, Window(c), c # consumer_pos
         PROVE  Idx(c) # Idx(consumer_pos) /\ Idx(c) \in 0..Slots-1
    <2>1. Window(consumer_pos)
      BY <1>4 DEF Window
    <2>. QED
      BY <1>4, <1>10, <2>1, IdxWindow, IdxRange DEF Window
  <1>11. ReservedInv'
    <2>1. ASSUME NEW q \in Clients, Uncommitted(q)
          PROVE  consumer_pos + 1 <= pos[q]
      BY <1>2, <1>4, <1>8, <2>1 DEF Parts, ReservedInv, HeldBy
    <2>. QED
      BY <1>2, <1>3, <1>4, <1>5, <1>8, <2>1 DEF Parts, ReservedInv
  <1>12. CommittedInv'
    <2>. SUFFICES ASSUME NEW c \in consumer_pos+1..write_pos-1,
                         ~\E q \in Clients : HeldBy(c, q)
                  PROVE  Window(c)' /\ state'[Idx(c)] = 1 /\ data[Idx(c)] = {c}
      BY <1>3, <1>4, <1>6 DEF CommittedInv
    <2>1. c \in Oldest..write_pos-1 /\ c \in Nat /\ c # consumer_pos
      BY <1>4
    <2>2. Window(c) /\ state[Idx(c)] = 1 /\ data[Idx(c)] = {c}
      BY <1>2, <2>1 DEF Parts, CommittedInv
    <2>. QED
      BY <1>7, <1>9, <1>10, <2>1, <2>2
  <1>13. SlotInv'
    <2>1. ASSUME NEW q \in Clients, pc[q] \in {"write", "commit"}
          PROVE  (Window(pos[q]) /\ state[Idx(pos[q])] = 0)'
      <3>1. Uncommitted(q) /\ pos'[q] = pos[q] /\ pos[q] \in Nat
        BY <1>3, <2>1 DEF Uncommitted, UncommittedPC, TypeOK
      <3>2. Window(pos[q]) /\ state[Idx(pos[q])] = 0 /\ pos[q] # consumer_pos
        BY <1>2, <1>8, <2>1, <3>1 DEF Parts, SlotInv, HeldBy
      <3>3. Window(pos[q])'
        BY <1>3, <1>4, <3>1, <3>2 DEF Window
      <3>. QED
        BY <1>7, <1>10, <3>1, <3>2, <3>3
    <2>2. ASSUME NEW i \in 0..Slots-1, state'[i] = 1
          PROVE  \E c \in consumer_pos+1..write_pos-1 :
                   Idx(c) = i /\ Window(c)' /\ \A q \in Clients : ~HeldBy(c, q)'
      <3>1. i # Idx(consumer_pos) /\ state[i] = 1
        BY <1>7, <2>2
      <3>2. PICK c \in Oldest..write_pos-1 :
                   Idx(c) = i /\ Window(c) /\ \A q \in Clients : ~HeldBy(c, q)
        BY <1>2, <3>1 DEF Parts, SlotInv
      <3>3. c # consumer_pos /\ c \in consumer_pos+1..write_pos-1
        BY <1>4, <3>1, <3>2
      <3>. QED
        BY <1>6, <1>9, <3>2, <3>3
    <2>. QED
      BY <1>2, <1>3, <1>4, <2>1, <2>2 DEF Parts, SlotInv
  <1>14. EmittedInv'
    BY <1>2, <1>3 DEF Parts, EmittedInv, EmittedInOrder, EmittedPC
  <1>. QED
    BY <1>11, <1>12, <1>13, <1>14 DEF Parts

(* Advancing consumer_pos changes no window: the slot is already free. *)
LEMMA ConsumerBumpStep ==
  ASSUME TypeOK, RingInv, ConsumerBump
  PROVE  RingInv'
  <1>1. SUFFICES ASSUME ~lapped
                 PROVE  Parts'
    BY DEF RingInv, Parts, ConsumerBump, rtVars, histVars
  <1>2. Parts
    BY <1>1 DEF RingInv, Parts
  <1>3. /\ UNCHANGED <<state, data, write_pos, pos, pc, emitted>>
        /\ cpc \in {"bump", "fbump"} /\ cpc' \in {"drain", "final"}
        /\ consumer_pos' = consumer_pos + 1
    BY DEF ConsumerBump, clVars
  <1>4. Oldest' = Oldest
    BY <1>3 DEF Oldest
  <1>5. \A c : Window(c)' <=> Window(c)
    BY <1>4 DEF Window
  <1>6. \A q \in Clients : Uncommitted(q)' <=> Uncommitted(q)
    BY <1>3 DEF Uncommitted
  <1>7. \A c : \A q \in Clients : HeldBy(c, q)' <=> HeldBy(c, q)
    BY <1>3, <1>6 DEF HeldBy
  <1>8. ReservedInv'
    BY <1>2, <1>3, <1>4, <1>6 DEF Parts, ReservedInv
  <1>9. CommittedInv'
    BY <1>2, <1>3, <1>4, <1>5, <1>7 DEF Parts, CommittedInv
  <1>10. SlotInv'
    BY <1>2, <1>3, <1>4, <1>5, <1>7 DEF Parts, SlotInv
  <1>11. EmittedInv'
    BY <1>2, <1>3 DEF Parts, EmittedInv, EmittedInOrder, EmittedPC
  <1>. QED
    BY <1>8, <1>9, <1>10, <1>11 DEF Parts
(* RingInv is inductive relative to TypeOK. *)
LEMMA RingStep ==
  TypeOK /\ RingInv /\ [Next]_vars => RingInv'
  <1>. SUFFICES ASSUME TypeOK, RingInv, [Next]_vars
                PROVE  RingInv'
    OBVIOUS
  <1>. USE DEF FrameVars, SamePhase, SameOwner, EmittedPC, Uncommitted, UncommittedPC, ringVars, rtVars,
               clVars, coVars, histVars
  <1>1. ASSUME NEW t \in Clients, LogCall(t)
        PROVE  RingInv'
    <2>1. pc' \in [Clients -> ClientPC] /\ \A q \in Clients : SameOwner(q)
      BY <1>1 DEF TypeOK, ClientPC, LogCall, Goto, Return
    <2>. QED
      BY <1>1, <2>1, Frame DEF LogCall, RingInv
  <1>2. ASSUME NEW t \in Clients, FlushCall(t)
        PROVE  RingInv'
    <2>1. pc' \in [Clients -> ClientPC] /\ \A q \in Clients : SameOwner(q)
      BY <1>2 DEF TypeOK, ClientPC, FlushCall, Goto, Return
    <2>. QED
      BY <1>2, <2>1, Frame DEF FlushCall, RingInv
  <1>3. ASSUME NEW t \in Clients, Drop(t)
        PROVE  RingInv'
    <2>1. pc' \in [Clients -> ClientPC] /\ \A q \in Clients : SameOwner(q)
      BY <1>3 DEF TypeOK, ClientPC, Drop, Goto, Return
    <2>. QED
      BY <1>3, <2>1, Frame DEF Drop, RingInv
  <1>4. ASSUME NEW t \in Clients, SpinOut(t)
        PROVE  RingInv'
    <2>1. pc' \in [Clients -> ClientPC] /\ \A q \in Clients : SameOwner(q)
      BY <1>4 DEF TypeOK, ClientPC, SpinOut, Goto, Return
    <2>. QED
      BY <1>4, <2>1, Frame DEF SpinOut, RingInv
  <1>5. ASSUME NEW t \in Clients, BlockOnSlot(t)
        PROVE  RingInv'
    <2>1. pc' \in [Clients -> ClientPC] /\ \A q \in Clients : SameOwner(q)
      BY <1>5 DEF TypeOK, ClientPC, BlockOnSlot, Goto, Return
    <2>. QED
      BY <1>5, <2>1, Frame DEF BlockOnSlot, RingInv
  <1>6. ASSUME NEW t \in Clients, PublishSeq(t)
        PROVE  RingInv'
    <2>1. pc' \in [Clients -> ClientPC] /\ \A q \in Clients : SameOwner(q)
      BY <1>6 DEF TypeOK, ClientPC, PublishSeq, Goto, Return
    <2>. QED
      BY <1>6, <2>1, Frame DEF PublishSeq, RingInv
  <1>7. ASSUME NEW t \in Clients, AdvanceLoad(t)
        PROVE  RingInv'
    <2>1. pc' \in [Clients -> ClientPC] /\ \A q \in Clients : SameOwner(q)
      BY <1>7 DEF TypeOK, ClientPC, AdvanceLoad, Goto, Return
    <2>. QED
      BY <1>7, <2>1, Frame DEF AdvanceLoad, RingInv
  <1>8. ASSUME NEW t \in Clients, AdvanceCheck(t)
        PROVE  RingInv'
    <2>1. pc' \in [Clients -> ClientPC] /\ \A q \in Clients : SameOwner(q)
      BY <1>8 DEF TypeOK, ClientPC, AdvanceCheck, Goto, Return
    <2>. QED
      BY <1>8, <2>1, Frame DEF AdvanceCheck, RingInv
  <1>9. ASSUME NEW t \in Clients, AdvanceCas(t)
        PROVE  RingInv'
    <2>1. pc' \in [Clients -> ClientPC] /\ \A q \in Clients : SameOwner(q)
      BY <1>9 DEF TypeOK, ClientPC, AdvanceCas, Goto, Return
    <2>. QED
      BY <1>9, <2>1, Frame DEF AdvanceCas, RingInv
  <1>10. ASSUME NEW t \in Clients, SignalTest(t)
        PROVE  RingInv'
    <2>1. pc' \in [Clients -> ClientPC] /\ \A q \in Clients : SameOwner(q)
      BY <1>10 DEF TypeOK, ClientPC, SignalTest, Goto, Return
    <2>. QED
      BY <1>10, <2>1, Frame DEF SignalTest, RingInv
  <1>11. ASSUME NEW t \in Clients, SignalConsumer(t)
        PROVE  RingInv'
    <2>1. pc' \in [Clients -> ClientPC] /\ \A q \in Clients : SameOwner(q)
      BY <1>11 DEF TypeOK, ClientPC, SignalConsumer, Goto, Return
    <2>. QED
      BY <1>11, <2>1, Frame DEF SignalConsumer, RingInv
  <1>12. ASSUME NEW t \in Clients, FlushDone(t)
        PROVE  RingInv'
    <2>1. pc' \in [Clients -> ClientPC] /\ \A q \in Clients : SameOwner(q)
      BY <1>12 DEF TypeOK, ClientPC, FlushDone, Goto, Return
    <2>. QED
      BY <1>12, <2>1, Frame DEF FlushDone, RingInv
  <1>13. ASSUME NEW t \in Clients, FlushBlock(t)
        PROVE  RingInv'
    <2>1. pc' \in [Clients -> ClientPC] /\ \A q \in Clients : SameOwner(q)
      BY <1>13 DEF TypeOK, ClientPC, FlushBlock, Goto, Return
    <2>. QED
      BY <1>13, <2>1, Frame DEF FlushBlock, RingInv
  <1>14. ASSUME NEW t \in Clients, FlushWake(t)
        PROVE  RingInv'
    <2>1. pc' \in [Clients -> ClientPC] /\ \A q \in Clients : SameOwner(q)
      BY <1>14 DEF TypeOK, ClientPC, FlushWake, Goto, Return
    <2>. QED
      BY <1>14, <2>1, Frame DEF FlushWake, RingInv
  <1>15. CASE ConsumerLock
    BY <1>15, Frame DEF ConsumerLock, RingInv
  <1>16. CASE ConsumerTop
    BY <1>16, Frame DEF ConsumerTop, RingInv
  <1>17. CASE ConsumerMark
    BY <1>17, Frame DEF ConsumerMark, RingInv
  <1>18. CASE ConsumerRecheck
    BY <1>18, Frame DEF ConsumerRecheck, RingInv
  <1>19. CASE ConsumerWake
    BY <1>19, Frame DEF ConsumerWake, RingInv
  <1>20. CASE ConsumerLeave
    BY <1>20, Frame DEF ConsumerLeave, RingInv
  <1>21. CASE ConsumerStopDrain
    BY <1>21, Frame DEF ConsumerStopDrain, RingInv
  <1>22. CASE ConsumerRetry
    BY <1>22, Frame DEF ConsumerRetry, RingInv
  <1>23. CASE ConsumerNotify
    BY <1>23, Frame DEF ConsumerNotify, RingInv
  <1>24. CASE Unblock
    BY <1>24, Frame DEF Unblock, RingInv
  <1>25. CASE StopRequest
    BY <1>25, Frame DEF StopRequest, RingInv
  <1>26. CASE StopJoin
    BY <1>26, Frame DEF StopJoin, RingInv
  <1>27. CASE UNCHANGED vars
    BY <1>27, Frame DEF vars, RingInv
  <1>28. CASE ConsumerRelease
    BY <1>28, Frame DEF ConsumerRelease, RingInv
  <1>. QED
    BY <1>28, <1>1, <1>2, <1>3, <1>4, <1>5, <1>6, <1>7, <1>8, <1>9, <1>10, <1>11, <1>12, <1>13, <1>14, <1>15, <1>16, <1>17, <1>18, <1>19, <1>20, <1>21, <1>22, <1>23, <1>24, <1>25, <1>26, <1>27,
       ReserveStep, SlotFreeStep, WriteSlotStep, CommitSlotStep,
       ConsumerEmitStep, ConsumerFreeStep, ConsumerBumpStep
       DEF Next, Enqueue, Flush, ConsumerStep

(* The ring starts empty. *)
LEMMA RingInit == Init => RingInv
  <1>. SUFFICES ASSUME Init
                PROVE  RingInv
    OBVIOUS
  <1>1. Oldest = 0 /\ \A q \in Clients : ~Uncommitted(q) /\ pc[q] = "idle"
    BY DEF Init, Oldest, Uncommitted, UncommittedPC
  <1>2. ReservedInv /\ CommittedInv
    BY <1>1 DEF Init, ReservedInv, CommittedInv
  <1>3. SlotInv
    BY <1>1 DEF Init, SlotInv
  <1>4. EmittedInv
    BY DEF Init, EmittedInv, EmittedInOrder, EmittedPC
  <1>. QED
    BY <1>2, <1>3, <1>4 DEF Init, RingInv

(* In every behaviour, whatever the number of clients and the ring size: as   *)
(* long as no reservation has lapped an uncommitted one, the sinks have       *)
(* received whole events, once each, in reservation order.                    *)
THEOREM InOrder == Spec => []InOrderUnlessLapped
  <1>1. RingInv => InOrderUnlessLapped
    BY DEF RingInv, EmittedInv, InOrderUnlessLapped
  <1>. QED
    BY <1>1, RingInit, RingStep, TypeCorrect, PTL DEF Spec
----------------------------------------------------------------------------
(* The inductive invariant of publication and of the contiguous prefix.      *)

PubInv == PublishInv /\ PrefixInv

(* What a step that neither reserves, publishes nor counts leaves alone. *)
PubVars == <<committed_pos, write_pos, published_seq, pos, overtaken>>
PubSame(q) ==
  /\ Outstanding(q)' <=> Outstanding(q)
  /\ pc'[q] = "advcas" => pc[q] = "advcas" /\ reg'[q] = reg[q]
  /\ Counting(q) => Counting(q)'

(* PubInv depends on nothing else. *)
LEMMA PubFrame ==
  ASSUME PubInv, UNCHANGED PubVars, \A q \in Clients : PubSame(q)
  PROVE  PubInv'
  <1>. USE DEF PubVars, PubSame, PubInv
  <1>1. PublishInv'
    BY DEF PublishInv
  <1>2. \A c : Accounted(c) => Accounted(c)'
    BY DEF Accounted
  <1>3. PrefixInv'
    BY <1>2 DEF PrefixInv
  <1>. QED
    BY <1>1, <1>3

(* The types the arithmetic of these proofs needs. *)
LEMMA PubTypes ==
  ASSUME TypeOK
  PROVE  /\ Slots \in Nat \ {0} /\ write_pos \in Nat /\ committed_pos \in Nat
         /\ \A q \in Clients : pos[q] \in Int /\ reg[q] \in Nat
         /\ \A i \in 0..Slots-1 : published_seq[i] \in Nat
  BY SlotsAssumption DEF TypeOK, NoPos

(* The fetch-add: the new position is outstanding and above all others. *)
LEMMA ReservePub ==
  ASSUME TypeOK, PubInv, NEW t \in Clients, Reserve(t)
  PROVE  PubInv'
  <1>1. /\ pos'[t] = write_pos /\ Outstanding(t)' /\ ~Outstanding(t)
        /\ \A q \in Clients \ {t} : pos'[q] = pos[q] /\ (Outstanding(q)' <=> Outstanding(q))
        /\ \A q \in Clients : pc'[q] = "advcas" => pc[q] = "advcas" /\ reg'[q] = reg[q]
        /\ \A q \in Clients : Counting(q) => Counting(q)'
        /\ write_pos' = write_pos + 1
        /\ UNCHANGED <<committed_pos, published_seq, overtaken>>
    BY DEF Reserve, Goto, TypeOK, Outstanding, Uncommitted, UncommittedPC, Counting
  <1>. USE PubTypes DEF PubInv
  <1>2. PublishInv'
    BY <1>1 DEF PublishInv
  <1>3. ASSUME ~overtaken
        PROVE  \A c \in committed_pos..write_pos : Accounted(c)'
    BY <1>1, <1>3 DEF PrefixInv, Accounted
  <1>4. PrefixInv'
    BY <1>1, <1>3 DEF PrefixInv, PublishInv
  <1>. QED
    BY <1>2, <1>4

(* The store of a sequence number: it hides none that is still to be counted, *)
(* unless it is a ring size or more ahead of the prefix.                      *)
LEMMA PublishSeqPub ==
  ASSUME TypeOK, PubInv, NEW t \in Clients, PublishSeq(t)
  PROVE  PubInv'
  <1>1. /\ Outstanding(t) /\ ~Outstanding(t)' /\ Counting(t)'
        /\ \A q \in Clients \ {t} : /\ Outstanding(q)' <=> Outstanding(q)
                                    /\ Counting(q) => Counting(q)'
        /\ \A q \in Clients : pc'[q] = "advcas" => pc[q] = "advcas" /\ reg'[q] = reg[q]
        /\ UNCHANGED <<committed_pos, write_pos, pos>>
    BY DEF PublishSeq, Goto, TypeOK, Outstanding, Uncommitted, UncommittedPC, Counting
  <1>. USE PubTypes DEF PubInv
  <1>2. pos[t] \in Nat /\ committed_pos <= pos[t] /\ pos[t] < write_pos
    BY <1>1 DEF PublishInv
  <1>3. /\ Idx(pos[t]) \in 0..Slots-1
        /\ published_seq'[Idx(pos[t])] = pos[t] + 1
        /\ \A i \in 0..Slots-1 : i # Idx(pos[t]) => published_seq'[i] = published_seq[i]
        /\ ~overtaken' => ~overtaken /\ ~(committed_pos + Slots <= pos[t])
    BY <1>2, IdxRange DEF PublishSeq, TypeOK
  <1>4. PublishInv'
    <2>1. ASSUME NEW i \in 0..Slots-1
          PROVE  /\ published_seq'[i] <= write_pos
                 /\ \A q \in Clients : Outstanding(q)' => published_seq'[i] # pos[q] + 1
      <3>1. CASE i = Idx(pos[t])
        BY <1>1, <1>2, <1>3, <3>1 DEF PublishInv
      <3>2. CASE i # Idx(pos[t])
        BY <1>1, <1>3, <3>2 DEF PublishInv
      <3>. QED
        BY <3>1, <3>2
    <2>. QED
      BY <1>1, <2>1 DEF PublishInv
  <1>5. PrefixInv'
    <2>. SUFFICES ASSUME ~overtaken'
                  PROVE  /\ \A i \in 0..Slots-1 : published_seq'[i] <= committed_pos + Slots
                         /\ \A c \in committed_pos..write_pos-1 : Accounted(c)'
      BY <1>1 DEF PrefixInv
    <2>1. ~overtaken /\ pos[t] < committed_pos + Slots
      BY <1>2, <1>3
    <2>2. ASSUME NEW i \in 0..Slots-1
          PROVE  published_seq'[i] <= committed_pos + Slots
      BY <1>2, <1>3, <2>1 DEF PrefixInv
    <2>3. ASSUME NEW c \in committed_pos..write_pos-1
          PROVE  Accounted(c)'
      <3>1. CASE c = pos[t]
        BY <1>3, <3>1 DEF Accounted
      <3>2. CASE c # pos[t]
        <4>1. c \in Nat /\ Idx(c) \in 0..Slots-1
          BY IdxRange
        <4>2. CASE \E q \in Clients : Outstanding(q) /\ pos[q] = c
          BY <1>1, <3>2, <4>2 DEF Accounted
        <4>3. CASE published_seq[Idx(c)] = c + 1
          <5>1. c < committed_pos + Slots
            BY <2>1, <4>1, <4>3 DEF PrefixInv
          <5>2. Idx(c) # Idx(pos[t])
            BY <1>2, <2>1, <3>2, <4>1, <5>1, IdxWindow
          <5>. QED
            BY <1>3, <4>1, <4>3, <5>2 DEF Accounted
        <4>. QED
          BY <2>1, <4>2, <4>3 DEF PrefixInv, Accounted
      <3>. QED
        BY <3>1, <3>2
    <2>. QED
      BY <2>2, <2>3
  <1>. QED
    BY <1>4, <1>5

(* The comparison: a client that gives up at the end of the prefix leaves an *)
(* outstanding position there, whose own call will go on.                    *)
LEMMA AdvanceCheckPub ==
  ASSUME TypeOK, PubInv, NEW t \in Clients, AdvanceCheck(t)
  PROVE  PubInv'
  <1>1. /\ pc[t] = "advcheck" /\ ~Outstanding(t) /\ ~Outstanding(t)'
        /\ \A q \in Clients \ {t} : /\ Outstanding(q)' <=> Outstanding(q)
                                    /\ Counting(q) => Counting(q)'
                                    /\ pc'[q] = pc[q] /\ reg'[q] = reg[q]
        /\ UNCHANGED PubVars
    BY DEF AdvanceCheck, Goto, TypeOK, Outstanding, Uncommitted, UncommittedPC, Counting,
           ringVars, histVars, PubVars
  <1>. USE PubTypes DEF PubInv, PubVars
  <1>2. Idx(reg[t]) \in 0..Slots-1
    BY IdxRange
  <1>3. CASE published_seq[Idx(reg[t])] = reg[t] + 1
    <2>1. pc'[t] = "advcas" /\ reg'[t] = reg[t]
      BY <1>3 DEF AdvanceCheck, Goto, TypeOK
    <2>2. reg[t] < write_pos /\ \A q \in Clients : Outstanding(q) => reg[t] # pos[q]
      BY <1>2, <1>3 DEF PublishInv
    <2>3. PublishInv'
      BY <1>1, <2>1, <2>2 DEF PublishInv
    <2>4. Counting(t)' /\ \A c : Accounted(c) => Accounted(c)'
      BY <1>1, <2>1 DEF Counting, Accounted
    <2>5. PrefixInv'
      BY <1>1, <2>4 DEF PrefixInv
    <2>. QED
      BY <2>3, <2>5
  <1>4. CASE published_seq[Idx(reg[t])] # reg[t] + 1
    <2>1. pc'[t] = "sig"
      BY <1>4 DEF AdvanceCheck, TypeOK
    <2>2. PublishInv'
      BY <1>1, <2>1 DEF PublishInv
    <2>3. \A c : Accounted(c) => Accounted(c)'
      BY <1>1 DEF Accounted
    <2>4. ASSUME ~overtaken, committed_pos < write_pos
          PROVE  \/ \E q \in Clients : Outstanding(q)' /\ pos[q] = committed_pos
                 \/ \E q \in Clients : Counting(q)'
      <3>1. CASE reg[t] = committed_pos
        <4>1. Accounted(committed_pos)
          BY <2>4 DEF PrefixInv
        <4>2. PICK q \in Clients : Outstanding(q) /\ pos[q] = committed_pos
          BY <1>4, <3>1, <4>1 DEF Accounted
        <4>. QED
          BY <1>1, <4>2
      <3>2. CASE reg[t] # committed_pos
        <4>1. ~Counting(t)
          BY <1>1, <3>2 DEF Counting
        <4>. QED
          BY <1>1, <2>4, <4>1 DEF PrefixInv
      <3>. QED
        BY <3>1, <3>2
    <2>5. PrefixInv'
      BY <1>1, <2>3, <2>4 DEF PrefixInv
    <2>. QED
      BY <2>2, <2>5
  <1>. QED
    BY <1>3, <1>4

(* The CAS counts a position whose number was stored. *)
LEMMA AdvanceCasPub ==
  ASSUME TypeOK, PubInv, NEW t \in Clients, AdvanceCas(t)
  PROVE  PubInv'
  <1>1. /\ pc[t] = "advcas" /\ pc'[t] = "advload"
        /\ \A q \in Clients : /\ Outstanding(q)' <=> Outstanding(q)
                              /\ pc'[q] = "advcas" => pc[q] = "advcas" /\ reg'[q] = reg[q]
        /\ UNCHANGED <<write_pos, published_seq, pos, overtaken>>
        /\ committed_pos' = IF committed_pos = reg[t] THEN reg[t] + 1 ELSE committed_pos
    BY DEF AdvanceCas, Goto, TypeOK, Outstanding, Uncommitted, UncommittedPC, histVars
  <1>. USE PubTypes DEF PubInv
  <1>2. reg[t] < write_pos /\ \A q \in Clients : Outstanding(q) => reg[t] # pos[q]
    BY <1>1 DEF PublishInv
  <1>3. committed_pos' \in Nat /\ committed_pos <= committed_pos' /\ committed_pos' <= write_pos
    BY <1>1, <1>2 DEF PublishInv
  <1>4. \A q \in Clients : Outstanding(q) => committed_pos' <= pos[q]
    BY <1>1, <1>2 DEF PublishInv
  <1>5. PublishInv'
    BY <1>1, <1>3, <1>4 DEF PublishInv
  <1>6. Counting(t)' /\ \A c : Accounted(c) => Accounted(c)'
    BY <1>1 DEF Counting, Accounted
  <1>7. PrefixInv'
    BY <1>1, <1>3, <1>6 DEF PrefixInv
  <1>. QED
    BY <1>5, <1>7

(* PubInv is inductive relative to TypeOK. *)
LEMMA PubStep ==
  TypeOK /\ PubInv /\ [Next]_vars => PubInv'
  <1>. SUFFICES ASSUME TypeOK, PubInv, [Next]_vars
                PROVE  PubInv'
    OBVIOUS
  <1>. USE DEF TypeOK, PubVars, PubSame, Outstanding, Uncommitted, UncommittedPC, Counting,
               ringVars, rtVars, clVars, coVars, histVars
  <1>1. ASSUME NEW t \in Clients, LogCall(t)
        PROVE  PubInv'
    <2>1. UNCHANGED PubVars /\ \A q \in Clients : PubSame(q)
      BY <1>1 DEF LogCall, Goto, Return
    <2>. QED
      BY <2>1, PubFrame
  <1>2. ASSUME NEW t \in Clients, FlushCall(t)
        PROVE  PubInv'
    <2>1. UNCHANGED PubVars /\ \A q \in Clients : PubSame(q)
      BY <1>2 DEF FlushCall, Goto, Return
    <2>. QED
      BY <2>1, PubFrame
  <1>3. ASSUME NEW t \in Clients, Drop(t)
        PROVE  PubInv'
    <2>1. UNCHANGED PubVars /\ \A q \in Clients : PubSame(q)
      BY <1>3 DEF Drop, Goto, Return
    <2>. QED
      BY <2>1, PubFrame
  <1>4. ASSUME NEW t \in Clients, SlotFree(t)
        PROVE  PubInv'
    <2>1. UNCHANGED PubVars /\ \A q \in Clients : PubSame(q)
      BY <1>4 DEF SlotFree, Goto, Return
    <2>. QED
      BY <2>1, PubFrame
  <1>5. ASSUME NEW t \in Clients, SpinOut(t)
        PROVE  PubInv'
    <2>1. UNCHANGED PubVars /\ \A q \in Clients : PubSame(q)
      BY <1>5 DEF SpinOut, Goto, Return
    <2>. QED
      BY <2>1, PubFrame
  <1>6. ASSUME NEW t \in Clients, BlockOnSlot(t)
        PROVE  PubInv'
    <2>1. UNCHANGED PubVars /\ \A q \in Clients : PubSame(q)
      BY <1>6 DEF BlockOnSlot, Goto, Return
    <2>. QED
      BY <2>1, PubFrame
  <1>7. ASSUME NEW t \in Clients, WriteSlot(t)
        PROVE  PubInv'
    <2>1. UNCHANGED PubVars /\ \A q \in Clients : PubSame(q)
      BY <1>7 DEF WriteSlot, Goto, Return
    <2>. QED
      BY <2>1, PubFrame
  <1>8. ASSUME NEW t \in Clients, CommitSlot(t)
        PROVE  PubInv'
    <2>1. UNCHANGED PubVars /\ \A q \in Clients : PubSame(q)
      BY <1>8 DEF CommitSlot, Goto, Return
    <2>. QED
      BY <2>1, PubFrame
  <1>9. ASSUME NEW t \in Clients, AdvanceLoad(t)
        PROVE  PubInv'
    <2>1. UNCHANGED PubVars /\ \A q \in Clients : PubSame(q)
      BY <1>9 DEF AdvanceLoad, Goto, Return
    <2>. QED
      BY <2>1, PubFrame
  <1>10. ASSUME NEW t \in Clients, SignalTest(t)
        PROVE  PubInv'
    <2>1. UNCHANGED PubVars /\ \A q \in Clients : PubSame(q)
      BY <1>10 DEF SignalTest, Goto, Return
    <2>. QED
      BY <2>1, PubFrame
  <1>11. ASSUME NEW t \in Clients, SignalConsumer(t)
        PROVE  PubInv'
    <2>1. UNCHANGED PubVars /\ \A q \in Clients : PubSame(q)
      BY <1>11 DEF SignalConsumer, Goto, Return
    <2>. QED
      BY <2>1, PubFrame
  <1>12. ASSUME NEW t \in Clients, FlushDone(t)
        PROVE  PubInv'
    <2>1. UNCHANGED PubVars /\ \A q \in Clients : PubSame(q)
      BY <1>12 DEF FlushDone, Goto, Return
    <2>. QED
      BY <2>1, PubFrame
  <1>13. ASSUME NEW t \in Clients, FlushBlock(t)
        PROVE  PubInv'
    <2>1. UNCHANGED PubVars /\ \A q \in Clients : PubSame(q)
      BY <1>13 DEF FlushBlock, Goto, Return
    <2>. QED
      BY <2>1, PubFrame
  <1>14. ASSUME NEW t \in Clients, FlushWake(t)
        PROVE  PubInv'
    <2>1. UNCHANGED PubVars /\ \A q \in Clients : PubSame(q)
      BY <1>14 DEF FlushWake, Goto, Return
    <2>. QED
      BY <2>1, PubFrame
  <1>15. CASE ConsumerLock
    BY <1>15, PubFrame DEF ConsumerLock
  <1>16. CASE ConsumerTop
    BY <1>16, PubFrame DEF ConsumerTop
  <1>17. CASE ConsumerMark
    BY <1>17, PubFrame DEF ConsumerMark
  <1>18. CASE ConsumerRecheck
    BY <1>18, PubFrame DEF ConsumerRecheck
  <1>19. CASE ConsumerWake
    BY <1>19, PubFrame DEF ConsumerWake
  <1>20. CASE ConsumerLeave
    BY <1>20, PubFrame DEF ConsumerLeave
  <1>21. CASE ConsumerEmit
    BY <1>21, PubFrame DEF ConsumerEmit
  <1>22. CASE ConsumerRelease
    BY <1>22, PubFrame DEF ConsumerRelease
  <1>23. CASE ConsumerFree
    BY <1>23, PubFrame DEF ConsumerFree
  <1>24. CASE ConsumerBump
    BY <1>24, PubFrame DEF ConsumerBump
  <1>25. CASE ConsumerStopDrain
    BY <1>25, PubFrame DEF ConsumerStopDrain
  <1>26. CASE ConsumerRetry
    BY <1>26, PubFrame DEF ConsumerRetry
  <1>27. CASE ConsumerNotify
    BY <1>27, PubFrame DEF ConsumerNotify
  <1>28. CASE Unblock
    BY <1>28, PubFrame DEF Unblock
  <1>29. CASE StopRequest
    BY <1>29, PubFrame DEF StopRequest
  <1>30. CASE StopJoin
    BY <1>30, PubFrame DEF StopJoin
  <1>31. CASE UNCHANGED vars
    BY <1>31, PubFrame DEF vars
  <1>. QED
    BY <1>1, <1>2, <1>3, <1>4, <1>5, <1>6, <1>7, <1>8, <1>9, <1>10, <1>11,
       <1>12, <1>13, <1>14, <1>15, <1>16, <1>17, <1>18, <1>19, <1>20, <1>21,
       <1>22, <1>23, <1>24, <1>25, <1>26, <1>27, <1>28, <1>29, <1>30, <1>31, 
       ReservePub, PublishSeqPub, AdvanceCheckPub, AdvanceCasPub
       DEF Next, Enqueue, Flush, ConsumerStep

(* PubInv holds throughout. *)
LEMMA PubAlways == Spec => []PubInv
  <1>1. Init => PubInv
    BY SlotsAssumption
       DEF Init, PubInv, PublishInv, PrefixInv, Outstanding, Uncommitted, UncommittedPC
  <1>. QED
    BY <1>1, PubStep, TypeCorrect, PTL DEF Spec

(* For any clients and ring: when every enqueue has left                      *)
(* _nei_log_advance_committed_pos, the prefix that nei_log_flush samples      *)
(* covers every reservation, unless a sequence number was hidden.             *)
THEOREM PrefixCovers == Spec => []PrefixUnlessOvertaken
  <1>1. TypeOK /\ PubInv => PrefixUnlessOvertaken
    <2>. SUFFICES ASSUME TypeOK, PubInv, ~overtaken, Published
                  PROVE  committed_pos = write_pos
      BY DEF PrefixUnlessOvertaken, PrefixComplete
    <2>1. \A t \in Clients : ~Outstanding(t) /\ ~Counting(t)
      BY DEF Published, Outstanding, Uncommitted, UncommittedPC, Counting
    <2>. QED
      BY <2>1, PubTypes DEF PubInv, PublishInv, PrefixInv
  <1>. QED
    BY <1>1, PubAlways, TypeCorrect, PTL
----------------------------------------------------------------------------
(* The drain and the sleep of the consumer. *)

(* In a ring nobody has lapped, a counted position that the consumer has not  *)
(* passed is a committed slot to it: nobody holds a counted position.         *)
LEMMA CountedIsReady ==
  ASSUME TypeOK, RingInv, PublishInv, ~lapped, cpc \notin {"bump", "fbump"},
         consumer_pos < committed_pos
  PROVE  HasReadySlot
  <1>1. Oldest = consumer_pos /\ consumer_pos \in Nat /\ consumer_pos < write_pos
    BY PubTypes DEF Oldest, PublishInv, TypeOK
  <1>2. \A q \in Clients : ~HeldBy(consumer_pos, q)
    BY PubTypes, <1>1 DEF PublishInv, HeldBy, Outstanding
  <1>3. consumer_pos \in Oldest..write_pos-1
    BY PubTypes, <1>1
  <1>. QED
    BY <1>1, <1>2, <1>3 DEF RingInv, CommittedInv, HasReadySlot

(* RingInv holds throughout. *)
LEMMA RingAlways == Spec => []RingInv
  BY RingInit, RingStep, TypeCorrect, PTL DEF Spec

(* For any clients and ring: the consumer thread does not exit before it has  *)
(* drained the published prefix, in a ring nobody has lapped.                 *)
THEOREM ExitDrains == Spec => ExitDrainsPrefix
  <1>1. ASSUME TypeOK, RingInv, PubInv, [Next]_vars,
               cpc # "done", cpc' = "done", ~lapped
        PROVE  consumer_pos >= committed_pos
    <2>1. cpc = "final" /\ state[Idx(consumer_pos)] # 1
      <3>1. ~UNCHANGED cpc
        BY <1>1
      <3>2. ConsumerStep \/ \E t \in Clients : LogCall(t)
        BY <1>1, <3>1 DEF Next, vars, coVars, Enqueue, Flush, FlushCall, Drop, Reserve,
             SlotFree, SpinOut, BlockOnSlot, WriteSlot, CommitSlot, PublishSeq, AdvanceLoad,
             AdvanceCheck, AdvanceCas, SignalTest, SignalConsumer, FlushDone, FlushBlock,
             FlushWake, Unblock, StopRequest, StopJoin
      <3>3. ConsumerStopDrain
        BY <1>1, <3>2 DEF LogCall, ConsumerStep, ConsumerLock, ConsumerTop, ConsumerMark,
             ConsumerRecheck, ConsumerWake, ConsumerLeave, ConsumerEmit, ConsumerRelease,
             ConsumerFree, ConsumerBump, ConsumerRetry, ConsumerNotify
      <3>. QED
        BY <1>1, <3>3 DEF ConsumerStopDrain
    <2>2. ~HasReadySlot
      BY <2>1 DEF HasReadySlot
    <2>3. ~(consumer_pos < committed_pos)
      BY <1>1, <2>1, <2>2, CountedIsReady DEF PubInv
    <2>. QED
      BY <1>1, <2>3 DEF TypeOK
  <1>2. TypeOK /\ RingInv /\ PubInv /\ [Next]_vars =>
          [(cpc # "done" /\ cpc' = "done" /\ ~lapped) => consumer_pos >= committed_pos]_vars
    BY <1>1
  <1>. QED
    BY <1>2, PubAlways, RingAlways, TypeCorrect, PTL DEF Spec, ExitDrainsPrefix

(* Who holds the mutex, who sleeps on the condition variable, and where. *)
LEMMA WaitersStep ==
  TypeOK /\ RingInv /\ WaitersInv /\ [Next]_vars => WaitersInv'
  <1>. SUFFICES ASSUME TypeOK, RingInv, WaitersInv, [Next]_vars
                PROVE  WaitersInv'
    OBVIOUS
  <1>. USE ConsumerAssumption DEF TypeOK, WaitersInv, LockedPC, ringVars, rtVars, clVars, coVars
  <1>1. ASSUME NEW t \in Clients, LogCall(t)
        PROVE  WaitersInv'
    BY <1>1 DEF LogCall, Goto, RingInv
  <1>2. ASSUME NEW t \in Clients, FlushCall(t)
        PROVE  WaitersInv'
    BY <1>2 DEF FlushCall, Goto, Return
  <1>3. ASSUME NEW t \in Clients, Drop(t)
        PROVE  WaitersInv'
    BY <1>3 DEF Drop, Goto, Return
  <1>4. ASSUME NEW t \in Clients, Reserve(t)
        PROVE  WaitersInv'
    BY <1>4 DEF Reserve, Goto, Return
  <1>5. ASSUME NEW t \in Clients, SlotFree(t)
        PROVE  WaitersInv'
    BY <1>5 DEF SlotFree, Goto, Return
  <1>6. ASSUME NEW t \in Clients, SpinOut(t)
        PROVE  WaitersInv'
    BY <1>6 DEF SpinOut, Goto, Return
  <1>7. ASSUME NEW t \in Clients, BlockOnSlot(t)
        PROVE  WaitersInv'
    <2>1. CASE state[Idx(pos[t])] # 0 /\ ~stop_requested
      <3>1. waiters' = waiters \cup {t} /\ Goto(t, "pwait")
        BY <1>7, <2>1 DEF BlockOnSlot
      <3>. QED
        BY <1>7, <3>1 DEF BlockOnSlot, Goto
    <2>2. CASE ~(state[Idx(pos[t])] # 0 /\ ~stop_requested)
      <3>1. t \notin waiters /\ UNCHANGED waiters /\ Goto(t, "spin")
        BY <1>7, <2>2 DEF BlockOnSlot
      <3>. QED
        BY <1>7, <3>1 DEF BlockOnSlot, Goto
    <2>. QED
      BY <2>1, <2>2
  <1>8. ASSUME NEW t \in Clients, WriteSlot(t)
        PROVE  WaitersInv'
    BY <1>8 DEF WriteSlot, Goto, Return
  <1>9. ASSUME NEW t \in Clients, CommitSlot(t)
        PROVE  WaitersInv'
    BY <1>9 DEF CommitSlot, Goto, Return
  <1>10. ASSUME NEW t \in Clients, PublishSeq(t)
        PROVE  WaitersInv'
    BY <1>10 DEF PublishSeq, Goto, Return
  <1>11. ASSUME NEW t \in Clients, AdvanceLoad(t)
        PROVE  WaitersInv'
    BY <1>11 DEF AdvanceLoad, Goto, Return
  <1>12. ASSUME NEW t \in Clients, AdvanceCheck(t)
        PROVE  WaitersInv'
    BY <1>12 DEF AdvanceCheck, Goto, Return
  <1>13. ASSUME NEW t \in Clients, AdvanceCas(t)
        PROVE  WaitersInv'
    BY <1>13 DEF AdvanceCas, Goto, Return
  <1>14. ASSUME NEW t \in Clients, SignalTest(t)
        PROVE  WaitersInv'
    BY <1>14 DEF SignalTest, Goto, Return
  <1>15. ASSUME NEW t \in Clients, SignalConsumer(t)
        PROVE  WaitersInv'
    BY <1>15 DEF SignalConsumer, Goto, Return, Signal
  <1>16. ASSUME NEW t \in Clients, FlushDone(t)
        PROVE  WaitersInv'
    BY <1>16 DEF FlushDone, Goto, Return
  <1>17. ASSUME NEW t \in Clients, FlushBlock(t)
        PROVE  WaitersInv'
    BY <1>17 DEF FlushBlock, Goto, Return
  <1>18. ASSUME NEW t \in Clients, FlushWake(t)
        PROVE  WaitersInv'
    <2>1. CASE consumer_pos < reg[t]
      <3>1. waiters' = waiters \cup {t} /\ UNCHANGED <<pc, reg>>
        BY <1>18, <2>1 DEF FlushWake
      <3>. QED
        BY <1>18, <3>1 DEF FlushWake
    <2>2. CASE ~(consumer_pos < reg[t])
      <3>1. UNCHANGED waiters /\ Return(t)
        BY <1>18, <2>2 DEF FlushWake
      <3>. QED
        BY <1>18, <3>1 DEF FlushWake, Return
    <2>. QED
      BY <2>1, <2>2
  <1>19. CASE ConsumerLock
    BY <1>19 DEF ConsumerLock
  <1>20. CASE ConsumerTop
    BY <1>20 DEF ConsumerTop
  <1>21. CASE ConsumerMark
    BY <1>21 DEF ConsumerMark
  <1>22. CASE ConsumerRecheck
    BY <1>22 DEF ConsumerRecheck
  <1>23. CASE ConsumerWake
    BY <1>23 DEF ConsumerWake
  <1>24. CASE ConsumerLeave
    BY <1>24 DEF ConsumerLeave
  <1>25. CASE ConsumerEmit
    BY <1>25 DEF ConsumerEmit
  <1>26. CASE ConsumerRelease
    BY <1>26 DEF ConsumerRelease, Signal
  <1>27. CASE ConsumerFree
    BY <1>27 DEF ConsumerFree
  <1>28. CASE ConsumerBump
    BY <1>28 DEF ConsumerBump
  <1>29. CASE ConsumerStopDrain
    BY <1>29 DEF ConsumerStopDrain
  <1>30. CASE ConsumerRetry
    BY <1>30 DEF ConsumerRetry
  <1>31. CASE ConsumerNotify
    BY <1>31 DEF ConsumerNotify, Broadcast
  <1>32. CASE Unblock
    BY <1>32 DEF Unblock
  <1>33. CASE StopRequest
    BY <1>33 DEF StopRequest, Broadcast
  <1>34. CASE StopJoin
    BY <1>34 DEF StopJoin
  <1>35. CASE UNCHANGED vars
    BY <1>35 DEF vars
  <1>. QED
    BY <1>1, <1>2, <1>3, <1>4, <1>5, <1>6, <1>7, <1>8, <1>9, <1>10, <1>11,
       <1>12, <1>13, <1>14, <1>15, <1>16, <1>17, <1>18, <1>19, <1>20, <1>21,
       <1>22, <1>23, <1>24, <1>25, <1>26, <1>27, <1>28, <1>29, <1>30, <1>31,
       <1>32, <1>33, <1>34, <1>35
       DEF Next, Enqueue, Flush, ConsumerStep

(* What a step that puts no client to sleep and hides no work from the        *)
(* consumer leaves of a sleeping client.                                      *)
StillBlocked(t) ==
  t \in waiters' =>
    /\ t \in waiters /\ pc'[t] = pc[t] /\ pos'[t] = pos[t] /\ reg'[t] = reg[t]
    /\ (pc[t] = "pwait" /\ state[Idx(pos[t])] # 0) => state'[Idx(pos[t])] # 0

(* BlockedInv depends on nothing else. *)
LEMMA BlockedFrame ==
  ASSUME BlockedInv, UNCHANGED consumer_pos, NotifyAhead => NotifyAhead',
         \A t \in Clients : StillBlocked(t)
  PROVE  BlockedInv'
  BY DEF BlockedInv, StillBlocked

(* Nobody sleeps on a condition that already holds unless a broadcast is ahead. *)
LEMMA BlockedStep ==
  TypeOK /\ RingInv /\ WaitersInv /\ BlockedInv /\ [Next]_vars => BlockedInv'
  <1>. SUFFICES ASSUME TypeOK, RingInv, WaitersInv, BlockedInv, [Next]_vars
                PROVE  BlockedInv'
    OBVIOUS
  <1>. USE ConsumerAssumption DEF TypeOK, WaitersInv, NotifyAhead, HasReadySlot, LockedPC, FinalPC,
               StillBlocked, ringVars, rtVars, clVars, coVars
  <1>1. ASSUME NEW t \in Clients, LogCall(t)
        PROVE  BlockedInv'
    <2>1. NotifyAhead => NotifyAhead'
      BY <1>1 DEF LogCall, RingInv
    <2>. QED
      BY <1>1, <2>1, BlockedFrame DEF LogCall, Goto
  <1>2. ASSUME NEW t \in Clients, FlushCall(t)
        PROVE  BlockedInv'
    BY <1>2, BlockedFrame DEF FlushCall, Goto, Return
  <1>3. ASSUME NEW t \in Clients, Drop(t)
        PROVE  BlockedInv'
    BY <1>3, BlockedFrame DEF Drop, Goto, Return
  <1>4. ASSUME NEW t \in Clients, Reserve(t)
        PROVE  BlockedInv'
    <2>1. write_pos \in Nat /\ consumer_pos \in Nat /\ write_pos' = write_pos + 1
      BY <1>4 DEF Reserve
    <2>2. UNCHANGED <<consumer_pos, state, cpc, drained, waiters>>
      BY <1>4 DEF Reserve
    <2>3. NotifyAhead => NotifyAhead'
      BY <2>1, <2>2
    <2>4. \A q \in Clients : StillBlocked(q)
      BY <1>4, <2>2 DEF Reserve, Goto
    <2>. QED
      BY <2>2, <2>3, <2>4, BlockedFrame
  <1>5. ASSUME NEW t \in Clients, SlotFree(t)
        PROVE  BlockedInv'
    BY <1>5, BlockedFrame DEF SlotFree, Goto, Return
  <1>6. ASSUME NEW t \in Clients, SpinOut(t)
        PROVE  BlockedInv'
    BY <1>6, BlockedFrame DEF SpinOut, Goto, Return
  <1>7. ASSUME NEW t \in Clients, BlockOnSlot(t)
        PROVE  BlockedInv'
    <2>1. UNCHANGED <<consumer_pos, state, write_pos, pos, reg, cpc, drained>>
      BY <1>7 DEF BlockOnSlot, Goto
    <2>2. NotifyAhead' <=> NotifyAhead
      BY <2>1
    <2>3. CASE state[Idx(pos[t])] # 0 /\ ~stop_requested
      <3>1. waiters' = waiters \cup {t} /\ pc' = [pc EXCEPT ![t] = "pwait"]
        BY <1>7, <2>3 DEF BlockOnSlot, Goto
      <3>2. pc'[t] = "pwait" /\ \A q \in Clients \ {t} : pc'[q] = pc[q]
        BY <3>1
      <3>. HIDE DEF NotifyAhead
      <3>. QED
        BY <2>1, <2>2, <2>3, <3>1, <3>2 DEF BlockedInv
    <2>4. CASE ~(state[Idx(pos[t])] # 0 /\ ~stop_requested)
      <3>1. t \notin waiters /\ UNCHANGED waiters /\ pc' = [pc EXCEPT ![t] = "spin"]
        BY <1>7, <2>4 DEF BlockOnSlot, Goto
      <3>. QED
        BY <2>1, <2>2, <3>1, BlockedFrame
    <2>. QED
      BY <2>3, <2>4
  <1>8. ASSUME NEW t \in Clients, WriteSlot(t)
        PROVE  BlockedInv'
    BY <1>8, BlockedFrame DEF WriteSlot, Goto, Return
  <1>9. ASSUME NEW t \in Clients, CommitSlot(t)
        PROVE  BlockedInv'
    BY <1>9, BlockedFrame DEF CommitSlot, Goto, Return
  <1>10. ASSUME NEW t \in Clients, PublishSeq(t)
        PROVE  BlockedInv'
    BY <1>10, BlockedFrame DEF PublishSeq, Goto, Return
  <1>11. ASSUME NEW t \in Clients, AdvanceLoad(t)
        PROVE  BlockedInv'
    BY <1>11, BlockedFrame DEF AdvanceLoad, Goto, Return
  <1>12. ASSUME NEW t \in Clients, AdvanceCheck(t)
        PROVE  BlockedInv'
    BY <1>12, BlockedFrame DEF AdvanceCheck, Goto, Return
  <1>13. ASSUME NEW t \in Clients, AdvanceCas(t)
        PROVE  BlockedInv'
    BY <1>13, BlockedFrame DEF AdvanceCas, Goto, Return
  <1>14. ASSUME NEW t \in Clients, SignalTest(t)
        PROVE  BlockedInv'
    BY <1>14, BlockedFrame DEF SignalTest, Goto, Return
  <1>15. ASSUME NEW t \in Clients, SignalConsumer(t)
        PROVE  BlockedInv'
    BY <1>15, BlockedFrame DEF SignalConsumer, Goto, Return, Signal
  <1>16. ASSUME NEW t \in Clients, FlushDone(t)
        PROVE  BlockedInv'
    BY <1>16, BlockedFrame DEF FlushDone, Goto, Return
  <1>17. ASSUME NEW t \in Clients, FlushBlock(t)
        PROVE  BlockedInv'
    <2>1. UNCHANGED <<consumer_pos, state, write_pos, pos, cpc, drained>>
      BY <1>17 DEF FlushBlock
    <2>2. NotifyAhead' <=> NotifyAhead
      BY <2>1
    <2>3. \A q \in Clients \ {t} : pc'[q] = pc[q] /\ reg'[q] = reg[q] /\ (q \in waiters' => q \in waiters)
      BY <1>17 DEF FlushBlock, Goto, Return
    <2>4. t \in waiters' => pc'[t] = "fwait" /\ reg'[t] = reg[t] /\ consumer_pos < reg[t]
      BY <1>17 DEF FlushBlock, Goto
    <2>. HIDE DEF NotifyAhead
    <2>. QED
      BY <2>1, <2>2, <2>3, <2>4 DEF BlockedInv
  <1>18. ASSUME NEW t \in Clients, FlushWake(t)
        PROVE  BlockedInv'
    <2>1. UNCHANGED <<consumer_pos, state, write_pos, pos, cpc, drained>>
      BY <1>18 DEF FlushWake
    <2>2. NotifyAhead' <=> NotifyAhead
      BY <2>1
    <2>3. \A q \in Clients \ {t} : pc'[q] = pc[q] /\ reg'[q] = reg[q] /\ (q \in waiters' => q \in waiters)
      BY <1>18 DEF FlushWake, Return
    <2>4. t \in waiters' => pc'[t] = "fwait" /\ reg'[t] = reg[t] /\ consumer_pos < reg[t]
      BY <1>18 DEF FlushWake
    <2>. HIDE DEF NotifyAhead
    <2>. QED
      BY <2>1, <2>2, <2>3, <2>4 DEF BlockedInv
  <1>19. CASE ConsumerLock
    BY <1>19, BlockedFrame DEF ConsumerLock
  <1>20. CASE ConsumerTop
    BY <1>20, BlockedFrame DEF ConsumerTop
  <1>21. CASE ConsumerMark
    BY <1>21, BlockedFrame DEF ConsumerMark
  <1>22. CASE ConsumerRecheck
    BY <1>22, BlockedFrame DEF ConsumerRecheck
  <1>23. CASE ConsumerWake
    BY <1>23, BlockedFrame DEF ConsumerWake
  <1>24. CASE ConsumerLeave
    BY <1>24, BlockedFrame DEF ConsumerLeave
  <1>25. CASE ConsumerEmit
    BY <1>25, BlockedFrame DEF ConsumerEmit
  <1>26. CASE ConsumerRelease
    BY <1>26, BlockedFrame DEF ConsumerRelease, Signal
  <1>27. CASE ConsumerFree
    BY <1>27 DEF ConsumerFree, BlockedInv
  <1>28. CASE ConsumerBump
    BY <1>28 DEF ConsumerBump, BlockedInv
  <1>29. CASE ConsumerStopDrain
    BY <1>29, BlockedFrame DEF ConsumerStopDrain
  <1>30. CASE ConsumerRetry
    BY <1>30, BlockedFrame DEF ConsumerRetry
  <1>31. CASE ConsumerNotify
    BY <1>31 DEF ConsumerNotify, Broadcast, BlockedInv
  <1>32. CASE Unblock
    BY <1>32, BlockedFrame DEF Unblock
  <1>33. CASE StopRequest
    BY <1>33, BlockedFrame DEF StopRequest, Broadcast
  <1>34. CASE StopJoin
    BY <1>34, BlockedFrame DEF StopJoin
  <1>35. CASE UNCHANGED vars
    BY <1>35, BlockedFrame DEF vars
  <1>. QED
    BY <1>1, <1>2, <1>3, <1>4, <1>5, <1>6, <1>7, <1>8, <1>9, <1>10, <1>11,
       <1>12, <1>13, <1>14, <1>15, <1>16, <1>17, <1>18, <1>19, <1>20, <1>21,
       <1>22, <1>23, <1>24, <1>25, <1>26, <1>27, <1>28, <1>29, <1>30, <1>31,
       <1>32, <1>33, <1>34, <1>35
       DEF Next, Enqueue, Flush, ConsumerStep

(* Whether a flush waits, or is about to wait again. *)
FlushWaits(t) == pc[t] = "fwait" /\ (t \in waiters \/ consumer_pos < reg[t])

(* What a step that gives a sleeping consumer no new work, starts no waiting  *)
(* flush and ends no signal or parking leaves alone.                          *)
SleepSame ==
  /\ lapped => lapped'
  /\ Consumer \in waiters' => Consumer \in waiters
  /\ Consumer \in waiters' => (HasReadySlot' => HasReadySlot)
  /\ \A t \in Clients : pc[t] \in SignalPC => pc'[t] \in SignalPC
  /\ \A p \in Clients : Parked(p) => Parked(p)'
  /\ \A t \in Clients : FlushWaits(t)' => FlushWaits(t)

(* SleepInv depends on nothing else. *)
LEMMA SleepFrame ==
  ASSUME SleepInv, SleepSame
  PROVE  SleepInv'
  BY DEF SleepInv, SleepSame, SignalAhead, FlushWaits

(* The client a signal wakes in the place of a sleeping consumer leaves a     *)
(* producer parked behind.                                                    *)
LEMMA WrongWake ==
  ASSUME TypeOK, WaitersInv, BlockedInv, SleepInv, ~lapped, Consumer \in waiters,
         NEW w \in waiters, w # Consumer
  PROVE  \E p \in Clients : Parked(p)
  <1>1. w \in Clients /\ pc[w] \in {"pwait", "fwait"} /\ cpc = "wait"
    BY DEF TypeOK, WaitersInv
  <1>2. ~NotifyAhead
    BY <1>1 DEF NotifyAhead, LockedPC, FinalPC
  <1>3. CASE pc[w] = "pwait"
    BY <1>1, <1>2, <1>3 DEF BlockedInv, Parked
  <1>4. CASE pc[w] = "fwait"
    BY <1>1, <1>4 DEF SleepInv
  <1>. QED
    BY <1>1, <1>3, <1>4

(* A reservation gives a sleeping consumer nothing to do: no committed slot   *)
(* lies at or above the end of the ring.                                      *)
LEMMA ReserveNotReady ==
  ASSUME TypeOK, RingInv, ~lapped, cpc = "wait", state[Idx(consumer_pos)] = 1
  PROVE  consumer_pos < write_pos
  <1>1. Oldest = consumer_pos /\ consumer_pos \in Nat /\ write_pos \in Nat
    BY DEF Oldest, TypeOK
  <1>2. PICK c \in Oldest..write_pos-1 : Idx(c) = Idx(consumer_pos)
    BY <1>1, IdxRange DEF RingInv, SlotInv
  <1>. QED
    BY <1>1, <1>2

(* The sleep handshake: while the consumer sleeps with work to do, a signal   *)
(* is ahead or a producer is parked; while it sleeps and a flush waits, a     *)
(* producer is parked.                                                        *)
LEMMA SleepStep ==
  TypeOK /\ RingInv /\ PublishInv /\ WaitersInv /\ BlockedInv /\ SleepInv /\ [Next]_vars => SleepInv'
  <1>. SUFFICES ASSUME TypeOK, RingInv, PublishInv, WaitersInv, BlockedInv, SleepInv, [Next]_vars
                PROVE  SleepInv'
    OBVIOUS
  <1>0. \A t \in Clients : t # Consumer
    BY ConsumerAssumption
  <1>. USE <1>0 DEF TypeOK, WaitersInv, SleepSame, HasReadySlot, SignalPC, Parked, FlushWaits,
               ringVars, rtVars, clVars, coVars, histVars
  <1>1. ASSUME NEW t \in Clients, LogCall(t)
        PROVE  SleepInv'
    BY <1>1, SleepFrame DEF LogCall, Goto, Return
  <1>2. ASSUME NEW t \in Clients, FlushCall(t)
        PROVE  SleepInv'
    BY <1>2, SleepFrame DEF FlushCall, Goto, Return
  <1>3. ASSUME NEW t \in Clients, Drop(t)
        PROVE  SleepInv'
    BY <1>3, SleepFrame DEF Drop, Goto, Return
  <1>4. ASSUME NEW t \in Clients, Reserve(t)
        PROVE  SleepInv'
    <2>. SUFFICES ASSUME ~lapped', Consumer \in waiters'
                  PROVE  SleepInv'
      BY DEF SleepInv
    <2>1. /\ UNCHANGED <<state, consumer_pos, waiters, reg, cpc>>
          /\ pc[t] = "enq" /\ pc' = [pc EXCEPT ![t] = "spin"]
          /\ pos' = [pos EXCEPT ![t] = write_pos]
          /\ ~lapped /\ cpc = "wait"
      BY <1>4 DEF Reserve, Goto
    <2>2. HasReadySlot' => HasReadySlot
      BY <2>1, ReserveNotReady
    <2>3. /\ \A q \in Clients : pc[q] \in SignalPC => pc'[q] \in SignalPC
          /\ \A q \in Clients : Parked(q) => Parked(q)'
          /\ \A q \in Clients : FlushWaits(q)' => FlushWaits(q)
      BY <2>1
    <2>. QED
      BY <2>1, <2>2, <2>3, SleepFrame
  <1>5. ASSUME NEW t \in Clients, SlotFree(t)
        PROVE  SleepInv'
    BY <1>5, SleepFrame DEF SlotFree, Goto, Return
  <1>6. ASSUME NEW t \in Clients, SpinOut(t)
        PROVE  SleepInv'
    BY <1>6, SleepFrame DEF SpinOut, Goto, Return
  <1>7. ASSUME NEW t \in Clients, BlockOnSlot(t)
        PROVE  SleepInv'
    <2>. SUFFICES ASSUME Consumer \in waiters'
                  PROVE  SleepInv'
      BY DEF SleepInv
    <2>1. /\ UNCHANGED <<state, write_pos, consumer_pos, stop_requested, pos, reg, lapped>>
          /\ waiters' \in {waiters, waiters \cup {t}} /\ pc[t] \in {"plock", "pwait"}
          /\ pc'[t] \in {"pwait", "spin"} /\ \A q \in Clients \ {t} : pc'[q] = pc[q]
      BY <1>7 DEF BlockOnSlot, Goto
    <2>2. Consumer \in waiters /\ ~stop_requested
      BY <2>1
    <2>3. Parked(t) => Parked(t)'
      <3>1. SUFFICES ASSUME Parked(t)
                     PROVE  pc'[t] = "pwait"
        BY <2>1
      <3>. QED
        BY <1>7, <2>2, <3>1 DEF BlockOnSlot, Goto
    <2>. QED
      BY <2>1, <2>2, <2>3, SleepFrame
  <1>8. ASSUME NEW t \in Clients, WriteSlot(t)
        PROVE  SleepInv'
    BY <1>8, SleepFrame DEF WriteSlot, Goto, Return
  <1>9. ASSUME NEW t \in Clients, CommitSlot(t)
        PROVE  SleepInv'
    <2>1. /\ UNCHANGED <<write_pos, consumer_pos, waiters, pos, reg, lapped>>
          /\ pc'[t] = "publish" /\ \A q \in Clients \ {t} : pc'[q] = pc[q]
          /\ pc[t] = "commit"
      BY <1>9 DEF CommitSlot, Goto
    <2>2. SignalAhead'
      BY <2>1 DEF SignalAhead
    <2>3. \A i \in 0..Slots-1 : state[i] # 0 => state'[i] # 0
      BY <1>9 DEF CommitSlot
    <2>4. \A p \in Clients : pc[p] = "pwait" => Idx(pos[p]) \in 0..Slots-1
      <3>1. \A p \in Clients : pc[p] = "pwait" => pos[p] \in Nat
        BY DEF Uncommitted, UncommittedPC, NoPos
      <3>. QED
        BY <3>1, IdxRange
    <2>5. \A p \in Clients : Parked(p) => Parked(p)'
      BY <2>1, <2>3, <2>4
    <2>6. \A q \in Clients : FlushWaits(q)' => FlushWaits(q)
      BY <2>1
    <2>. QED
      BY <2>1, <2>2, <2>5, <2>6 DEF SleepInv
  <1>10. ASSUME NEW t \in Clients, PublishSeq(t)
        PROVE  SleepInv'
    BY <1>10, SleepFrame DEF PublishSeq, Goto, Return
  <1>11. ASSUME NEW t \in Clients, AdvanceLoad(t)
        PROVE  SleepInv'
    BY <1>11, SleepFrame DEF AdvanceLoad, Goto, Return
  <1>12. ASSUME NEW t \in Clients, AdvanceCheck(t)
        PROVE  SleepInv'
    BY <1>12, SleepFrame DEF AdvanceCheck, Goto, Return
  <1>13. ASSUME NEW t \in Clients, AdvanceCas(t)
        PROVE  SleepInv'
    BY <1>13, SleepFrame DEF AdvanceCas, Goto, Return
  <1>14. ASSUME NEW t \in Clients, SignalTest(t)
        PROVE  SleepInv'
    <2>. SUFFICES ASSUME Consumer \in waiters'
                  PROVE  SleepInv'
      BY DEF SleepInv
    <2>1. Goto(t, "siglock")
      BY <1>14 DEF SignalTest
    <2>. QED
      BY <1>14, <2>1, SleepFrame DEF SignalTest, Goto
  <1>15. ASSUME NEW t \in Clients, SignalConsumer(t)
        PROVE  SleepInv'
    <2>. SUFFICES ASSUME ~lapped', Consumer \in waiters'
                  PROVE  \E p \in Clients : Parked(p)'
      BY DEF SleepInv
    <2>1. ~lapped /\ Consumer \in waiters /\ consumer_sleeping
      BY <1>15 DEF SignalConsumer, Signal
    <2>2. PICK w \in waiters : waiters' = waiters \ {w}
      BY <1>15, <2>1 DEF SignalConsumer, Signal
    <2>3. \E p \in Clients : Parked(p)
      BY <2>1, <2>2, WrongWake
    <2>. QED
      BY <1>15, <2>3 DEF SignalConsumer, Return
  <1>16. ASSUME NEW t \in Clients, FlushDone(t)
        PROVE  SleepInv'
    BY <1>16, SleepFrame DEF FlushDone, Goto, Return
  <1>17. ASSUME NEW t \in Clients, FlushBlock(t)
        PROVE  SleepInv'
    <2>. SUFFICES ASSUME ~lapped', Consumer \in waiters'
                  PROVE  \E p \in Clients : Parked(p)'
      BY DEF SleepInv
    <2>1. ~lapped /\ Consumer \in waiters /\ consumer_sleeping
      BY <1>17 DEF FlushBlock
    <2>2. PICK w \in waiters : waiters' \in {waiters \ {w}, (waiters \ {w}) \cup {t}}
      BY <1>17, <2>1 DEF FlushBlock
    <2>3. \E p \in Clients : Parked(p)
      BY <2>1, <2>2, WrongWake
    <2>4. \A q \in Clients \ {t} : pc'[q] = pc[q]
      BY <1>17 DEF FlushBlock, Goto, Return
    <2>. QED
      BY <1>17, <2>3, <2>4 DEF FlushBlock
  <1>18. ASSUME NEW t \in Clients, FlushWake(t)
        PROVE  SleepInv'
    BY <1>18, SleepFrame DEF FlushWake, Goto, Return
  <1>19. CASE ConsumerLock
    BY <1>19, SleepFrame DEF ConsumerLock
  <1>20. CASE ConsumerTop
    BY <1>20, SleepFrame DEF ConsumerTop
  <1>21. CASE ConsumerMark
    BY <1>21, SleepFrame DEF ConsumerMark
  <1>22. CASE ConsumerRecheck
    <2>1. CASE HasReadySlot \/ stop_requested
      BY <1>22, <2>1 DEF ConsumerRecheck, SleepInv
    <2>2. CASE ~(HasReadySlot \/ stop_requested)
      <3>. SUFFICES ASSUME ~lapped
                    PROVE  ~HasReadySlot' /\ \A t \in Clients : ~FlushWaits(t)'
        BY <1>22 DEF ConsumerRecheck, SleepInv
      <3>1. cpc = "recheck" /\ ~HasReadySlot /\ ~NotifyAhead
        BY <1>22, <2>2 DEF ConsumerRecheck, NotifyAhead, LockedPC, FinalPC
      <3>2. ASSUME NEW t \in Clients
            PROVE  ~FlushWaits(t)
        <4>1. consumer_pos >= committed_pos
          BY <3>1, CountedIsReady
        <4>. QED
          BY <3>1, <4>1 DEF BlockedInv
      <3>. QED
        BY <1>22, <2>2, <3>1, <3>2 DEF ConsumerRecheck
    <2>. QED
      BY <2>1, <2>2
  <1>23. CASE ConsumerWake
    BY <1>23, SleepFrame DEF ConsumerWake
  <1>24. CASE ConsumerLeave
    BY <1>24, SleepFrame DEF ConsumerLeave
  <1>25. CASE ConsumerEmit
    BY <1>25, SleepFrame DEF ConsumerEmit
  <1>26. CASE ConsumerRelease
    BY <1>26, SleepFrame DEF ConsumerRelease, Signal
  <1>27. CASE ConsumerFree
    BY <1>27 DEF ConsumerFree, SleepInv
  <1>28. CASE ConsumerBump
    BY <1>28, SleepFrame DEF ConsumerBump
  <1>29. CASE ConsumerStopDrain
    BY <1>29, SleepFrame DEF ConsumerStopDrain
  <1>30. CASE ConsumerRetry
    BY <1>30, SleepFrame DEF ConsumerRetry
  <1>31. CASE ConsumerNotify
    BY <1>31, SleepFrame DEF ConsumerNotify, Broadcast
  <1>32. CASE Unblock
    BY <1>32, SleepFrame DEF Unblock
  <1>33. CASE StopRequest
    BY <1>33, SleepFrame DEF StopRequest, Broadcast
  <1>34. CASE StopJoin
    BY <1>34, SleepFrame DEF StopJoin
  <1>35. CASE UNCHANGED vars
    BY <1>35, SleepFrame DEF vars
  <1>. QED
    BY <1>1, <1>2, <1>3, <1>4, <1>5, <1>6, <1>7, <1>8, <1>9, <1>10, <1>11,
       <1>12, <1>13, <1>14, <1>15, <1>16, <1>17, <1>18, <1>19, <1>20, <1>21,
       <1>22, <1>23, <1>24, <1>25, <1>26, <1>27, <1>28, <1>29, <1>30, <1>31,
       <1>32, <1>33, <1>34, <1>35
       DEF Next, Enqueue, Flush, ConsumerStep

(* For any clients and ring: the sleep handshake of the consumer loses no     *)
(* wake-up as long as no reservation is lapped and no producer is parked.     *)
THEOREM WakeupsKept == Spec => []NoLostWakeup
  <1>. DEFINE WakeInv == WaitersInv /\ BlockedInv /\ SleepInv
  <1>1. Init => WakeInv
    BY DEF Init, WaitersInv, LockedPC, BlockedInv, SleepInv
  <1>2. TypeOK /\ RingInv /\ PubInv /\ WakeInv /\ [Next]_vars => WakeInv'
    BY WaitersStep, BlockedStep, SleepStep DEF PubInv
  <1>3. WakeInv => NoLostWakeup
    BY DEF SleepInv, NoLostWakeup, NoneParked, Parked
  <1>. QED
    BY <1>1, <1>2, <1>3, TypeCorrect, RingAlways, PubAlways, PTL DEF Spec

=============================================================================
