--------------------------- MODULE Events_proofs ---------------------------
(***************************************************************************)
(* Proofs about the two kinds of event, for any number of waiters and      *)
(* signallers: both implement the abstract Event, and neither leaves a     *)
(* waiter asleep beside an event that is set.                              *)
(***************************************************************************)
EXTENDS Events, FiniteSetTheorems, TLAPS

----------------------------------------------------------------------------
(* AtomicEvent. *)

(* Who returns is registered no longer, and his call has an outcome. *)
LEMMA ReturnsTyped ==
  ASSUME TypeOK, NEW w \in Waiters, NEW how \in {"through", "timeout"}, Returns(w, how)
  PROVE  /\ waiter' \in [Waiters -> [pc : WaiterPC, timed : BOOLEAN, expected : Nat, calls : Nat]]
         /\ outcome' \in [Waiters -> {"none", "waiting", "through", "timeout"}]
         /\ waiter'[w].pc = "out" /\ outcome'[w] = how
         /\ \A v \in Waiters \ {w} : waiter'[v] = waiter[v] /\ outcome'[v] = outcome[v]
  BY DEF TypeOK, Returns, WaiterPC

(* Who goes on is still in his call. *)
LEMMA GotoTyped ==
  ASSUME TypeOK, NEW w \in Waiters, NEW pc \in WaiterPC, Goto(w, pc)
  PROVE  /\ waiter' \in [Waiters -> [pc : WaiterPC, timed : BOOLEAN, expected : Nat, calls : Nat]]
         /\ waiter'[w].pc = pc
         /\ \A v \in Waiters \ {w} : waiter'[v] = waiter[v]
  BY DEF TypeOK, Goto

(* The count of waiters, when one joins or leaves them. *)
LEMMA Counting ==
  ASSUME IsFiniteSet(Waiters), TypeOK, word.count = Cardinality(Registered),
         NEW w \in Waiters,
         \A v \in Waiters \ {w} : (v \in Registered)' <=> v \in Registered
  PROVE  /\ w \in Registered => word.count > 0
         /\ word.count \in Nat
         /\ (w \in Registered)' /\ w \in Registered => Cardinality(Registered') = word.count
         /\ ~(w \in Registered)' /\ w \notin Registered => Cardinality(Registered') = word.count
         /\ (w \in Registered)' /\ w \notin Registered => Cardinality(Registered') = word.count + 1
         /\ ~(w \in Registered)' /\ w \in Registered => Cardinality(Registered') = word.count - 1
  <1>1. Registered \subseteq Waiters /\ Registered' \subseteq Waiters
    BY DEF Registered
  <1>2. IsFiniteSet(Registered) /\ IsFiniteSet(Registered')
    BY <1>1, FS_Subset
  <1>3. /\ (w \in Registered)' /\ w \in Registered => Registered' = Registered
        /\ ~(w \in Registered)' /\ w \notin Registered => Registered' = Registered
        /\ (w \in Registered)' /\ w \notin Registered => Registered' = Registered \cup {w}
        /\ ~(w \in Registered)' /\ w \in Registered => Registered' = Registered \ {w}
    BY <1>1
  <1>4. w \notin Registered => Cardinality(Registered \cup {w}) = Cardinality(Registered) + 1
    BY <1>2, FS_AddElement
  <1>5. w \in Registered => Cardinality(Registered \ {w}) = Cardinality(Registered) - 1
    BY <1>2, FS_RemoveElement
  <1>6. w \in Registered => Cardinality(Registered) # 0
    BY <1>2, FS_EmptySet
  <1>7. Cardinality(Registered) \in Nat
    BY <1>2, FS_CardinalityType
  <1>8. /\ w \in Registered => word.count > 0
        /\ word.count \in Nat
    BY <1>6, <1>7
  <1>9. /\ (w \in Registered)' /\ w \in Registered => Cardinality(Registered') = word.count
        /\ ~(w \in Registered)' /\ w \notin Registered => Cardinality(Registered') = word.count
    BY <1>3
  <1>10. (w \in Registered)' /\ w \notin Registered => Cardinality(Registered') = word.count + 1
    BY <1>3, <1>4
  <1>11. ~(w \in Registered)' /\ w \in Registered => Cardinality(Registered') = word.count - 1
    BY <1>3, <1>5
  <1>. QED
    BY <1>8, <1>9, <1>10, <1>11

LEMMA AtomicInit ==
  ASSUME Init
  PROVE  TypeOK /\ AtomicInv /\ TokenNotMissed
  <1>1. TypeOK
    BY DEF Init, TypeOK, WaiterPC
  <1>2. Registered = {} /\ Parked = {}
    BY DEF Init, Registered, Parked, At
  <1>3. Cardinality({}) = 0
    BY FS_EmptySet
  <1>. QED
    BY <1>1, <1>2, <1>3 DEF Init, AtomicInv, TokenNotMissed

(* A step of a waiter that neither parks nor leaves a set event disturbs no    *)
(* wake-up; one that does not change the word, or clears its token, neither.   *)
LEMMA WakeFrame ==
  ASSUME TypeOK, AtomicInv, TokenNotMissed, NEW w \in Waiters, UNCHANGED signaller,
         \A v \in Waiters \ {w} : waiter'[v] = waiter[v],
         word'.broadcast = word.broadcast,
         word'.signalled => word.signalled,
         waiter'[w].pc = "parked" => waiter[w].pc = "parked" \/ ~(word.signalled \/ word.broadcast),
         word'.signalled /\ ~word.broadcast /\ waiter[w].pc \in {"check", "woken"} =>
           waiter'[w].pc \in {"check", "woken"}
  PROVE  /\ word'.broadcast /\ Parked' # {} => (\E s \in Signallers : signaller[s].pc = "wake" /\ signaller[s].wake = 2)'
         /\ TokenNotMissed'
  <1>1. ASSUME word'.signalled \/ word'.broadcast, Parked' # {}
        PROVE  Parked # {}
    <2>1. PICK v \in Waiters : waiter'[v].pc = "parked"
      BY <1>1 DEF Parked, At
    <2>2. waiter[v].pc = "parked"
      BY <1>1, <2>1
    <2>. QED
      BY <2>2 DEF Parked, At
  <1>2. ASSUME word'.broadcast, Parked' # {}
        PROVE  \E s \in Signallers : signaller'[s].pc = "wake" /\ signaller'[s].wake = 2
    BY <1>1, <1>2 DEF AtomicInv
  <1>3. ASSUME word'.signalled, ~word'.broadcast, Parked' # {}
        PROVE  \/ \E s \in Signallers : signaller'[s].pc = "wake"
               \/ \E v \in Waiters : waiter'[v].pc \in {"check", "woken"}
    <2>1. \/ \E s \in Signallers : signaller[s].pc = "wake"
          \/ \E v \in Waiters : waiter[v].pc \in {"check", "woken"}
      BY <1>1, <1>3 DEF TokenNotMissed
    <2>2. ASSUME NEW v \in Waiters, waiter[v].pc \in {"check", "woken"}
          PROVE  waiter'[v].pc \in {"check", "woken"}
      BY <1>3, <2>2
    <2>. QED
      BY <2>1, <2>2
  <1>. QED
    BY <1>2, <1>3 DEF TokenNotMissed

LEMMA WaiterStep ==
  ASSUME IsFiniteSet(Waiters), TypeOK, AtomicInv, TokenNotMissed, NEW w \in Waiters,
         \/ \E timed \in BOOLEAN : Wait(w, timed)
         \/ CheckWord(w) \/ SpinSeesToken(w) \/ Register(w) \/ Park(w)
         \/ Interrupted(w) \/ Expired(w) \/ Unregister(w)
  PROVE  TypeOK' /\ AtomicInv' /\ TokenNotMissed'
  <1>. DEFINE In(v) == waiter[v].pc \in {"park", "parked", "woken", "expired"}
  <1>0. /\ word.count = Cardinality(Registered) /\ word.count \in Nat
        /\ word.signalled \in BOOLEAN /\ word.broadcast \in BOOLEAN
        /\ waiter[w].pc \in WaiterPC
    BY DEF AtomicInv, TypeOK
  <1>a. ASSUME \A v \in Waiters \ {w} : waiter'[v] = waiter[v],
               word' \in [signalled : BOOLEAN, broadcast : BOOLEAN, count : Int],
               word'.count = IF In(w)' THEN IF In(w) THEN word.count ELSE word.count + 1
                                       ELSE IF In(w) THEN word.count - 1 ELSE word.count
        PROVE  /\ word'.count = Cardinality(Registered')
               /\ word' \in [signalled : BOOLEAN, broadcast : BOOLEAN, count : Nat]
    <2>1. \A v \in Waiters \ {w} : (v \in Registered)' <=> v \in Registered
      BY <1>a DEF Registered
    <2>2. (w \in Registered <=> In(w)) /\ ((w \in Registered)' <=> In(w)')
      BY DEF Registered
    <2>. HIDE DEF In
    <2>3. /\ In(w) => word.count > 0
          /\ In(w)' /\ In(w) => Cardinality(Registered') = word.count
          /\ ~In(w)' /\ ~In(w) => Cardinality(Registered') = word.count
          /\ In(w)' /\ ~In(w) => Cardinality(Registered') = word.count + 1
          /\ ~In(w)' /\ In(w) => Cardinality(Registered') = word.count - 1
      BY <1>0, <2>1, <2>2, Counting
    <2>4. word'.count = Cardinality(Registered')
      BY <1>0, <1>a, <2>3
    <2>5. word'.count \in Nat
      BY <1>0, <1>a, <2>3
    <2>. QED
      BY <1>a, <2>4, <2>5
  <1>1. ASSUME NEW timed \in BOOLEAN, Wait(w, timed)
        PROVE  TypeOK' /\ AtomicInv' /\ TokenNotMissed'
    <2>1. /\ waiter' \in [Waiters -> [pc : WaiterPC, timed : BOOLEAN, expected : Nat, calls : Nat]]
          /\ waiter'[w].pc = "check" /\ waiter[w].pc = "out"
          /\ \A v \in Waiters \ {w} : waiter'[v] = waiter[v]
      BY <1>1 DEF Wait, At, TypeOK, WaiterPC
    <2>2. /\ outcome' \in [Waiters -> {"none", "waiting", "through", "timeout"}]
          /\ outcome'[w] = "waiting"
          /\ \A v \in Waiters \ {w} : outcome'[v] = outcome[v]
          /\ UNCHANGED <<word, signaller>>
      BY <1>1 DEF Wait, TypeOK
    <2>3. word' \in [signalled : BOOLEAN, broadcast : BOOLEAN, count : Int]
      BY <2>2 DEF TypeOK
    <2>4. word'.count = Cardinality(Registered') /\ word' \in [signalled : BOOLEAN, broadcast : BOOLEAN, count : Nat]
      BY <1>a, <2>1, <2>2, <2>3
    <2>5. TypeOK'
      BY <2>1, <2>2, <2>4 DEF TypeOK
    <2>6. /\ word'.broadcast /\ Parked' # {} => (\E s \in Signallers : signaller[s].pc = "wake" /\ signaller[s].wake = 2)'
          /\ TokenNotMissed'
      BY <2>1, <2>2, WakeFrame
    <2>. QED
      BY <2>1, <2>2, <2>4, <2>5, <2>6 DEF AtomicInv
  <1>b. ASSUME NEW l \in WaiterPC \ {"out"}, Goto(w, l), UNCHANGED <<signaller, outcome>>, waiter[w].pc # "out",
               word' \in [signalled : BOOLEAN, broadcast : BOOLEAN, count : Int],
               word'.count = IF In(w)' THEN IF In(w) THEN word.count ELSE word.count + 1
                                       ELSE IF In(w) THEN word.count - 1 ELSE word.count,
               word'.broadcast = word.broadcast, word'.signalled = word.signalled,
               l = "parked" => ~(word.signalled \/ word.broadcast),
               word.signalled /\ ~word.broadcast /\ waiter[w].pc \in {"check", "woken"} => l \in {"check", "woken"}
        PROVE  TypeOK' /\ AtomicInv' /\ TokenNotMissed'
    <2>1. /\ waiter' \in [Waiters -> [pc : WaiterPC, timed : BOOLEAN, expected : Nat, calls : Nat]]
          /\ waiter'[w].pc = l
          /\ \A v \in Waiters \ {w} : waiter'[v] = waiter[v]
      BY <1>b, GotoTyped
    <2>2. word'.count = Cardinality(Registered') /\ word' \in [signalled : BOOLEAN, broadcast : BOOLEAN, count : Nat]
      BY <1>a, <1>b, <2>1
    <2>3. TypeOK'
      BY <1>b, <2>1, <2>2 DEF TypeOK
    <2>4. /\ word'.broadcast /\ Parked' # {} => (\E s \in Signallers : signaller[s].pc = "wake" /\ signaller[s].wake = 2)'
          /\ TokenNotMissed'
      BY <1>b, <2>1, WakeFrame
    <2>. QED
      BY <1>b, <2>1, <2>2, <2>3, <2>4 DEF AtomicInv
  <1>c. ASSUME NEW how \in {"through", "timeout"}, Returns(w, how), UNCHANGED signaller, waiter[w].pc # "out",
               word' \in [signalled : BOOLEAN, broadcast : BOOLEAN, count : Int],
               word'.count = IF In(w) THEN word.count - 1 ELSE word.count,
               word'.broadcast = word.broadcast, word'.signalled => word.signalled,
               ~(word'.signalled /\ ~word.broadcast /\ waiter[w].pc \in {"check", "woken"})
        PROVE  TypeOK' /\ AtomicInv' /\ TokenNotMissed'
    <2>1. /\ waiter' \in [Waiters -> [pc : WaiterPC, timed : BOOLEAN, expected : Nat, calls : Nat]]
          /\ outcome' \in [Waiters -> {"none", "waiting", "through", "timeout"}]
          /\ waiter'[w].pc = "out" /\ outcome'[w] = how
          /\ \A v \in Waiters \ {w} : waiter'[v] = waiter[v] /\ outcome'[v] = outcome[v]
      BY <1>c, ReturnsTyped
    <2>2. word'.count = Cardinality(Registered') /\ word' \in [signalled : BOOLEAN, broadcast : BOOLEAN, count : Nat]
      BY <1>a, <1>c, <2>1
    <2>3. TypeOK'
      BY <1>c, <2>1, <2>2 DEF TypeOK
    <2>4. /\ word'.broadcast /\ Parked' # {} => (\E s \in Signallers : signaller[s].pc = "wake" /\ signaller[s].wake = 2)'
          /\ TokenNotMissed'
      BY <1>c, <2>1, WakeFrame
    <2>. QED
      BY <1>c, <2>1, <2>2, <2>3, <2>4 DEF AtomicInv
  <1>d. word \in [signalled : BOOLEAN, broadcast : BOOLEAN, count : Int]
    BY DEF TypeOK
  <1>2. ASSUME CheckWord(w)
        PROVE  TypeOK' /\ AtomicInv' /\ TokenNotMissed'
    <2>0. waiter[w].pc = "check" /\ UNCHANGED signaller
      BY <1>2 DEF CheckWord, At
    <2>1. CASE word.broadcast /\ Returns(w, "through") /\ UNCHANGED word
      BY <1>c, <1>d, <2>0, <2>1
    <2>2. CASE word.signalled /\ ~word.broadcast /\ word' = [word EXCEPT !.signalled = FALSE] /\ Returns(w, "through")
      BY <1>c, <1>d, <2>0, <2>2
    <2>3. CASE ~word.signalled /\ ~word.broadcast /\ Goto(w, "register") /\ UNCHANGED <<word, outcome>>
      <3>1. waiter'[w].pc = "register"
        BY <2>3, GotoTyped DEF WaiterPC
      <3>. QED
        BY <1>b, <1>d, <2>0, <2>3, <3>1 DEF WaiterPC
    <2>4. CASE ~word.signalled /\ ~word.broadcast /\ Returns(w, "timeout") /\ UNCHANGED word
      BY <1>c, <1>d, <2>0, <2>4
    <2>. QED
      BY <1>2, <2>1, <2>2, <2>3, <2>4 DEF CheckWord
  <1>3. ASSUME SpinSeesToken(w)
        PROVE  TypeOK' /\ AtomicInv' /\ TokenNotMissed'
    <2>1. waiter[w].pc = "register" /\ Goto(w, "check") /\ UNCHANGED <<word, signaller, outcome>>
      BY <1>3 DEF SpinSeesToken, At
    <2>2. waiter'[w].pc = "check"
      BY <2>1, GotoTyped DEF WaiterPC
    <2>. QED
      BY <1>b, <1>d, <2>1, <2>2 DEF WaiterPC
  <1>4. ASSUME Register(w)
        PROVE  TypeOK' /\ AtomicInv' /\ TokenNotMissed'
    <2>1. /\ waiter' \in [Waiters -> [pc : WaiterPC, timed : BOOLEAN, expected : Nat, calls : Nat]]
          /\ waiter'[w].pc = "park" /\ waiter[w].pc = "register"
          /\ \A v \in Waiters \ {w} : waiter'[v] = waiter[v]
      <3>. DEFINE n == word.count + 1
      <3>0. n \in Nat
        BY <1>0
      <3>1. waiter' = [waiter EXCEPT ![w] = [waiter[w] EXCEPT !.pc = "park", !.expected = n]]
        BY <1>4 DEF Register
      <3>. HIDE DEF n
      <3>2. waiter \in [Waiters -> [pc : WaiterPC, timed : BOOLEAN, expected : Nat, calls : Nat]]
        BY DEF TypeOK
      <3>3. [waiter[w] EXCEPT !.pc = "park", !.expected = n] \in [pc : WaiterPC, timed : BOOLEAN, expected : Nat, calls : Nat]
        BY <3>0, <3>2 DEF WaiterPC
      <3>4. waiter[w].pc = "register" /\ [waiter[w] EXCEPT !.pc = "park", !.expected = n].pc = "park"
        BY <1>4, <3>2 DEF Register, At
      <3>. QED
        BY <3>1, <3>2, <3>3, <3>4
    <2>2. /\ word' = [word EXCEPT !.count = @ + 1] /\ UNCHANGED <<signaller, outcome>>
      BY <1>4 DEF Register
    <2>3. /\ word' \in [signalled : BOOLEAN, broadcast : BOOLEAN, count : Int] /\ word'.count = word.count + 1
          /\ word'.signalled = word.signalled /\ word'.broadcast = word.broadcast
      BY <1>0, <1>d, <2>2
    <2>4. word'.count = Cardinality(Registered') /\ word' \in [signalled : BOOLEAN, broadcast : BOOLEAN, count : Nat]
      BY <1>a, <2>1, <2>3
    <2>5. TypeOK'
      BY <2>1, <2>2, <2>4 DEF TypeOK
    <2>6. /\ word'.broadcast /\ Parked' # {} => (\E s \in Signallers : signaller[s].pc = "wake" /\ signaller[s].wake = 2)'
          /\ TokenNotMissed'
      BY <2>1, <2>2, <2>3, WakeFrame
    <2>. QED
      BY <2>1, <2>2, <2>4, <2>5, <2>6 DEF AtomicInv
  <1>5. ASSUME Park(w) \/ Interrupted(w) \/ Expired(w)
        PROVE  TypeOK' /\ AtomicInv' /\ TokenNotMissed'
    <2>1. PICK l \in {"parked", "woken", "expired"} :
            /\ Goto(w, l) /\ waiter[w].pc \in {"park", "parked"}
            /\ l = "parked" => ~(word.signalled \/ word.broadcast)
            /\ UNCHANGED <<word, signaller, outcome>>
      BY <1>5 DEF Park, Interrupted, Expired, At, Matches
    <2>2. waiter'[w].pc = l
      BY <2>1, GotoTyped DEF WaiterPC
    <2>. QED
      BY <1>b, <1>d, <2>1, <2>2 DEF WaiterPC
  <1>6. ASSUME Unregister(w)
        PROVE  TypeOK' /\ AtomicInv' /\ TokenNotMissed'
    <2>1. /\ waiter[w].pc \in {"woken", "expired"} /\ UNCHANGED signaller
          /\ word' = [word EXCEPT !.count = @ - 1]
      BY <1>6 DEF Unregister
    <2>2. /\ word' \in [signalled : BOOLEAN, broadcast : BOOLEAN, count : Int] /\ word'.count = word.count - 1
          /\ word'.signalled = word.signalled /\ word'.broadcast = word.broadcast
      BY <1>0, <1>d, <2>1
    <2>3. CASE waiter[w].pc = "expired"
      <3>1. Returns(w, "timeout")
        BY <1>6, <2>3 DEF Unregister, At
      <3>. QED
        BY <1>c, <2>1, <2>2, <2>3, <3>1
    <2>4. CASE waiter[w].pc = "woken"
      <3>1. Goto(w, "check") /\ UNCHANGED outcome
        BY <1>6, <2>4 DEF Unregister, At, GoesRound
      <3>2. waiter'[w].pc = "check"
        BY <3>1, GotoTyped DEF WaiterPC
      <3>. QED
        BY <1>b, <2>1, <2>2, <2>4, <3>1, <3>2 DEF WaiterPC
    <2>. QED
      BY <2>1, <2>3, <2>4
  <1>. QED
    BY <1>1, <1>2, <1>3, <1>4, <1>5, <1>6

LEMMA SignallerStep ==
  ASSUME IsFiniteSet(Waiters), TypeOK, AtomicInv, TokenNotMissed, NEW s \in Signallers,
         Signal(s) \/ SignalAll(s) \/ WakeSome(s)
  PROVE  TypeOK' /\ AtomicInv' /\ TokenNotMissed'
  <1>0. /\ word.count = Cardinality(Registered) /\ word.count \in Nat
        /\ word.signalled \in BOOLEAN /\ word.broadcast \in BOOLEAN
    BY DEF AtomicInv, TypeOK
  <1>a. Parked # {} => word.count > 0
    <2>1. SUFFICES ASSUME NEW w \in Parked
                   PROVE  word.count > 0
      OBVIOUS
    <2>2. w \in Registered /\ Registered \subseteq Waiters
      BY DEF Registered, Parked, At
    <2>3. IsFiniteSet(Registered)
      BY <2>2, FS_Subset
    <2>. QED
      BY <1>0, <2>2, <2>3, FS_EmptySet
  <1>1. ASSUME Signal(s)
        PROVE  TypeOK' /\ AtomicInv' /\ TokenNotMissed'
    <2>1. UNCHANGED <<waiter, outcome>> /\ signaller[s].pc = "out"
      BY <1>1 DEF Signal
    <2>2. Registered' = Registered /\ Parked' = Parked
      BY <2>1 DEF Registered, Parked, At
    <2>3. /\ word' \in [signalled : BOOLEAN, broadcast : BOOLEAN, count : Nat]
          /\ word'.count = word.count /\ word'.broadcast = word.broadcast
      BY <1>1 DEF Signal, TypeOK
    <2>4. /\ signaller' \in [Signallers -> [pc : {"out", "wake"}, wake : 0..2, calls : Nat]]
          /\ \A r \in Signallers \ {s} : signaller'[r] = signaller[r]
      BY <1>1 DEF Signal, TypeOK
    <2>5. word'.signalled => word.signalled \/ word.broadcast \/ Parked = {} \/ signaller'[s].pc = "wake"
      BY <1>1, <1>a DEF Signal, TypeOK
    <2>6. TypeOK'
      BY <2>1, <2>3, <2>4 DEF TypeOK
    <2>7. AtomicInv'
      BY <2>1, <2>2, <2>3, <2>4 DEF AtomicInv
    <2>8. TokenNotMissed'
      BY <2>1, <2>2, <2>3, <2>4, <2>5 DEF TokenNotMissed
    <2>. QED
      BY <2>6, <2>7, <2>8
  <1>2. ASSUME SignalAll(s)
        PROVE  TypeOK' /\ AtomicInv' /\ TokenNotMissed'
    <2>1. UNCHANGED <<waiter, outcome>> /\ signaller[s].pc = "out"
      BY <1>2 DEF SignalAll
    <2>2. Registered' = Registered /\ Parked' = Parked
      BY <2>1 DEF Registered, Parked, At
    <2>3. /\ word' \in [signalled : BOOLEAN, broadcast : BOOLEAN, count : Nat]
          /\ word'.count = word.count
      BY <1>2 DEF SignalAll, TypeOK
    <2>4. signaller' \in [Signallers -> [pc : {"out", "wake"}, wake : 0..2, calls : Nat]]
      BY <1>2 DEF SignalAll, TypeOK
    <2>5. Parked = {} \/ (signaller'[s].pc = "wake" /\ signaller'[s].wake = 2)
      BY <1>2, <1>a DEF SignalAll, TypeOK
    <2>6. TypeOK'
      BY <2>1, <2>3, <2>4 DEF TypeOK
    <2>7. AtomicInv' /\ TokenNotMissed'
      BY <2>1, <2>2, <2>3, <2>5 DEF AtomicInv, TokenNotMissed
    <2>. QED
      BY <2>6, <2>7
  <1>3. ASSUME WakeSome(s)
        PROVE  TypeOK' /\ AtomicInv' /\ TokenNotMissed'
    <2>1. PICK W \in SUBSET Parked :
            /\ signaller[s].wake = 2 => W = Parked
            /\ Parked # {} => W # {}
            /\ waiter' = [w \in Waiters |-> IF w \in W THEN [waiter[w] EXCEPT !.pc = "woken"] ELSE waiter[w]]
      BY <1>3 DEF WakeSome
    <2>2. UNCHANGED <<word, outcome>> /\ signaller' = [signaller EXCEPT ![s].pc = "out"] /\ signaller[s].pc = "wake"
      BY <1>3 DEF WakeSome
    <2>3. /\ signaller' \in [Signallers -> [pc : {"out", "wake"}, wake : 0..2, calls : Nat]]
          /\ \A r \in Signallers \ {s} : signaller'[r] = signaller[r]
      BY <2>2 DEF TypeOK
    <2>4. /\ waiter' \in [Waiters -> [pc : WaiterPC, timed : BOOLEAN, expected : Nat, calls : Nat]]
          /\ \A w \in Waiters : waiter'[w].pc = IF w \in W THEN "woken" ELSE waiter[w].pc
      BY <2>1 DEF TypeOK, WaiterPC
    <2>5. W \subseteq Waiters /\ \A w \in W : waiter[w].pc = "parked"
      BY <2>1 DEF Parked, At
    <2>6. Registered' = Registered /\ Parked' = Parked \ W
      BY <2>4, <2>5 DEF Registered, Parked, At
    <2>7. TypeOK'
      BY <2>2, <2>3, <2>4 DEF TypeOK
    <2>8. ASSUME word.broadcast, Parked' # {}
          PROVE  \E r \in Signallers : signaller'[r].pc = "wake" /\ signaller'[r].wake = 2
      <3>1. Parked # {} /\ W # Parked
        BY <2>6, <2>8
      <3>2. PICK r \in Signallers : signaller[r].pc = "wake" /\ signaller[r].wake = 2
        BY <2>8, <3>1 DEF AtomicInv
      <3>3. r # s
        BY <2>1, <3>1, <3>2
      <3>. QED
        BY <2>3, <3>2, <3>3
    <2>9. AtomicInv'
      BY <2>2, <2>4, <2>5, <2>6, <2>8 DEF AtomicInv
    <2>10. Parked' # {} => \E w \in Waiters : waiter'[w].pc = "woken"
      BY <2>1, <2>4, <2>5, <2>6
    <2>11. TokenNotMissed'
      BY <2>10 DEF TokenNotMissed
    <2>. QED
      BY <2>7, <2>9, <2>11
  <1>. QED
    BY <1>1, <1>2, <1>3

LEMMA AtomicStep ==
  IsFiniteSet(Waiters) /\ TypeOK /\ AtomicInv /\ TokenNotMissed /\ [Next]_atomicVars
    => TypeOK' /\ AtomicInv' /\ TokenNotMissed'
  <1>. SUFFICES ASSUME IsFiniteSet(Waiters), TypeOK, AtomicInv, TokenNotMissed, [Next]_atomicVars
                PROVE  TypeOK' /\ AtomicInv' /\ TokenNotMissed'
    OBVIOUS
  <1>1. ASSUME UNCHANGED atomicVars
        PROVE  TypeOK' /\ AtomicInv' /\ TokenNotMissed'
    BY <1>1 DEF atomicVars, TypeOK, AtomicInv, TokenNotMissed, Registered, Parked, At
  <1>. QED
    BY <1>1, WaiterStep, SignallerStep DEF Next

(* However many threads wait and signal: when AtomicEvent is set and a waiter  *)
(* is parked in the kernel, a FUTEX_WAKE is on its way or a waiter is up that  *)
(* will look at the word.  The count in the word decides whether Signal makes  *)
(* the call, so the proof is that it counts exactly the waiters that have      *)
(* registered and not returned.                                                *)
THEOREM TokenWakes == IsFiniteSet(Waiters) /\ Spec => []TokenNotMissed
  <1>. SUFFICES ASSUME IsFiniteSet(Waiters)
                PROVE  Spec => []TokenNotMissed
    OBVIOUS
  <1>1. Init => TypeOK /\ AtomicInv /\ TokenNotMissed
    BY AtomicInit
  <1>2. TypeOK /\ AtomicInv /\ TokenNotMissed /\ [Next]_atomicVars => TypeOK' /\ AtomicInv' /\ TokenNotMissed'
    BY AtomicStep
  <1>. QED
    BY <1>1, <1>2, PTL DEF Spec

(* Every step of the word and the futex is a step of an automatic event, or    *)
(* none of its business.                                                       *)
LEMMA AtomicMaps ==
  ASSUME TypeOK, AtomicInv, [Next]_atomicVars
  PROVE  [Abstract!Next]_<<"automatic", word.signalled, word.broadcast, outcome>>
  <1>. DEFINE eventVars == <<"automatic", word.signalled, word.broadcast, outcome>>
  <1>. USE DEF Abstract!Next, TypeOK
  <1>1. ASSUME UNCHANGED <<word, outcome>>
        PROVE  UNCHANGED eventVars
    BY <1>1
  <1>2. ASSUME NEW s \in Signallers, Signal(s)
        PROVE  [Abstract!Next]_eventVars
    <2>1. CASE ~word.signalled /\ ~word.broadcast
      BY <1>2, <2>1 DEF Signal, Abstract!Signal
    <2>2. CASE ~(~word.signalled /\ ~word.broadcast)
      BY <1>2, <2>2 DEF Signal
    <2>. QED
      BY <2>1, <2>2
  <1>3. ASSUME NEW s \in Signallers, SignalAll(s)
        PROVE  [Abstract!Next]_eventVars
    <2>1. CASE word.broadcast
      BY <1>3, <2>1 DEF SignalAll
    <2>2. CASE ~word.broadcast
      BY <1>3, <2>2 DEF SignalAll, Abstract!SignalAll
    <2>. QED
      BY <2>1, <2>2
  <1>4. ASSUME NEW w \in Waiters, NEW timed \in BOOLEAN, Wait(w, timed)
        PROVE  Abstract!Begin(w)
    BY <1>4 DEF Wait, At, AtomicInv, Abstract!Begin
  <1>5. ASSUME NEW w \in Waiters, CheckWord(w)
        PROVE  [Abstract!Next]_eventVars
    <2>0. outcome[w] = "waiting"
      BY <1>5 DEF CheckWord, At, AtomicInv
    <2>1. CASE word.broadcast /\ Returns(w, "through") /\ UNCHANGED word
      BY <2>0, <2>1 DEF Returns, Abstract!Through
    <2>2. CASE word.signalled /\ ~word.broadcast /\ word' = [word EXCEPT !.signalled = FALSE] /\ Returns(w, "through")
      BY <2>0, <2>2 DEF Returns, Abstract!Through
    <2>3. CASE UNCHANGED <<word, outcome>>
      BY <2>3
    <2>4. CASE Returns(w, "timeout") /\ UNCHANGED word
      BY <2>0, <2>4 DEF Returns, Abstract!Timeout
    <2>. QED
      BY <1>5, <2>1, <2>2, <2>3, <2>4 DEF CheckWord
  <1>6. ASSUME NEW w \in Waiters, Register(w) \/ Unregister(w)
        PROVE  [Abstract!Next]_eventVars
    <2>1. word'.signalled = word.signalled /\ word'.broadcast = word.broadcast
      BY <1>6 DEF Register, Unregister
    <2>2. outcome' = outcome \/ (outcome[w] = "waiting" /\ Returns(w, "timeout"))
      BY <1>6 DEF Register, Unregister, At, GoesRound, AtomicInv
    <2>. QED
      BY <2>1, <2>2 DEF Returns, Abstract!Timeout
  <1>7. ASSUME NEW w \in Waiters, SpinSeesToken(w) \/ Park(w) \/ Interrupted(w) \/ Expired(w)
        PROVE  UNCHANGED <<word, outcome>>
    BY <1>7 DEF SpinSeesToken, Park, Interrupted, Expired
  <1>8. ASSUME NEW s \in Signallers, WakeSome(s)
        PROVE  UNCHANGED <<word, outcome>>
    BY <1>8 DEF WakeSome
  <1>9. ASSUME UNCHANGED atomicVars
        PROVE  UNCHANGED <<word, outcome>>
    BY <1>9 DEF atomicVars
  <1>. QED
    BY <1>1, <1>2, <1>3, <1>4, <1>5, <1>6, <1>7, <1>8, <1>9 DEF Next

(* AtomicEvent is an automatic event, for any number of waiters and            *)
(* signallers: a token lets one wait through, an open gate all of them, and    *)
(* no wait returns without either unless its time is over.                     *)
THEOREM AtomicRefines == IsFiniteSet(Waiters) /\ Spec => ImplementsEvent
  <1>. SUFFICES ASSUME IsFiniteSet(Waiters)
                PROVE  Spec => ImplementsEvent
    OBVIOUS
  <1>1. Init => TypeOK /\ AtomicInv /\ TokenNotMissed
    BY AtomicInit
  <1>2. TypeOK /\ AtomicInv /\ TokenNotMissed /\ [Next]_atomicVars => TypeOK' /\ AtomicInv' /\ TokenNotMissed'
    BY AtomicStep
  <1>3. Init => Abstract!Init
    BY DEF Init, Abstract!Init
  <1>4. TypeOK /\ AtomicInv /\ [Next]_atomicVars => [Abstract!Next]_(Abstract!eventVars)
    BY AtomicMaps DEF Abstract!eventVars
  <1>. QED
    BY <1>1, <1>2, <1>3, <1>4, PTL DEF Spec, ImplementsEvent, Abstract!Spec

----------------------------------------------------------------------------
(* WaitableEvent. *)

WaitableHolds == WaitableTypeOK /\ WaitableInv /\ SetEventWakes

LEMMA WaitableStarts ==
  ASSUME WaitableInit
  PROVE  WaitableHolds
  <1>1. WaitableTypeOK
    <2>1. signaled \in BOOLEAN
      BY DEF WaitableInit
    <2>2. eventfd \in 0..1 /\ changes \in Nat /\ reset_policy \in {"automatic", "manual"}
      BY DEF WaitableInit
    <2>3. waiting \in [EvWaiters -> [pc : WaitablePC, timed : BOOLEAN, calls : Nat]]
      BY DEF WaitableInit, WaitablePC
    <2>. QED
      BY <2>1, <2>2, <2>3 DEF WaitableInit, WaitableTypeOK
  <1>2. WaitableInv /\ SetEventWakes
    BY DEF WaitableInit, WaitableInv, SetEventWakes
  <1>. QED
    BY <1>1, <1>2 DEF WaitableHolds

(* What a waiter's move leaves of the promise: one that goes to sleep finds    *)
(* the event clear, one that leaves has taken what there was.                  *)
LEMMA WaitableMove ==
  ASSUME WaitableHolds, NEW w \in EvWaiters, NEW l \in WaitablePC,
         WaitableGoto(w, l), UNCHANGED <<reset_policy, eventfd, changes>>,
         signaled' \in BOOLEAN,
         reset_policy = "manual" => signaled' = signaled,
         signaled' => signaled,
         l \in {"poll", "recheck"} => reset_policy = "manual",
         l = "cv" => reset_policy = "automatic" /\ ~signaled,
         reset_policy = "automatic" /\ signaled' /\ waiting[w].pc = "check" => l = "check"
  PROVE  /\ waiting' \in [EvWaiters -> [pc : WaitablePC, timed : BOOLEAN, calls : Nat]]
         /\ \A v \in EvWaiters : waiting'[v].pc = IF v = w THEN l ELSE waiting[v].pc
         /\ (\A v \in EvWaiters : waiting[v].pc \in {"poll", "recheck"} => reset_policy = "manual")'
         /\ (\A v \in EvWaiters : waiting[v].pc = "cv" => reset_policy = "automatic")'
         /\ SetEventWakes'
  <1>1. /\ waiting' \in [EvWaiters -> [pc : WaitablePC, timed : BOOLEAN, calls : Nat]]
        /\ \A v \in EvWaiters : waiting'[v].pc = IF v = w THEN l ELSE waiting[v].pc
    BY DEF WaitableHolds, WaitableTypeOK, WaitableGoto
  <1>2. /\ (\A v \in EvWaiters : waiting[v].pc \in {"poll", "recheck"} => reset_policy = "manual")'
        /\ (\A v \in EvWaiters : waiting[v].pc = "cv" => reset_policy = "automatic")'
    BY <1>1 DEF WaitableHolds, WaitableInv
  <1>3. SetEventWakes'
    <2>1. reset_policy' = "manual" => ((eventfd' > 0) <=> signaled')
      BY DEF WaitableHolds, SetEventWakes
    <2>2. ASSUME reset_policy = "automatic", signaled', NEW v \in EvWaiters, waiting'[v].pc = "cv"
          PROVE  \E u \in EvWaiters : waiting'[u].pc = "check"
      <3>1. waiting[v].pc = "cv"
        BY <1>1, <2>2
      <3>2. PICK u \in EvWaiters : waiting[u].pc = "check"
        BY <2>2, <3>1 DEF WaitableHolds, SetEventWakes
      <3>. QED
        BY <1>1, <2>2, <3>2
    <2>. QED
      BY <2>1, <2>2 DEF SetEventWakes
  <1>. QED
    BY <1>1, <1>2, <1>3

LEMMA WaitableKeeps == WaitableHolds /\ [WaitableNext]_waitableVars => WaitableHolds'
  <1>. SUFFICES ASSUME WaitableHolds, [WaitableNext]_waitableVars
                PROVE  WaitableHolds'
    OBVIOUS
  <1>0. WaitableTypeOK /\ WaitableInv /\ SetEventWakes
    BY DEF WaitableHolds
  <1>1. ASSUME WaitableSignal
        PROVE  WaitableHolds'
    <2>. DEFINE Sleeping == {w \in EvWaiters : waiting[w].pc = "cv"}
    <2>1. PICK W \in NotifyOne(Sleeping) :
            waiting' = [w \in EvWaiters |-> IF w \in W THEN [waiting[w] EXCEPT !.pc = "check"] ELSE waiting[w]]
      BY <1>1 DEF WaitableSignal
    <2>2. W \subseteq Sleeping /\ (Sleeping # {} => W # {})
      BY <2>1 DEF NotifyOne
    <2>3. /\ waiting' \in [EvWaiters -> [pc : WaitablePC, timed : BOOLEAN, calls : Nat]]
          /\ \A w \in EvWaiters : waiting'[w].pc = IF w \in W THEN "check" ELSE waiting[w].pc
      BY <1>0, <2>1 DEF WaitableTypeOK, WaitablePC
    <2>4. UNCHANGED <<reset_policy, ended>> /\ signaled' = TRUE /\ changes' = changes + 1
      BY <1>1 DEF WaitableSignal
    <2>5. eventfd' \in 0..1 /\ (reset_policy = "manual" => eventfd' > 0)
      BY <1>0, <1>1 DEF WaitableSignal, WaitableTypeOK, SetEventWakes
    <2>6. WaitableTypeOK'
      BY <1>0, <2>3, <2>4, <2>5 DEF WaitableTypeOK
    <2>7. WaitableInv'
      BY <1>0, <2>2, <2>3, <2>4 DEF WaitableInv
    <2>8. ASSUME NEW v \in EvWaiters, waiting'[v].pc = "cv"
          PROVE  \E u \in EvWaiters : waiting'[u].pc = "check"
      <3>1. v \in Sleeping
        BY <2>3, <2>8
      <3>. QED
        BY <2>2, <2>3, <3>1
    <2>9. SetEventWakes'
      BY <2>4, <2>5, <2>8 DEF SetEventWakes
    <2>. QED
      BY <2>6, <2>7, <2>9 DEF WaitableHolds
  <1>2. ASSUME Reset
        PROVE  WaitableHolds'
    <2>1. UNCHANGED <<reset_policy, waiting, ended>> /\ signaled' = FALSE /\ changes' = changes + 1
      BY <1>2 DEF Reset
    <2>2. eventfd' \in 0..1 /\ (reset_policy = "manual" => eventfd' = 0)
      BY <1>0, <1>2 DEF Reset, WaitableTypeOK, DrainedOnReset
    <2>3. WaitableTypeOK'
      <3>1. signaled' \in BOOLEAN
        BY <2>1
      <3>2. changes' \in Nat
        BY <1>0, <2>1 DEF WaitableTypeOK
      <3>. QED
        BY <1>0, <2>1, <2>2, <3>1, <3>2 DEF WaitableTypeOK
    <2>. QED
      BY <1>0, <2>1, <2>2, <2>3 DEF WaitableInv, SetEventWakes, WaitableHolds
  <1>3. ASSUME NEW w \in EvWaiters, NEW timed \in BOOLEAN, WaitableWait(w, timed)
        PROVE  WaitableHolds'
    <2>1. /\ waiting' = [waiting EXCEPT ![w] = [pc |-> "check", timed |-> timed, calls |-> waiting[w].calls + 1]]
          /\ ended' = [ended EXCEPT ![w] = "waiting"] /\ waiting[w].pc = "out"
          /\ UNCHANGED <<reset_policy, signaled, eventfd, changes>>
      BY <1>3 DEF WaitableWait
    <2>2. /\ waiting' \in [EvWaiters -> [pc : WaitablePC, timed : BOOLEAN, calls : Nat]]
          /\ \A v \in EvWaiters : waiting'[v].pc = IF v = w THEN "check" ELSE waiting[v].pc
      BY <1>0, <2>1 DEF WaitableTypeOK, WaitablePC
    <2>3. WaitableTypeOK'
      BY <1>0, <2>1, <2>2 DEF WaitableTypeOK
    <2>4. WaitableInv'
      BY <1>0, <2>1, <2>2 DEF WaitableInv, WaitableTypeOK
    <2>5. SetEventWakes'
      BY <1>0, <2>1, <2>2 DEF SetEventWakes
    <2>. QED
      BY <2>3, <2>4, <2>5 DEF WaitableHolds
  <1>a. ASSUME NEW w \in EvWaiters, NEW how \in {"through", "timeout"}, Ends(w, how), waiting[w].pc # "out",
               UNCHANGED <<reset_policy, eventfd, changes>>, signaled' \in BOOLEAN, signaled' => signaled,
               reset_policy = "manual" => signaled' = signaled,
               reset_policy = "automatic" /\ waiting[w].pc = "check" => ~signaled'
        PROVE  WaitableHolds'
    <2>1. WaitableGoto(w, "out") /\ ended' = [ended EXCEPT ![w] = how]
      BY <1>a DEF Ends
    <2>2. /\ waiting' \in [EvWaiters -> [pc : WaitablePC, timed : BOOLEAN, calls : Nat]]
          /\ \A v \in EvWaiters : waiting'[v].pc = IF v = w THEN "out" ELSE waiting[v].pc
          /\ (\A v \in EvWaiters : waiting[v].pc \in {"poll", "recheck"} => reset_policy = "manual")'
          /\ (\A v \in EvWaiters : waiting[v].pc = "cv" => reset_policy = "automatic")'
          /\ SetEventWakes'
      BY <1>a, <2>1, WaitableMove DEF WaitablePC
    <2>3. WaitableTypeOK'
      BY <1>0, <1>a, <2>1, <2>2 DEF WaitableTypeOK
    <2>4. WaitableInv'
      BY <1>0, <2>1, <2>2 DEF WaitableInv, WaitableTypeOK
    <2>. QED
      BY <2>2, <2>3, <2>4 DEF WaitableHolds
  <1>b. ASSUME NEW w \in EvWaiters, NEW l \in WaitablePC \ {"out"}, WaitableGoto(w, l), waiting[w].pc # "out",
               UNCHANGED <<reset_policy, eventfd, changes, signaled, ended>>,
               l \in {"poll", "recheck"} => reset_policy = "manual",
               l = "cv" => reset_policy = "automatic" /\ ~signaled,
               reset_policy = "automatic" /\ signaled /\ waiting[w].pc = "check" => l = "check"
        PROVE  WaitableHolds'
    <2>1. /\ waiting' \in [EvWaiters -> [pc : WaitablePC, timed : BOOLEAN, calls : Nat]]
          /\ \A v \in EvWaiters : waiting'[v].pc = IF v = w THEN l ELSE waiting[v].pc
          /\ (\A v \in EvWaiters : waiting[v].pc \in {"poll", "recheck"} => reset_policy = "manual")'
          /\ (\A v \in EvWaiters : waiting[v].pc = "cv" => reset_policy = "automatic")'
          /\ SetEventWakes'
      BY <1>0, <1>b, WaitableMove DEF WaitableTypeOK
    <2>2. WaitableTypeOK'
      BY <1>0, <1>b, <2>1 DEF WaitableTypeOK
    <2>3. WaitableInv'
      BY <1>0, <1>b, <2>1 DEF WaitableInv
    <2>. QED
      BY <2>1, <2>2, <2>3 DEF WaitableHolds
  <1>4. ASSUME NEW w \in EvWaiters, CheckFlag(w)
        PROVE  WaitableHolds'
    <2>1. waiting[w].pc = "check" /\ UNCHANGED <<reset_policy, eventfd, changes>>
      BY <1>4 DEF CheckFlag
    <2>2. CASE signaled
      <3>1. Ends(w, "through") /\ signaled' = (reset_policy = "manual")
        BY <1>4, <2>2 DEF CheckFlag
      <3>. QED
        BY <1>a, <2>1, <2>2, <3>1
    <2>3. CASE ~signaled
      <3>1. /\ UNCHANGED <<signaled, ended>>
            /\ \/ reset_policy = "manual" /\ WaitableGoto(w, "poll")
               \/ reset_policy = "automatic" /\ WaitableGoto(w, "cv")
        BY <1>0, <1>4, <2>3 DEF CheckFlag, WaitableTypeOK
      <3>. QED
        BY <1>b, <2>1, <2>3, <3>1 DEF WaitablePC
    <2>. QED
      BY <2>2, <2>3
  <1>5. ASSUME NEW w \in EvWaiters, PollReturns(w)
        PROVE  WaitableHolds'
    <2>1. waiting[w].pc = "poll" /\ UNCHANGED <<reset_policy, signaled, eventfd, ended, changes>>
      BY <1>5 DEF PollReturns
    <2>2. reset_policy = "manual"
      BY <1>0, <2>1 DEF WaitableInv
    <2>3. WaitableGoto(w, "recheck") \/ WaitableGoto(w, "check")
      BY <1>5 DEF PollReturns
    <2>. QED
      BY <1>b, <2>1, <2>2, <2>3 DEF WaitablePC
  <1>6. ASSUME NEW w \in EvWaiters, Recheck(w)
        PROVE  WaitableHolds'
    <2>1. waiting[w].pc = "recheck" /\ UNCHANGED <<reset_policy, signaled, eventfd, changes>>
      BY <1>6 DEF Recheck
    <2>2. Ends(w, "through") \/ Ends(w, "timeout")
      BY <1>6 DEF Recheck, AfterPoll
    <2>3. signaled \in BOOLEAN
      BY <1>0 DEF WaitableTypeOK
    <2>. QED
      BY <1>a, <2>1, <2>2, <2>3
  <1>7. ASSUME NEW w \in EvWaiters, TimesOut(w)
        PROVE  WaitableHolds'
    <2>1. waiting[w].pc \in {"poll", "cv"} /\ UNCHANGED <<reset_policy, eventfd, changes>>
      BY <1>7 DEF TimesOut
    <2>2. waiting[w].pc = "cv" => reset_policy = "automatic"
      BY <1>0 DEF WaitableInv
    <2>3. CASE waiting[w].pc = "cv" /\ signaled
      <3>1. Ends(w, "through") /\ signaled' = FALSE
        BY <1>7, <2>3 DEF TimesOut
      <3>. QED
        BY <1>a, <2>1, <2>2, <2>3, <3>1
    <2>4. CASE ~(waiting[w].pc = "cv" /\ signaled)
      <3>1. Ends(w, "timeout") /\ UNCHANGED signaled
        BY <1>7, <2>4 DEF TimesOut
      <3>2. signaled \in BOOLEAN
        BY <1>0 DEF WaitableTypeOK
      <3>. QED
        BY <1>a, <2>1, <3>1, <3>2
    <2>. QED
      BY <2>3, <2>4
  <1>8. ASSUME NEW w \in EvWaiters, SpuriousWakeup(w)
        PROVE  WaitableHolds'
    BY <1>8, <1>b DEF SpuriousWakeup, WaitablePC
  <1>9. ASSUME UNCHANGED waitableVars
        PROVE  WaitableHolds'
    <2>1. WaitableTypeOK'
      BY <1>0, <1>9 DEF waitableVars, WaitableTypeOK
    <2>2. WaitableInv' /\ SetEventWakes'
      BY <1>0, <1>9 DEF waitableVars, WaitableInv, SetEventWakes
    <2>. QED
      BY <2>1, <2>2 DEF WaitableHolds
  <1>. QED
    BY <1>1, <1>2, <1>3, <1>4, <1>5, <1>6, <1>7, <1>8, <1>9 DEF WaitableNext

(* However many threads wait: the eventfd of a manual event is readable        *)
(* exactly while the event is set, so no poll sleeps on a set event, and an    *)
(* automatic one that is set with a waiter asleep has a waiter awake.          *)
THEOREM SetWakes == WaitableSpec => []SetEventWakes
  <1>1. WaitableInit => WaitableHolds
    BY WaitableStarts
  <1>2. WaitableHolds => SetEventWakes
    BY DEF WaitableHolds
  <1>. QED
    BY <1>1, <1>2, WaitableKeeps, PTL DEF WaitableSpec

LEMMA WaitableMaps ==
  ASSUME WaitableHolds, WaitableHolds', [WaitableNext]_waitableVars
  PROVE  [WaitableAbstract!Next]_<<reset_policy, signaled, FALSE, ended>>
  <1>. DEFINE eventVars == <<reset_policy, signaled, FALSE, ended>>
  <1>. USE DEF WaitableAbstract!Next
  <1>0. signaled \in BOOLEAN /\ signaled' \in BOOLEAN /\ ended \in [EvWaiters -> {"none", "waiting", "through", "timeout"}]
        /\ reset_policy \in {"automatic", "manual"}
    BY DEF WaitableHolds, WaitableTypeOK
  <1>1. ASSUME WaitableSignal \/ Reset
        PROVE  [WaitableAbstract!Next]_eventVars
    BY <1>0, <1>1 DEF WaitableSignal, Reset, WaitableAbstract!Signal, WaitableAbstract!Reset
  <1>2. ASSUME NEW w \in EvWaiters, NEW timed \in BOOLEAN, WaitableWait(w, timed)
        PROVE  WaitableAbstract!Begin(w)
    BY <1>2 DEF WaitableWait, WaitableHolds, WaitableInv, WaitableAbstract!Begin
  <1>3. ASSUME NEW w \in EvWaiters, CheckFlag(w)
        PROVE  [WaitableAbstract!Next]_eventVars
    <2>1. ended[w] = "waiting" /\ reset_policy' = reset_policy
      BY <1>3 DEF CheckFlag, WaitableHolds, WaitableInv
    <2>2. CASE signaled
      BY <1>0, <1>3, <2>1, <2>2 DEF CheckFlag, Ends, WaitableAbstract!Through
    <2>3. CASE ~signaled
      BY <1>3, <2>1, <2>3 DEF CheckFlag
    <2>. QED
      BY <2>2, <2>3
  <1>4. ASSUME NEW w \in EvWaiters, Recheck(w)
        PROVE  [WaitableAbstract!Next]_eventVars
    <2>1. ended[w] = "waiting" /\ UNCHANGED <<reset_policy, signaled>> /\ reset_policy = "manual"
      BY <1>4 DEF Recheck, WaitableHolds, WaitableInv
    <2>2. CASE signaled
      BY <1>4, <2>1, <2>2 DEF Recheck, AfterPoll, Ends, WaitableAbstract!Through
    <2>3. CASE ~signaled
      BY <1>4, <2>1, <2>3 DEF Recheck, AfterPoll, Ends, WaitableAbstract!Timeout
    <2>. QED
      BY <2>2, <2>3
  <1>5. ASSUME NEW w \in EvWaiters, TimesOut(w)
        PROVE  [WaitableAbstract!Next]_eventVars
    <2>1. /\ ended[w] = "waiting" /\ UNCHANGED reset_policy
          /\ waiting[w].pc = "cv" => reset_policy = "automatic"
      BY <1>5 DEF TimesOut, WaitableHolds, WaitableInv
    <2>2. CASE waiting[w].pc = "cv" /\ signaled
      BY <1>5, <2>1, <2>2 DEF TimesOut, Ends, WaitableAbstract!Through
    <2>3. CASE ~(waiting[w].pc = "cv" /\ signaled)
      BY <1>5, <2>1, <2>3 DEF TimesOut, Ends, WaitableAbstract!Timeout
    <2>. QED
      BY <2>2, <2>3
  <1>6. ASSUME NEW w \in EvWaiters, PollReturns(w) \/ SpuriousWakeup(w)
        PROVE  UNCHANGED eventVars
    BY <1>6 DEF PollReturns, SpuriousWakeup
  <1>7. ASSUME UNCHANGED waitableVars
        PROVE  UNCHANGED eventVars
    BY <1>7 DEF waitableVars
  <1>. QED
    BY <1>1, <1>2, <1>3, <1>4, <1>5, <1>6, <1>7 DEF WaitableNext

(* WaitableEvent is an event of the policy it was made with: an automatic one  *)
(* lets one wait through for each time it was set, a manual one all until it   *)
(* is reset, although Reset may come between a waiter's poll and its look.     *)
THEOREM WaitableRefines == WaitableSpec => ImplementsWaitable
  <1>1. WaitableInit => WaitableHolds
    BY WaitableStarts
  <1>2. WaitableInit => WaitableAbstract!Init
    BY DEF WaitableInit, WaitableAbstract!Init
  <1>3. WaitableHolds /\ WaitableHolds' /\ [WaitableNext]_waitableVars => [WaitableAbstract!Next]_(WaitableAbstract!eventVars)
    BY WaitableMaps DEF WaitableAbstract!eventVars
  <1>. QED
    BY <1>1, <1>2, <1>3, WaitableKeeps, PTL DEF WaitableSpec, ImplementsWaitable, WaitableAbstract!Spec
=============================================================================
