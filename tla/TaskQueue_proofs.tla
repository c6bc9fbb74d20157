-------------------------- MODULE TaskQueue_proofs --------------------------
(***************************************************************************)
(* Proofs about TaskQueue, for every number of posts, every set of run     *)
(* times and every batch size: the type invariant and QueueOrder, the      *)
(* property the run of the scheduling suite checks.                        *)
(*                                                                         *)
(* The argument is about Line, what the consumer has taken followed by its *)
(* own queue and the shared one.  A take leaves Line as it is; a post or a *)
(* promotion puts one task into it; a cancellation keeps a subsequence.    *)
(***************************************************************************)
EXTENDS TaskQueue, FiniteSetTheorems, SequenceTheorems, TLAPS

RangeOf(s) == {s[i] : i \in DOMAIN s}

(* r is s with e put in after the first p elements. *)
Grown(s, r, p, e) ==
  /\ p \in 0..Len(s) /\ Len(r) = Len(s) + 1
  /\ \A i \in 1..p : r[i] = s[i]
  /\ r[p + 1] = e
  /\ \A i \in p+1..Len(s) : r[i + 1] = s[i]

(* r is what s has at the positions g, in their order. *)
Picked(s, r, g) ==
  /\ g \in [1..Len(r) -> 1..Len(s)]
  /\ \A i, j \in 1..Len(r) : i < j => g[i] < g[j]
  /\ \A i \in 1..Len(r) : r[i] = s[g[i]]

(* The three orders of a line. *)
Distinct(s) == \A i, j \in 1..Len(s) : i < j => s[i] # s[j]
Undisturbed(a, b) == a.due > 0 /\ b.due > 0 => ~(b.seq < a.seq /\ b.due <= a.due)
Delayeds(s) == \A i, j \in 1..Len(s) : i < j => Undisturbed(s[i], s[j])
PostOrder(a, b) == a.due = 0 /\ b.due = 0 => a.seq < b.seq
Posts(s) == \A i, j \in 1..Len(s) : i < j => PostOrder(s[i], s[j])

----------------------------------------------------------------------------
(* What the type invariant does not say: sequence numbers are used once, the  *)
(* heap holds delayed tasks only, what is in line was due, nothing in the     *)
(* heap should have been in line before a task that is.                       *)
Everywhere == InLine \cup heap \cup dropped
Numbered ==
  \A t \in Everywhere : /\ t.due = 0 => t.seq <= imm_seq
                        /\ t.due > 0 => t.seq <= del_seq
HeapDelayed == \A t \in heap : t.due > 0
LineDue == \A t \in InLine : t.due <= now
HeapBehind == \A t \in InLine : \A u \in heap : Undisturbed(t, u)
AllPosted == ~promoted => (\A t \in InLine : t.due = 0) /\ Posts(Line)
OwnQueue == ~single => work = <<>>
Separate ==
  /\ Distinct(Line)
  /\ InLine \cap heap = {} /\ InLine \cap dropped = {} /\ heap \cap dropped = {}
Counted == IsFiniteSet(Everywhere) /\ Cardinality(Everywhere) = imm_seq + del_seq

QueueInv ==
  /\ TypeOK /\ OwnQueue /\ Numbered /\ HeapDelayed /\ LineDue /\ HeapBehind
  /\ Delayeds(Line) /\ AllPosted /\ Separate /\ Counted /\ OnlyBlockingLeft

----------------------------------------------------------------------------
(* A line that grows by one element: its range, its orders. *)
LEMMA GrownFrom ==
  ASSUME NEW S, NEW s \in Seq(S), NEW r \in Seq(S), NEW p, NEW e, Grown(s, r, p, e), NEW k \in 1..Len(r)
  PROVE  \/ k <= p /\ k \in 1..Len(s) /\ r[k] = s[k]
         \/ k = p + 1 /\ r[k] = e
         \/ k > p + 1 /\ k - 1 \in 1..Len(s) /\ k - 1 > p /\ r[k] = s[k - 1]
<1>1. /\ p \in Nat /\ p <= Len(s) /\ Len(s) \in Nat /\ Len(r) = Len(s) + 1 /\ k \in Nat
  BY DEF Grown
<1>2. CASE k <= p
  BY <1>1, <1>2 DEF Grown
<1>3. CASE k = p + 1
  BY <1>1, <1>3 DEF Grown
<1>4. CASE k > p + 1
  <2>1. k - 1 \in p+1..Len(s) /\ (k - 1) + 1 = k
    BY <1>1, <1>4
  <2> QED  BY <2>1, <1>1, <1>4 DEF Grown
<1> QED  BY <1>1, <1>2, <1>3, <1>4

LEMMA GrownRange ==
  ASSUME NEW S, NEW s \in Seq(S), NEW r \in Seq(S), NEW p, NEW e, Grown(s, r, p, e)
  PROVE  RangeOf(r) = RangeOf(s) \cup {e}
<1>1. /\ p \in Nat /\ p <= Len(s) /\ Len(s) \in Nat /\ Len(r) = Len(s) + 1
      /\ DOMAIN s = 1..Len(s) /\ DOMAIN r = 1..Len(r)
  BY DEF Grown
<1>2. ASSUME NEW x \in RangeOf(r)  PROVE x \in RangeOf(s) \cup {e}
  <2>1. PICK k \in 1..Len(r) : x = r[k]
    BY <1>1, <1>2 DEF RangeOf
  <2>2. r[k] = e \/ \E a \in 1..Len(s) : r[k] = s[a]
    <3>1. \/ k <= p /\ k \in 1..Len(s) /\ r[k] = s[k]
          \/ k = p + 1 /\ r[k] = e
          \/ k > p + 1 /\ k - 1 \in 1..Len(s) /\ k - 1 > p /\ r[k] = s[k - 1]
      BY GrownFrom
    <3> QED  BY <3>1
  <2> QED  BY <2>1, <2>2, <1>1 DEF RangeOf
<1>3. e \in RangeOf(r)
  <2>1. p + 1 \in DOMAIN r /\ r[p + 1] = e
    BY <1>1 DEF Grown
  <2> QED  BY <2>1 DEF RangeOf
<1>4. ASSUME NEW x \in RangeOf(s)  PROVE x \in RangeOf(r)
  <2>1. PICK k \in 1..Len(s) : x = s[k]
    BY <1>1, <1>4 DEF RangeOf
  <2>2. CASE k <= p
    <3>1. k \in DOMAIN r /\ r[k] = s[k]
      BY <1>1, <2>2 DEF Grown
    <3> QED  BY <3>1, <2>1 DEF RangeOf
  <2>3. CASE k > p
    <3>1. k + 1 \in DOMAIN r /\ r[k + 1] = s[k]
      BY <1>1, <2>3 DEF Grown
    <3> QED  BY <3>1, <2>1 DEF RangeOf
  <2> QED  BY <2>2, <2>3, <1>1
<1> QED  BY <1>2, <1>3, <1>4

(* Two places of the grown line are two places of the old one, in the same    *)
(* order, or one of them is the new task's.                                   *)
LEMMA GrownPair ==
  ASSUME NEW S, NEW s \in Seq(S), NEW r \in Seq(S), NEW p, NEW e, Grown(s, r, p, e),
         NEW i \in 1..Len(r), NEW j \in 1..Len(r), i < j
  PROVE  \/ \E a, b \in 1..Len(s) : a < b /\ r[i] = s[a] /\ r[j] = s[b]
         \/ r[i] = e /\ \E b \in 1..Len(s) : b > p /\ r[j] = s[b]
         \/ r[j] = e /\ \E a \in 1..Len(s) : a <= p /\ r[i] = s[a]
<1>1. p \in Nat /\ Len(s) \in Nat /\ i \in Nat /\ j \in Nat
  BY DEF Grown
<1>2. \/ i <= p /\ i \in 1..Len(s) /\ r[i] = s[i]
      \/ i = p + 1 /\ r[i] = e
      \/ i > p + 1 /\ i - 1 \in 1..Len(s) /\ i - 1 > p /\ r[i] = s[i - 1]
  BY GrownFrom
<1>3. \/ j <= p /\ j \in 1..Len(s) /\ r[j] = s[j]
      \/ j = p + 1 /\ r[j] = e
      \/ j > p + 1 /\ j - 1 \in 1..Len(s) /\ j - 1 > p /\ r[j] = s[j - 1]
  BY GrownFrom
<1>4. CASE j <= p
  BY <1>1, <1>2, <1>3, <1>4
<1>5. CASE j = p + 1
  BY <1>1, <1>2, <1>3, <1>5
<1>6. CASE j > p + 1
  <2>1. j - 1 \in 1..Len(s) /\ j - 1 > p /\ r[j] = s[j - 1]
    BY <1>1, <1>3, <1>6
  <2>2. CASE i <= p
    <3>1. i \in 1..Len(s) /\ i < j - 1 /\ r[i] = s[i]
      BY <1>1, <1>2, <2>2, <2>1
    <3> QED  BY <3>1, <2>1
  <2>3. CASE i = p + 1
    <3>1. r[i] = e
      BY <1>1, <1>2, <2>3
    <3> QED  BY <3>1, <2>1
  <2>4. CASE i > p + 1
    <3>1. i - 1 \in 1..Len(s) /\ i - 1 < j - 1 /\ r[i] = s[i - 1]
      BY <1>1, <1>2, <2>4
    <3> QED  BY <3>1, <2>1
  <2>5. i <= p \/ i = p + 1 \/ i > p + 1
    BY <1>1
  <2> QED  BY <2>2, <2>3, <2>4, <2>5
<1>7. j <= p \/ j = p + 1 \/ j > p + 1
  BY <1>1
<1> QED  BY <1>4, <1>5, <1>6, <1>7

LEMMA GrownDistinct ==
  ASSUME NEW S, NEW s \in Seq(S), NEW r \in Seq(S), NEW p, NEW e, Grown(s, r, p, e),
         Distinct(s), e \notin RangeOf(s)
  PROVE  Distinct(r)
<1>1. ASSUME NEW i \in 1..Len(r), NEW j \in 1..Len(r), i < j  PROVE r[i] # r[j]
  <2>1. \A a \in 1..Len(s) : s[a] # e
    BY DEF RangeOf
  <2> QED  BY <1>1, <2>1, GrownPair DEF Distinct
<1> QED  BY <1>1 DEF Distinct

LEMMA GrownDelayeds ==
  ASSUME NEW s \in Seq(Task), NEW r \in Seq(Task), NEW p, NEW e \in Task, Grown(s, r, p, e),
         Delayeds(s),
         \/ e.due = 0
         \/ p = Len(s) /\ \A t \in RangeOf(s) : Undisturbed(t, e)
  PROVE  Delayeds(r)
<1>1. ASSUME NEW i \in 1..Len(r), NEW j \in 1..Len(r), i < j  PROVE Undisturbed(r[i], r[j])
  <2>1. CASE \E a, b \in 1..Len(s) : a < b /\ r[i] = s[a] /\ r[j] = s[b]
    BY <2>1 DEF Delayeds
  <2>2. CASE r[i] = e /\ \E b \in 1..Len(s) : b > p /\ r[j] = s[b]
    <3>1. e.due = 0
      BY <2>2, Len(s) \in Nat
    <3> QED  BY <3>1, <2>2 DEF Undisturbed
  <2>3. CASE r[j] = e /\ \E a \in 1..Len(s) : a <= p /\ r[i] = s[a]
    <3>1. CASE e.due = 0
      BY <3>1, <2>3 DEF Undisturbed
    <3>2. CASE \A t \in RangeOf(s) : Undisturbed(t, e)
      BY <3>2, <2>3 DEF RangeOf
    <3> QED  BY <3>1, <3>2
  <2> QED  BY <1>1, <2>1, <2>2, <2>3, GrownPair
<1> QED  BY <1>1 DEF Delayeds

LEMMA GrownPosts ==
  ASSUME NEW s \in Seq(Task), NEW r \in Seq(Task), NEW e \in Task, Grown(s, r, Len(s), e),
         Posts(s), \A t \in RangeOf(s) : PostOrder(t, e)
  PROVE  Posts(r)
<1>1. ASSUME NEW i \in 1..Len(r), NEW j \in 1..Len(r), i < j  PROVE PostOrder(r[i], r[j])
  <2>1. CASE \E a, b \in 1..Len(s) : a < b /\ r[i] = s[a] /\ r[j] = s[b]
    BY <2>1 DEF Posts
  <2>2. ~ \E b \in 1..Len(s) : b > Len(s) /\ r[j] = s[b]
    OBVIOUS
  <2>3. CASE r[j] = e /\ \E a \in 1..Len(s) : a <= Len(s) /\ r[i] = s[a]
    BY <2>3 DEF RangeOf
  <2> QED  BY <1>1, <2>1, <2>2, <2>3, GrownPair
<1> QED  BY <1>1 DEF Posts

(* A subsequence has the orders of the line it is picked from. *)
LEMMA PickedKeeps ==
  ASSUME NEW S, NEW s \in Seq(S), NEW r \in Seq(S), NEW g, Picked(s, r, g)
  PROVE  /\ RangeOf(r) \subseteq RangeOf(s)
         /\ Distinct(s) => Distinct(r)
         /\ Delayeds(s) => Delayeds(r)
         /\ Posts(s) => Posts(r)
<1>1. /\ DOMAIN s = 1..Len(s) /\ DOMAIN r = 1..Len(r)
  OBVIOUS
<1>2. RangeOf(r) \subseteq RangeOf(s)
  BY <1>1 DEF RangeOf, Picked
<1>3. Distinct(s) => Distinct(r)
  BY DEF Distinct, Picked
<1>4. Delayeds(s) => Delayeds(r)
  BY DEF Delayeds, Picked
<1>5. Posts(s) => Posts(r)
  BY DEF Posts, Picked
<1> QED  BY <1>2, <1>3, <1>4, <1>5

----------------------------------------------------------------------------
(* s is a, then b, then c: position by position. *)
Joins(s, a, b, c) ==
  /\ Len(s) = Len(a) + Len(b) + Len(c)
  /\ \A i \in 1..Len(a) : s[i] = a[i]
  /\ \A i \in 1..Len(b) : s[Len(a) + i] = b[i]
  /\ \A i \in 1..Len(c) : s[Len(a) + Len(b) + i] = c[i]

LEMMA Joined ==
  ASSUME NEW S, NEW a \in Seq(S), NEW b \in Seq(S), NEW c \in Seq(S)
  PROVE  a \o b \o c \in Seq(S) /\ Joins(a \o b \o c, a, b, c)
<1>1. a \o b \in Seq(S) /\ Len(a \o b) = Len(a) + Len(b)
  OBVIOUS
<1>2. (a \o b) \o c \in Seq(S) /\ Len((a \o b) \o c) = Len(a) + Len(b) + Len(c)
  BY <1>1
<1>3. \A i \in 1..Len(a) : (a \o b)[i] = a[i]
  OBVIOUS
<1>4. \A i \in 1..Len(b) : (a \o b)[Len(a) + i] = b[i]
  OBVIOUS
<1>5. \A i \in 1..Len(a) + Len(b) : ((a \o b) \o c)[i] = (a \o b)[i]
  BY <1>1
<1>6. \A i \in 1..Len(c) : ((a \o b) \o c)[Len(a) + Len(b) + i] = c[i]
  BY <1>1
<1>7. Len(a) \in Nat /\ Len(b) \in Nat /\ Len(c) \in Nat
  OBVIOUS
<1>8. \A i \in 1..Len(a) : i \in 1..Len(a) + Len(b)
  BY <1>7
<1>9. \A i \in 1..Len(b) : Len(a) + i \in 1..Len(a) + Len(b)
  BY <1>7
<1> QED  BY <1>2, <1>3, <1>4, <1>5, <1>6, <1>8, <1>9 DEF Joins

(* A task put into the last part, or at its end, goes into the whole. *)
LEMMA InsertedGrows ==
  ASSUME NEW S, NEW c \in Seq(S), NEW e \in S, NEW i \in 0..Len(c)
  PROVE  Inserted(c, i, e) \in Seq(S) /\ Grown(c, Inserted(c, i, e), i, e)
<1> DEFINE x == SubSeq(c, 1, i)
           y == SubSeq(c, i + 1, Len(c))
<1>1. Len(c) \in Nat /\ i \in Nat /\ i <= Len(c)
  OBVIOUS
<1>2. x \in Seq(S) /\ Len(x) = i /\ \A k \in 1..i : x[k] = c[k]
  BY <1>1
<1>3. y \in Seq(S) /\ Len(y) = Len(c) - i /\ \A k \in 1..Len(c)-i : y[k] = c[i + k]
  BY <1>1
<1>4. <<e>> \in Seq(S) /\ Len(<<e>>) = 1 /\ <<e>>[1] = e
  OBVIOUS
<1>5. Inserted(c, i, e) = x \o <<e>> \o y
  BY DEF Inserted
<1> HIDE DEF x, y
<1>6. /\ Inserted(c, i, e) \in Seq(S)
      /\ Len(Inserted(c, i, e)) = i + 1 + (Len(c) - i)
      /\ \A k \in 1..i : Inserted(c, i, e)[k] = x[k]
      /\ \A k \in 1..1 : Inserted(c, i, e)[i + k] = <<e>>[k]
      /\ \A k \in 1..Len(c)-i : Inserted(c, i, e)[i + 1 + k] = y[k]
  <2>1. x \o <<e>> \o y \in Seq(S) /\ Joins(x \o <<e>> \o y, x, <<e>>, y)
    BY <1>2, <1>3, <1>4, Joined
  <2> QED  BY <2>1, <1>2, <1>3, <1>4, <1>5 DEF Joins
<1>7. \A k \in i+1..Len(c) : Inserted(c, i, e)[k + 1] = c[k]
  <2> SUFFICES ASSUME NEW k \in i+1..Len(c)  PROVE Inserted(c, i, e)[k + 1] = c[k]
    OBVIOUS
  <2>1. k - i \in 1..Len(c)-i /\ i + 1 + (k - i) = k + 1 /\ i + (k - i) = k
    BY <1>1
  <2>2. Inserted(c, i, e)[i + 1 + (k - i)] = y[k - i]
    BY <2>1, <1>6
  <2>3. y[k - i] = c[i + (k - i)]
    BY <2>1, <1>3
  <2> QED  BY <2>1, <2>2, <2>3
<1>8. Inserted(c, i, e)[i + 1] = e
  BY <1>6, <1>4
<1>9. \A k \in 1..i : Inserted(c, i, e)[k] = c[k]
  BY <1>6, <1>2
<1> QED  BY <1>1, <1>6, <1>7, <1>8, <1>9 DEF Grown

LEMMA LineGrows ==
  ASSUME NEW S, NEW a \in Seq(S), NEW b \in Seq(S), NEW c \in Seq(S), NEW d \in Seq(S),
         NEW i, NEW e, Grown(c, d, i, e)
  PROVE  Grown(a \o b \o c, a \o b \o d, Len(a) + Len(b) + i, e)
<1> DEFINE s == a \o b \o c
           r == a \o b \o d
           m == Len(a) + Len(b)
<1>1. /\ Len(a) \in Nat /\ Len(b) \in Nat /\ Len(c) \in Nat /\ i \in Nat /\ i <= Len(c)
      /\ Len(d) = Len(c) + 1 /\ m \in Nat
  BY DEF Grown
<1>2. /\ Len(s) = m + Len(c)
      /\ \A k \in 1..Len(a) : s[k] = a[k]
      /\ \A k \in 1..Len(b) : s[Len(a) + k] = b[k]
      /\ \A k \in 1..Len(c) : s[m + k] = c[k]
  <2>1. Joins(s, a, b, c)
    BY Joined
  <2> QED  BY <2>1 DEF Joins
<1>3. /\ Len(r) = m + Len(d)
      /\ \A k \in 1..Len(a) : r[k] = a[k]
      /\ \A k \in 1..Len(b) : r[Len(a) + k] = b[k]
      /\ \A k \in 1..Len(d) : r[m + k] = d[k]
  <2>1. Joins(r, a, b, d)
    BY Joined
  <2> QED  BY <2>1 DEF Joins
<1>m. m = Len(a) + Len(b)
  OBVIOUS
<1> HIDE DEF s, r, m
<1>4. \A k \in 1..m+i : r[k] = s[k]
  <2> SUFFICES ASSUME NEW k \in 1..m+i  PROVE r[k] = s[k]
    OBVIOUS
  <2>1. CASE k <= Len(a)
    BY <2>1, <1>1, <1>2, <1>3
  <2>2. CASE k > Len(a) /\ k <= m
    <3>1. k - Len(a) \in 1..Len(b) /\ Len(a) + (k - Len(a)) = k
      BY <2>2, <1>1, <1>m
    <3>2. r[Len(a) + (k - Len(a))] = b[k - Len(a)] /\ s[Len(a) + (k - Len(a))] = b[k - Len(a)]
      BY <3>1, <1>2, <1>3
    <3> QED  BY <3>1, <3>2
  <2>3. CASE k > m
    <3>1. k - m \in 1..i /\ k - m \in 1..Len(c) /\ k - m \in 1..Len(d) /\ m + (k - m) = k
      BY <2>3, <1>1
    <3>2. d[k - m] = c[k - m]
      BY <3>1 DEF Grown
    <3> QED  BY <3>1, <3>2, <1>2, <1>3
  <2> QED  BY <2>1, <2>2, <2>3, <1>1
<1>5. r[m + i + 1] = e
  <2>1. i + 1 \in 1..Len(d) /\ m + (i + 1) = m + i + 1 /\ d[i + 1] = e
    BY <1>1 DEF Grown
  <2> QED  BY <2>1, <1>3
<1>6. \A k \in m+i+1..Len(s) : r[k + 1] = s[k]
  <2> SUFFICES ASSUME NEW k \in m+i+1..Len(s)  PROVE r[k + 1] = s[k]
    OBVIOUS
  <2>1. /\ k - m \in i+1..Len(c) /\ k - m \in 1..Len(c) /\ k - m + 1 \in 1..Len(d)
        /\ m + (k - m) = k /\ m + (k - m + 1) = k + 1
    BY <1>1, <1>2
  <2>2. d[k - m + 1] = c[k - m]
    BY <2>1 DEF Grown
  <2> QED  BY <2>1, <2>2, <1>2, <1>3
<1>7. m + i \in 0..Len(s) /\ Len(r) = Len(s) + 1
  BY <1>1, <1>2, <1>3
<1>8. Grown(s, r, m + i, e)
  BY <1>4, <1>5, <1>6, <1>7 DEF Grown
<1> QED  BY <1>8, <1>m DEF s, r

LEMMA LinePicked ==
  ASSUME NEW S, NEW a \in Seq(S), NEW b \in Seq(S), NEW c \in Seq(S), NEW d \in Seq(S),
         NEW f, Picked(c, d, f)
  PROVE  \E g : Picked(a \o b \o c, a \o b \o d, g)
<1> DEFINE s == a \o b \o c
           r == a \o b \o d
           m == Len(a) + Len(b)
           g == [k \in 1..Len(r) |-> IF k <= m THEN k ELSE m + f[k - m]]
<1>1. /\ Len(a) \in Nat /\ Len(b) \in Nat /\ Len(c) \in Nat /\ Len(d) \in Nat /\ m \in Nat
  OBVIOUS
<1>2. /\ Len(s) = m + Len(c)
      /\ \A k \in 1..Len(a) : s[k] = a[k]
      /\ \A k \in 1..Len(b) : s[Len(a) + k] = b[k]
      /\ \A k \in 1..Len(c) : s[m + k] = c[k]
  <2>1. Joins(s, a, b, c)
    BY Joined
  <2> QED  BY <2>1 DEF Joins
<1>3. /\ Len(r) = m + Len(d)
      /\ \A k \in 1..Len(a) : r[k] = a[k]
      /\ \A k \in 1..Len(b) : r[Len(a) + k] = b[k]
      /\ \A k \in 1..Len(d) : r[m + k] = d[k]
  <2>1. Joins(r, a, b, d)
    BY Joined
  <2> QED  BY <2>1 DEF Joins
<1>m. m = Len(a) + Len(b)
  OBVIOUS
<1>f. /\ \A k \in 1..Len(d) : f[k] \in 1..Len(c) /\ d[k] = c[f[k]]
      /\ \A k, l \in 1..Len(d) : k < l => f[k] < f[l]
  BY DEF Picked
<1> HIDE DEF s, r, m
<1>4. ASSUME NEW k \in 1..Len(r)
      PROVE  /\ g[k] \in 1..Len(s) /\ r[k] = s[g[k]]
             /\ k <= m => g[k] = k
             /\ k > m => k - m \in 1..Len(d) /\ g[k] = m + f[k - m]
  <2>1. CASE k <= Len(a)
    BY <2>1, <1>1, <1>2, <1>3, <1>m
  <2>2. CASE k > Len(a) /\ k <= m
    <3>1. k - Len(a) \in 1..Len(b) /\ Len(a) + (k - Len(a)) = k
      BY <2>2, <1>1, <1>m
    <3>2. g[k] = k /\ k \in 1..Len(s)
      BY <2>2, <1>1, <1>2
    <3>3. r[Len(a) + (k - Len(a))] = b[k - Len(a)] /\ s[Len(a) + (k - Len(a))] = b[k - Len(a)]
      BY <3>1, <1>2, <1>3
    <3> QED  BY <3>1, <3>2, <3>3, <2>2, <1>1
  <2>3. CASE k > m
    <3>1. k - m \in 1..Len(d) /\ m + (k - m) = k
      BY <2>3, <1>1, <1>3
    <3>2. g[k] = m + f[k - m]
      BY <2>3, <1>1
    <3>3. f[k - m] \in 1..Len(c) /\ d[k - m] = c[f[k - m]]
      BY <3>1, <1>f
    <3>4. m + f[k - m] \in 1..Len(s)
      BY <3>3, <1>1, <1>2
    <3>5. r[k] = s[m + f[k - m]]
      BY <3>1, <3>3, <1>2, <1>3
    <3> QED  BY <3>1, <3>2, <3>4, <3>5, <2>3, <1>1
  <2> QED  BY <2>1, <2>2, <2>3, <1>1
<1> HIDE DEF g
<1>5. g \in [1..Len(r) -> 1..Len(s)]
  BY <1>4 DEF g
<1>6. ASSUME NEW k \in 1..Len(r), NEW l \in 1..Len(r), k < l  PROVE g[k] < g[l]
  <2>1. CASE l <= m
    BY <1>4, <1>6, <2>1, <1>1
  <2>2. CASE k <= m /\ l > m
    <3>1. g[k] = k /\ g[l] = m + f[l - m] /\ l - m \in 1..Len(d)
      BY <1>4, <2>2
    <3>2. f[l - m] \in 1..Len(c)
      BY <3>1, <1>f
    <3> QED  BY <3>1, <3>2, <2>2, <1>1
  <2>3. CASE k > m /\ l > m
    <3>1. /\ g[k] = m + f[k - m] /\ k - m \in 1..Len(d)
          /\ g[l] = m + f[l - m] /\ l - m \in 1..Len(d)
      BY <1>4, <2>3
    <3>2. k - m < l - m
      BY <1>6, <1>1
    <3>3. f[k - m] < f[l - m] /\ f[k - m] \in 1..Len(c) /\ f[l - m] \in 1..Len(c)
      BY <3>1, <3>2, <1>f
    <3> QED  BY <3>1, <3>3, <1>1
  <2> QED  BY <2>1, <2>2, <2>3, <1>6, <1>1
<1>7. Picked(s, r, g)
  BY <1>4, <1>5, <1>6 DEF Picked
<1>8. \E h : Picked(s, r, h)
  BY <1>7
<1> QED  BY <1>8 DEF s, r

----------------------------------------------------------------------------
LEMMA LineType ==
  ASSUME TypeOK
  PROVE  Line \in Seq(Task) /\ InLine = RangeOf(Line) /\ InLine \subseteq Task
<1>1. Line \in Seq(Task)
  BY Joined DEF TypeOK, Line
<1>2. InLine = RangeOf(Line)
  BY DEF InLine, RangeOf
<1> QED  BY <1>1, <1>2 DEF RangeOf

LEMMA LineTypeNext ==
  ASSUME TypeOK'
  PROVE  Line' \in Seq(Task) /\ InLine' = RangeOf(Line') /\ InLine' \subseteq Task
<1>1. Line' \in Seq(Task)
  BY Joined DEF TypeOK, Line
<1>2. InLine' = RangeOf(Line')
  BY DEF InLine, RangeOf
<1> QED  BY <1>1, <1>2 DEF RangeOf

(* incoming_queue_ is part of the line. *)
LEMMA IncomingInLine ==
  ASSUME TypeOK
  PROVE  /\ \A i \in 1..Len(incoming) :
              Len(taken) + Len(work) + i \in 1..Len(Line) /\ incoming[i] = Line[Len(taken) + Len(work) + i]
         /\ \A i \in 1..Len(incoming) : incoming[i] \in InLine
         /\ \A i \in 1..Len(taken) : taken[i] \in InLine
<1>1. Line \in Seq(Task) /\ Joins(Line, taken, work, incoming)
  BY Joined DEF TypeOK, Line
<1>2. Len(taken) \in Nat /\ Len(work) \in Nat /\ Len(incoming) \in Nat /\ DOMAIN Line = 1..Len(Line)
  BY <1>1 DEF TypeOK
<1>3. \A i \in 1..Len(incoming) :
         Len(taken) + Len(work) + i \in 1..Len(Line) /\ incoming[i] = Line[Len(taken) + Len(work) + i]
  BY <1>1, <1>2 DEF Joins
<1>4. \A i \in 1..Len(taken) : i \in 1..Len(Line) /\ taken[i] = Line[i]
  BY <1>1, <1>2 DEF Joins
<1> QED  BY <1>2, <1>3, <1>4 DEF InLine

(* One more task: the set of all tasks grows by it. *)
LEMMA OneMore ==
  ASSUME Counted, NEW e, e \notin Everywhere,
         Everywhere' = Everywhere \cup {e},
         imm_seq \in Nat, del_seq \in Nat,
         imm_seq' + del_seq' = imm_seq + del_seq + 1
  PROVE  Counted'
<1>1. /\ IsFiniteSet(Everywhere \cup {e})
      /\ Cardinality(Everywhere \cup {e}) = Cardinality(Everywhere) + 1
  BY FS_AddElement DEF Counted
<1> QED  BY <1>1 DEF Counted

----------------------------------------------------------------------------
(* A post puts its task into the line; while nothing was promoted, at the end.*)
LEMMA PushGrows ==
  ASSUME QueueInv, NEW b \in Kinds, PushImmediateTask(b)
  PROVE  /\ TypeOK'
         /\ \E p : /\ Grown(Line, Line', p, [seq |-> imm_seq + 1, due |-> 0, block |-> b])
                   /\ ~promoted => p = Len(Line)
<1> DEFINE e == [seq |-> imm_seq + 1, due |-> 0, block |-> b]
<1>1. e \in Task
  BY KindAssumption DEF QueueInv, TypeOK, Task
<1>2. PICK i \in 0..Len(incoming) : i = InsertAt(imm_seq + 1) /\ incoming' = Inserted(incoming, i, e)
  BY DEF PushImmediateTask
<1>3. incoming \in Seq(Task) /\ work \in Seq(Task) /\ taken \in Seq(Task)
  BY DEF QueueInv, TypeOK
<1> HIDE DEF e
<1>4. incoming' \in Seq(Task) /\ Grown(incoming, incoming', i, e)
  BY <1>1, <1>2, <1>3, InsertedGrows
<1>5. TypeOK'
  BY <1>4 DEF QueueInv, TypeOK, PushImmediateTask
<1>6. Grown(Line, Line', Len(taken) + Len(work) + i, e)
  <2>1. Line' = taken \o work \o incoming'
    BY DEF Line, PushImmediateTask
  <2>2. Grown(taken \o work \o incoming, taken \o work \o incoming', Len(taken) + Len(work) + i, e)
    BY <1>3, <1>4, LineGrows
  <2> QED  BY <2>1, <2>2 DEF Line
<1>7. ASSUME ~promoted  PROVE Len(taken) + Len(work) + i = Len(Line)
  <2>1. i = Len(incoming)
    <3>1. CASE incoming = <<>>
      BY <3>1, <1>2 DEF InsertAt
    <3>2. CASE incoming # <<>>
      <4>1. Len(incoming) \in 1..Len(incoming)
        BY <3>2, <1>3
      <4>2. incoming[Len(incoming)] \in InLine
        BY <4>1, IncomingInLine DEF QueueInv
      <4>3. incoming[Len(incoming)].due = 0
        BY <4>2, <1>7 DEF QueueInv, AllPosted
      <4>4. incoming[Len(incoming)].seq <= imm_seq
        BY <4>2, <4>3 DEF QueueInv, Numbered, Everywhere
      <4>5. incoming[Len(incoming)].seq \in Nat /\ imm_seq \in Nat
        <5>1. incoming[Len(incoming)] \in Task
          BY <4>1, <1>3
        <5> QED  BY <5>1 DEF QueueInv, TypeOK, Task
      <4>6. imm_seq + 1 >= incoming[Len(incoming)].seq
        BY <4>4, <4>5
      <4> QED  BY <4>6, <1>2 DEF InsertAt
    <3> QED  BY <3>1, <3>2
  <2>2. Joins(Line, taken, work, incoming)
    BY <1>3, Joined DEF Line
  <2> QED  BY <2>1, <2>2 DEF Joins
<1> QED  BY <1>5, <1>6, <1>7 DEF e

LEMMA PushKeeps ==
  ASSUME QueueInv, NEW b \in Kinds, PushImmediateTask(b)
  PROVE  QueueInv'
<1> DEFINE e == [seq |-> imm_seq + 1, due |-> 0, block |-> b]
<1>1. PICK p : Grown(Line, Line', p, e) /\ (~promoted => p = Len(Line))
  BY PushGrows
<1>2. TypeOK /\ TypeOK'
  BY PushGrows DEF QueueInv
<1>3. /\ Line \in Seq(Task) /\ Line' \in Seq(Task)
      /\ InLine = RangeOf(Line) /\ InLine' = RangeOf(Line') /\ InLine \subseteq Task
  BY <1>2, LineType, LineTypeNext
<1>4. e \in Task /\ e.due = 0 /\ e.seq = imm_seq + 1
  BY KindAssumption, <1>2 DEF TypeOK, Task
<1>5. /\ heap' = heap /\ dropped' = dropped /\ imm_seq' = imm_seq + 1 /\ del_seq' = del_seq
      /\ single' = single /\ work' = work /\ now' = now /\ promoted' = promoted /\ rejecting' = rejecting
      /\ ~rejecting
  BY DEF PushImmediateTask
<1> HIDE DEF e
<1>6. InLine' = InLine \cup {e}
  BY <1>1, <1>3, GrownRange
<1>7. Everywhere' = Everywhere \cup {e}
  BY <1>5, <1>6 DEF Everywhere
<1>8. Everywhere \subseteq Task
  BY <1>2, <1>3 DEF Everywhere, TypeOK
<1>9. e \notin Everywhere
  <2>1. e \in Everywhere => imm_seq + 1 <= imm_seq
    BY <1>4 DEF QueueInv, Numbered
  <2> QED  BY <2>1, <1>2 DEF TypeOK
<1>10. OwnQueue'
  BY <1>5 DEF QueueInv, OwnQueue
<1>11. Numbered'
  <2> SUFFICES ASSUME NEW t \in Everywhere'
               PROVE  (t.due = 0 => t.seq <= imm_seq + 1) /\ (t.due > 0 => t.seq <= del_seq)
    BY <1>5 DEF Numbered
  <2>1. CASE t = e
    BY <2>1, <1>4, <1>2 DEF TypeOK
  <2>2. CASE t \in Everywhere
    BY <2>2, <1>8, <1>2 DEF QueueInv, Numbered, TypeOK, Task
  <2> QED  BY <2>1, <2>2, <1>7
<1>12. HeapDelayed'
  BY <1>5 DEF QueueInv, HeapDelayed
<1>13. LineDue'
  BY <1>4, <1>5, <1>6, <1>2 DEF QueueInv, LineDue, TypeOK
<1>14. HeapBehind'
  <2>1. \A u : Undisturbed(e, u)
    BY <1>4 DEF Undisturbed
  <2> QED  BY <2>1, <1>5, <1>6 DEF QueueInv, HeapBehind
<1>15. Delayeds(Line')
  BY <1>1, <1>3, <1>4, GrownDelayeds DEF QueueInv
<1>16. AllPosted'
  <2> SUFFICES ASSUME ~promoted  PROVE (\A t \in InLine' : t.due = 0) /\ Posts(Line')
    BY <1>5 DEF AllPosted
  <2>1. \A t \in InLine : t.due = 0
    BY DEF QueueInv, AllPosted
  <2>2. \A t \in RangeOf(Line) : PostOrder(t, e)
    <3> SUFFICES ASSUME NEW t \in InLine  PROVE PostOrder(t, e)
      BY <1>3
    <3>1. t.due = 0 /\ t.seq <= imm_seq /\ t.seq \in Nat /\ imm_seq \in Nat
      BY <2>1, <1>3, <1>2 DEF QueueInv, Numbered, Everywhere, TypeOK, Task
    <3> QED  BY <3>1, <1>4 DEF PostOrder
  <2>3. Posts(Line')
    BY <2>2, <1>1, <1>3, <1>4, GrownPosts DEF QueueInv, AllPosted
  <2> QED  BY <2>1, <2>3, <1>4, <1>6
<1>17. Separate'
  <2>1. Distinct(Line')
    BY <1>1, <1>3, <1>9, GrownDistinct DEF QueueInv, Separate, Everywhere
  <2> QED  BY <2>1, <1>5, <1>6, <1>9 DEF QueueInv, Separate, Everywhere
<1>18. Counted'
  BY <1>2, <1>5, <1>7, <1>9, OneMore DEF QueueInv, TypeOK
<1>19. OnlyBlockingLeft'
  BY <1>5 DEF OnlyBlockingLeft
<1> QED  BY <1>2, <1>10, <1>11, <1>12, <1>13, <1>14, <1>15, <1>16, <1>17, <1>18, <1>19 DEF QueueInv

----------------------------------------------------------------------------
(* A delayed post only adds to the heap, with a number of its own. *)
LEMMA PushDelayedKeeps ==
  ASSUME QueueInv, NEW d \in Dues, NEW b \in Kinds, PushDelayedTask(d, b)
  PROVE  QueueInv'
<1> DEFINE e == [seq |-> del_seq + 1, due |-> d, block |-> b]
<1>1. d \in Nat /\ d > 0
  BY QueueAssumption
<1>2. e \in Task /\ e.due > 0 /\ e.due # 0 /\ e.seq = del_seq + 1
  BY <1>1, KindAssumption DEF QueueInv, TypeOK, Task
<1>3. /\ heap' = heap \cup {e} /\ dropped' = dropped /\ imm_seq' = imm_seq /\ del_seq' = del_seq + 1
      /\ single' = single /\ work' = work /\ now' = now /\ promoted' = promoted /\ rejecting' = rejecting
      /\ ~rejecting /\ incoming' = incoming /\ taken' = taken
  BY DEF PushDelayedTask
<1> HIDE DEF e
<1>4. Line' = Line /\ InLine' = InLine
  BY <1>3 DEF Line, InLine
<1>5. TypeOK
  BY DEF QueueInv
<1>6. TypeOK'
  BY <1>2, <1>3, <1>5 DEF TypeOK, PushDelayedTask
<1>7. InLine \subseteq Task
  BY <1>5, LineType
<1>8. Everywhere \subseteq Task /\ Everywhere' = Everywhere \cup {e}
  BY <1>3, <1>4, <1>5, <1>7 DEF Everywhere, TypeOK
<1>9. e \notin Everywhere
  <2>1. e \in Everywhere => del_seq + 1 <= del_seq
    BY <1>2 DEF QueueInv, Numbered
  <2> QED  BY <2>1, <1>5 DEF TypeOK
<1>10. Numbered'
  <2> SUFFICES ASSUME NEW t \in Everywhere'
               PROVE  (t.due = 0 => t.seq <= imm_seq) /\ (t.due > 0 => t.seq <= del_seq + 1)
    BY <1>3 DEF Numbered
  <2>1. CASE t = e
    BY <2>1, <1>2, <1>5 DEF TypeOK
  <2>2. CASE t \in Everywhere
    BY <2>2, <1>8, <1>5 DEF QueueInv, Numbered, TypeOK, Task
  <2> QED  BY <2>1, <2>2, <1>8
<1>11. HeapDelayed'
  BY <1>2, <1>3 DEF QueueInv, HeapDelayed
<1>12. HeapBehind'
  <2>1. ASSUME NEW t \in InLine  PROVE Undisturbed(t, e)
    <3>1. t.due > 0 => t.seq <= del_seq
      BY DEF QueueInv, Numbered, Everywhere
    <3>2. t.seq \in Nat /\ del_seq \in Nat
      BY <1>5, <1>7 DEF TypeOK, Task
    <3> QED  BY <3>1, <3>2, <1>2 DEF Undisturbed
  <2> QED  BY <2>1, <1>3, <1>4 DEF QueueInv, HeapBehind
<1>13. Separate'
  BY <1>3, <1>4, <1>9 DEF QueueInv, Separate, Everywhere
<1>14. Counted'
  BY <1>3, <1>5, <1>8, <1>9, OneMore DEF QueueInv, TypeOK
<1>15. OwnQueue' /\ LineDue' /\ Delayeds(Line') /\ AllPosted' /\ OnlyBlockingLeft'
  BY <1>3, <1>4 DEF QueueInv, OwnQueue, LineDue, AllPosted, OnlyBlockingLeft
<1> QED  BY <1>6, <1>10, <1>11, <1>12, <1>13, <1>14, <1>15 DEF QueueInv

----------------------------------------------------------------------------
(* A promotion moves the first of the due tasks to the end of the line: the   *)
(* tasks left in the heap are due later, or were posted later.                *)
LEMMA PromoteKeeps ==
  ASSUME QueueInv, PromoteReadyDelayedTasks
  PROVE  QueueInv'
<1>1. PICK t \in Ready :
        /\ \A u \in Ready \ {t} : Before(t, u)
        /\ incoming' = Append(incoming, t)
        /\ heap' = heap \ {t}
        /\ promoting' = (Ready # {t})
        /\ promoted' = TRUE
        /\ UNCHANGED <<single, work, imm_seq, del_seq, rejecting, shut_down, now, taken, dropped>>
  BY DEF PromoteReadyDelayedTasks
<1>2. TypeOK
  BY DEF QueueInv
<1>3. t \in heap /\ t \in Task /\ t.due <= now /\ t.due > 0
  BY <1>1, <1>2 DEF Ready, TypeOK, QueueInv, HeapDelayed
<1>4. incoming \in Seq(Task) /\ work \in Seq(Task) /\ taken \in Seq(Task)
  BY <1>2 DEF TypeOK
<1>5. incoming' \in Seq(Task) /\ Grown(incoming, incoming', Len(incoming), t)
  BY <1>1, <1>3, <1>4 DEF Grown
<1>6. TypeOK'
  BY <1>1, <1>2, <1>5 DEF TypeOK
<1>7. Grown(Line, Line', Len(Line), t)
  <2>1. Line' = taken \o work \o incoming'
    BY <1>1 DEF Line
  <2>2. Grown(taken \o work \o incoming, taken \o work \o incoming', Len(taken) + Len(work) + Len(incoming), t)
    BY <1>4, <1>5, LineGrows
  <2>3. Joins(Line, taken, work, incoming)
    BY <1>4, Joined DEF Line
  <2> QED  BY <2>1, <2>2, <2>3 DEF Line, Joins
<1>8. /\ Line \in Seq(Task) /\ Line' \in Seq(Task)
      /\ InLine = RangeOf(Line) /\ InLine' = RangeOf(Line') /\ InLine \subseteq Task
  BY <1>2, <1>6, LineType, LineTypeNext
<1>9. InLine' = InLine \cup {t}
  BY <1>7, <1>8, GrownRange
<1>10. Everywhere' = Everywhere
  BY <1>1, <1>3, <1>9 DEF Everywhere
<1>11. t \notin InLine /\ t \notin dropped
  BY <1>3 DEF QueueInv, Separate
<1>12. HeapBehind'
  <2>1. ASSUME NEW u \in heap \ {t}  PROVE Undisturbed(t, u)
    <3>1. u \in Task
      BY <1>2 DEF TypeOK
    <3>2. CASE u \in Ready
      BY <3>1, <3>2, <1>1, <1>3 DEF Before, Undisturbed, Task
    <3>3. CASE u \notin Ready
      BY <3>1, <3>3, <1>2, <1>3 DEF Ready, Undisturbed, Task, TypeOK
    <3> QED  BY <3>2, <3>3
  <2> QED  BY <2>1, <1>1, <1>9 DEF QueueInv, HeapBehind
<1>13. Delayeds(Line')
  <2>1. \A x \in RangeOf(Line) : Undisturbed(x, t)
    BY <1>3, <1>8 DEF QueueInv, HeapBehind
  <2> QED  BY <2>1, <1>3, <1>7, <1>8, GrownDelayeds DEF QueueInv
<1>14. Separate'
  <2>1. Distinct(Line')
    BY <1>7, <1>8, <1>11, GrownDistinct DEF QueueInv, Separate
  <2> QED  BY <2>1, <1>1, <1>9, <1>11 DEF QueueInv, Separate
<1>15. Numbered' /\ Counted'
  BY <1>1, <1>10 DEF QueueInv, Numbered, Counted
<1>16. OwnQueue' /\ HeapDelayed' /\ AllPosted'
  BY <1>1 DEF QueueInv, OwnQueue, HeapDelayed, AllPosted
<1>17. LineDue'
  BY <1>1, <1>3, <1>9 DEF QueueInv, LineDue
<1>18. OnlyBlockingLeft'
  <2> SUFFICES ASSUME rejecting
               PROVE  (\A i \in DOMAIN incoming' : incoming'[i].block) /\ (\A u \in heap' : u.block)
    BY <1>1 DEF OnlyBlockingLeft
  <2>1. (\A i \in DOMAIN incoming : incoming[i].block) /\ (\A u \in heap : u.block)
    BY DEF QueueInv, OnlyBlockingLeft
  <2>2. ASSUME NEW i \in DOMAIN incoming'  PROVE incoming'[i] = t \/ \E k \in DOMAIN incoming : incoming'[i] = incoming[k]
    BY <1>1, <1>3, <1>4
  <2> QED  BY <2>1, <2>2, <1>1, <1>3
<1> QED  BY <1>6, <1>12, <1>13, <1>14, <1>15, <1>16, <1>17, <1>18 DEF QueueInv

----------------------------------------------------------------------------
(* A take moves the cut between what was taken and what is left. *)
LEMMA Cut ==
  ASSUME NEW S, NEW s \in Seq(S), NEW n \in 1..Len(s)
  PROVE  /\ SubSeq(s, 1, n) \in Seq(S) /\ SubSeq(s, n + 1, Len(s)) \in Seq(S)
         /\ SubSeq(s, 1, n) \o SubSeq(s, n + 1, Len(s)) = s
<1> DEFINE x == SubSeq(s, 1, n)
           y == SubSeq(s, n + 1, Len(s))
<1>1. Len(s) \in Nat /\ n \in Nat /\ n <= Len(s)
  OBVIOUS
<1>2. x \in Seq(S) /\ Len(x) = n /\ \A k \in 1..n : x[k] = s[k]
  BY <1>1
<1>3. y \in Seq(S) /\ Len(y) = Len(s) - n /\ \A k \in 1..Len(s)-n : y[k] = s[n + k]
  BY <1>1
<1> HIDE DEF x, y
<1>4. x \o y \in Seq(S) /\ Len(x \o y) = Len(s)
  <2>1. x \o y \in Seq(S) /\ Len(x \o y) = Len(x) + Len(y)
    BY <1>2, <1>3, ConcatProperties
  <2> QED  BY <2>1, <1>1, <1>2, <1>3
<1>5. ASSUME NEW k \in 1..Len(s)  PROVE (x \o y)[k] = s[k]
  <2>1. CASE k <= n
    BY <2>1, <1>1, <1>2, <1>3
  <2>2. CASE k > n
    <3>1. k - n \in 1..Len(s)-n /\ n + (k - n) = k
      BY <2>2, <1>1
    <3>2. (x \o y)[k] = y[k - n]
      BY <2>2, <1>1, <1>2, <1>3
    <3> QED  BY <3>1, <3>2, <1>3
  <2>3. k <= n \/ k > n
    BY <1>1
  <2> QED  BY <2>1, <2>2, <2>3, Zenon
<1>6. x \o y = s
  BY <1>4, <1>5, SeqEqual
<1> QED  BY <1>2, <1>3, <1>6 DEF x, y

LEMMA TakeMovesCut ==
  ASSUME QueueInv, NEW k \in 1..BatchSize, TakeImmediateTasks(k)
  PROVE  /\ TypeOK' /\ OwnQueue' /\ Line' = Line
         /\ \A i \in DOMAIN incoming' : \E j \in DOMAIN incoming : incoming'[i] = incoming[j]
<1>1. PICK n \in Counts(Source, k) :
        /\ taken' = taken \o SubSeq(Source, 1, n)
        /\ IF single
           THEN /\ work' = SubSeq(Source, n + 1, Len(Source))
                /\ incoming' = IF work = <<>> THEN <<>> ELSE incoming
           ELSE /\ incoming' = SubSeq(Source, n + 1, Len(Source))
                /\ UNCHANGED work
        /\ UNCHANGED <<single, heap, imm_seq, del_seq, rejecting, shut_down, promoting, now, dropped, promoted>>
  BY DEF TakeImmediateTasks
<1>2. TypeOK /\ incoming \in Seq(Task) /\ work \in Seq(Task) /\ taken \in Seq(Task)
  BY DEF QueueInv, TypeOK
<1>3. n \in 1..Len(Source) /\ Source \in Seq(Task)
  BY <1>1, <1>2 DEF Counts, Source
<1> DEFINE x == SubSeq(Source, 1, n)
           y == SubSeq(Source, n + 1, Len(Source))
<1>4. x \in Seq(Task) /\ y \in Seq(Task)
  BY <1>3, Cut
<1>10. x \o y = Source
  BY <1>3, Cut
<1>11. PICK u, v : u = x /\ v = y
  OBVIOUS
<1>12. (taken \o u) \o v = taken \o (u \o v)
  <2> HIDE DEF x, y
  <2>1. u \in Seq(Task) /\ v \in Seq(Task)
    BY <1>4, <1>11
  <2>2. taken \in Seq(Task)
    BY <1>2
  <2> QED  BY <2>1, <2>2
<1>5. taken' = taken \o x
  BY <1>1
<1>6. taken' \in Seq(Task)
  BY <1>2, <1>4, <1>5
<1>7. CASE single /\ work # <<>>
  <2>1. Source = work /\ work' = y /\ incoming' = incoming
    BY <1>1, <1>7 DEF Source
  <2> HIDE DEF x, y
  <2>2. (taken \o x) \o y = taken \o work
    <3>1. (taken \o x) \o y = taken \o (x \o y)
      BY <1>11, <1>12, Zenon
    <3> QED  BY <3>1, <2>1, <1>10, Zenon
  <2>3. Line' = Line
    BY <2>1, <2>2, <1>5 DEF Line
  <2>4. TypeOK' /\ OwnQueue'
    BY <2>1, <1>1, <1>2, <1>4, <1>6, <1>7 DEF TypeOK, OwnQueue
  <2> QED  BY <2>1, <2>3, <2>4
<1>8. CASE single /\ work = <<>>
  <2>1. Source = incoming /\ work' = y /\ incoming' = <<>>
    BY <1>1, <1>8 DEF Source
  <2> HIDE DEF x, y
  <2>2. (taken \o x) \o y = taken \o incoming
    <3>1. (taken \o x) \o y = taken \o (x \o y)
      BY <1>11, <1>12, Zenon
    <3> QED  BY <3>1, <2>1, <1>10, Zenon
  <2>3. Line' = ((taken \o x) \o y) \o <<>> /\ Line = (taken \o <<>>) \o incoming
    BY <2>1, <1>5, <1>8 DEF Line
  <2>4. taken \o <<>> = taken /\ (taken \o incoming) \o <<>> = taken \o incoming
    BY <1>2, ConcatEmptySeq
  <2>5. Line' = Line
    BY <2>2, <2>3, <2>4
  <2>6. TypeOK' /\ OwnQueue'
    BY <2>1, <1>1, <1>2, <1>4, <1>6, <1>8 DEF TypeOK, OwnQueue
  <2> QED  BY <2>1, <2>5, <2>6
<1>9. CASE ~single
  <2>1. Source = incoming /\ incoming' = y /\ work' = work /\ work = <<>>
    BY <1>1, <1>9 DEF Source, QueueInv, OwnQueue
  <2>2. ASSUME NEW i \in DOMAIN incoming'  PROVE \E j \in DOMAIN incoming : incoming'[i] = incoming[j]
    <3>1. /\ Len(incoming) \in Nat /\ n \in Nat /\ n <= Len(incoming)
          /\ Len(incoming') = Len(incoming) - n /\ i \in 1..Len(incoming)-n
          /\ incoming'[i] = incoming[n + i]
      BY <2>1, <2>2, <1>2, <1>3
    <3>2. n + i \in DOMAIN incoming
      BY <3>1, <1>2
    <3> QED  BY <3>1, <3>2
  <2> HIDE DEF x, y
  <2>3. (taken \o x) \o y = taken \o incoming
    <3>1. (taken \o x) \o y = taken \o (x \o y)
      BY <1>11, <1>12, Zenon
    <3> QED  BY <3>1, <2>1, <1>10, Zenon
  <2>4. Line' = ((taken \o x) \o <<>>) \o y /\ Line = (taken \o <<>>) \o incoming
    BY <2>1, <1>5 DEF Line
  <2>5. taken \o <<>> = taken /\ (taken \o x) \o <<>> = taken \o x
    BY <1>2, <1>4, <1>5, <1>6, ConcatEmptySeq
  <2>6. Line' = Line
    BY <2>3, <2>4, <2>5
  <2>7. TypeOK' /\ OwnQueue'
    BY <2>1, <1>1, <1>2, <1>4, <1>6 DEF TypeOK, OwnQueue
  <2> QED  BY <2>2, <2>6, <2>7
<1> QED  BY <1>7, <1>8, <1>9

LEMMA TakeKeeps ==
  ASSUME QueueInv, NEW k \in 1..BatchSize, TakeImmediateTasks(k)
  PROVE  QueueInv'
<1>1. /\ TypeOK' /\ OwnQueue' /\ Line' = Line
      /\ \A i \in DOMAIN incoming' : \E j \in DOMAIN incoming : incoming'[i] = incoming[j]
  BY TakeMovesCut
<1>2. UNCHANGED <<single, heap, imm_seq, del_seq, rejecting, shut_down, promoting, now, dropped, promoted>>
  BY DEF TakeImmediateTasks
<1>3. InLine' = InLine
  BY <1>1 DEF InLine
<1>4. Everywhere' = Everywhere
  BY <1>2, <1>3 DEF Everywhere
<1>5. Numbered' /\ HeapDelayed' /\ LineDue' /\ HeapBehind' /\ Counted'
  BY <1>2, <1>3, <1>4 DEF QueueInv, Numbered, HeapDelayed, LineDue, HeapBehind, Counted
<1>6. Delayeds(Line') /\ AllPosted' /\ Separate'
  BY <1>1, <1>2, <1>3 DEF QueueInv, AllPosted, Separate
<1>7. OnlyBlockingLeft'
  BY <1>1, <1>2 DEF QueueInv, OnlyBlockingLeft
<1> QED  BY <1>1, <1>5, <1>6, <1>7 DEF QueueInv

----------------------------------------------------------------------------
(* A cancellation keeps the tasks that block shutdown, in their order, and    *)
(* drops the others of incoming_queue_ and of the heap.                       *)
LEMMA CancelPicks ==
  ASSUME TypeOK, Cancelled
  PROVE  \E f : /\ Picked(incoming, incoming', f) /\ incoming' \in Seq(Task)
                /\ \A i \in 1..Len(incoming') : incoming'[i].block
                /\ \A j \in 1..Len(incoming) : incoming[j].block => \E i \in 1..Len(incoming') : f[i] = j
<1> DEFINE B == BlockingAt(incoming)
           n == Cardinality(B)
<1>1. incoming \in Seq(Task) /\ DOMAIN incoming = 1..Len(incoming) /\ Len(incoming) \in Nat
  BY DEF TypeOK
<1>2. B \subseteq 1..Len(incoming) /\ \A j \in B : incoming[j].block
  BY <1>1 DEF BlockingAt
<1>3. n \in Nat
  <2>1. IsFiniteSet(1..Len(incoming))
    BY <1>1, FS_Interval
  <2>2. IsFiniteSet(B)
    BY <2>1, <1>2, FS_Subset
  <2> QED  BY <2>2, FS_CardinalityType
<1>4. PICK f \in [1..n -> B] :
        Keeps(f, incoming) /\ incoming' = [i \in DOMAIN f |-> incoming[f[i]]]
  BY DEF Cancelled
<1>b. B = BlockingAt(incoming)
  OBVIOUS
<1> HIDE DEF n, B
<1>5. incoming' = [i \in 1..n |-> incoming[f[i]]]
  BY <1>4
<1>6. incoming' \in [1..n -> Task]
  <2>1. ASSUME NEW i \in 1..n  PROVE incoming[f[i]] \in Task
    <3>1. f[i] \in B
      BY <1>4
    <3>2. f[i] \in 1..Len(incoming)
      BY <3>1, <1>2
    <3> QED  BY <3>2, <1>1
  <2> QED  BY <2>1, <1>5
<1>7. incoming' \in Seq(Task) /\ Len(incoming') = n
  BY <1>3, <1>6
<1>8. Picked(incoming, incoming', f)
  BY <1>2, <1>3, <1>4, <1>5, <1>7 DEF Picked, Keeps
<1>9. \A i \in 1..Len(incoming') : incoming'[i].block
  BY <1>2, <1>4, <1>5, <1>7
<1>10. \A j \in 1..Len(incoming) : incoming[j].block => \E i \in 1..Len(incoming') : f[i] = j
  BY <1>1, <1>4, <1>7, <1>b DEF Keeps, BlockingAt
<1> QED  BY <1>7, <1>8, <1>9, <1>10

LEMMA CancelKeeps ==
  ASSUME QueueInv, Cancelled, rejecting' \in BOOLEAN, shut_down' \in BOOLEAN
  PROVE  QueueInv'
<1>1. TypeOK /\ taken \in Seq(Task) /\ work \in Seq(Task) /\ incoming \in Seq(Task)
  BY DEF QueueInv, TypeOK
<1>2. PICK f : /\ Picked(incoming, incoming', f) /\ incoming' \in Seq(Task)
               /\ \A i \in 1..Len(incoming') : incoming'[i].block
               /\ \A j \in 1..Len(incoming) : incoming[j].block => \E i \in 1..Len(incoming') : f[i] = j
  BY <1>1, CancelPicks
<1> DEFINE Gone == {incoming[i] : i \in {j \in DOMAIN incoming : ~incoming[j].block}}
<1>3. /\ heap' = {t \in heap : t.block}
      /\ dropped' = dropped \cup {t \in heap : ~t.block} \cup Gone
      /\ UNCHANGED <<single, work, imm_seq, del_seq, promoting, now, taken, promoted>>
  BY DEF Cancelled
<1>4. DOMAIN incoming = 1..Len(incoming) /\ DOMAIN incoming' = 1..Len(incoming')
  BY <1>1, <1>2
<1>5. Gone \subseteq InLine /\ Gone \subseteq Task /\ InLine \subseteq Task
  BY <1>1, <1>4, IncomingInLine, LineType
<1>6. TypeOK'
  BY <1>1, <1>2, <1>3, <1>5 DEF TypeOK
<1>7. /\ Line \in Seq(Task) /\ Line' \in Seq(Task)
      /\ InLine = RangeOf(Line) /\ InLine' = RangeOf(Line')
      /\ DOMAIN Line = 1..Len(Line) /\ DOMAIN Line' = 1..Len(Line')
  BY <1>1, <1>6, LineType, LineTypeNext
<1>8. \E g : Picked(Line, Line', g)
  <2>1. Line' = taken \o work \o incoming'
    BY <1>3 DEF Line
  <2>2. \E g : Picked(taken \o work \o incoming, taken \o work \o incoming', g)
    BY <1>1, <1>2, LinePicked
  <2> QED  BY <2>1, <2>2 DEF Line
<1>9. /\ InLine' \subseteq InLine /\ Distinct(Line') /\ Delayeds(Line')
      /\ Posts(Line) => Posts(Line')
  BY <1>7, <1>8, PickedKeeps DEF QueueInv, Separate
<1> DEFINE m == Len(taken) + Len(work)
<1>10. Len(taken) \in Nat /\ Len(work) \in Nat /\ Len(incoming) \in Nat /\ Len(incoming') \in Nat /\ m \in Nat
  BY <1>1, <1>2
<1>11. /\ Len(Line) = m + Len(incoming)
       /\ \A i \in 1..Len(incoming) : Line[m + i] = incoming[i]
       /\ Len(Line') = m + Len(incoming')
       /\ \A i \in 1..Len(incoming') : Line'[m + i] = incoming'[i]
       /\ \A i \in 1..m : Line'[i] = Line[i]
  <2>1. Joins(Line, taken, work, incoming)
    BY <1>1, Joined DEF Line
  <2>2. Joins(Line', taken, work, incoming')
    BY <1>1, <1>2, <1>3, Joined DEF Line
  <2>3. ASSUME NEW i \in 1..m  PROVE Line'[i] = Line[i]
    <3>1. CASE i <= Len(taken)
      BY <3>1, <2>1, <2>2, <1>10 DEF Joins
    <3>2. CASE i > Len(taken)
      <4>1. i - Len(taken) \in 1..Len(work) /\ Len(taken) + (i - Len(taken)) = i
        BY <3>2, <1>10
      <4>2. /\ Line[Len(taken) + (i - Len(taken))] = work[i - Len(taken)]
            /\ Line'[Len(taken) + (i - Len(taken))] = work[i - Len(taken)]
        BY <4>1, <2>1, <2>2 DEF Joins
      <4> QED  BY <4>1, <4>2
    <3> QED  BY <3>1, <3>2, <1>10
  <2> QED  BY <2>1, <2>2, <2>3 DEF Joins
<1> HIDE DEF m
<1>12. InLine \subseteq InLine' \cup Gone
  <2> SUFFICES ASSUME NEW k \in 1..Len(Line)  PROVE Line[k] \in InLine' \cup Gone
    BY <1>7 DEF InLine
  <2>1. CASE k <= m
    <3>1. k \in 1..Len(Line') /\ Line'[k] = Line[k]
      BY <2>1, <1>10, <1>11
    <3> QED  BY <3>1, <1>7 DEF InLine
  <2>2. CASE k > m
    <3>1. k - m \in 1..Len(incoming) /\ m + (k - m) = k
      BY <2>2, <1>10, <1>11
    <3>2. Line[k] = incoming[k - m]
      BY <3>1, <1>11
    <3>3. CASE incoming[k - m].block
      <4>1. PICK i \in 1..Len(incoming') : f[i] = k - m
        BY <3>1, <3>3, <1>2
      <4>2. incoming'[i] = incoming[k - m]
        BY <4>1, <1>2 DEF Picked
      <4>3. m + i \in 1..Len(Line') /\ Line'[m + i] = incoming'[i]
        BY <1>10, <1>11
      <4> QED  BY <4>2, <4>3, <3>2, <1>7 DEF InLine
    <3>4. CASE ~incoming[k - m].block
      BY <3>1, <3>2, <3>4, <1>4
    <3> QED  BY <3>3, <3>4
  <2> QED  BY <2>1, <2>2, <1>10
<1>13. InLine' \cap Gone = {}
  <2> SUFFICES ASSUME NEW k \in 1..Len(Line'), NEW i \in 1..Len(incoming), ~incoming[i].block,
                      Line'[k] = incoming[i]
               PROVE  FALSE
    BY <1>4, <1>7 DEF InLine
  <2>1. m + i \in 1..Len(Line) /\ Line[m + i] = incoming[i]
    BY <1>10, <1>11
  <2>2. CASE k <= m
    <3>1. k \in 1..Len(Line) /\ k < m + i /\ Line'[k] = Line[k]
      BY <2>2, <1>10, <1>11
    <3> QED  BY <3>1, <2>1 DEF QueueInv, Separate, Distinct
  <2>3. CASE k > m
    <3>1. k - m \in 1..Len(incoming') /\ m + (k - m) = k
      BY <2>3, <1>10, <1>11
    <3>2. Line'[k] = incoming'[k - m]
      BY <3>1, <1>11
    <3> QED  BY <3>1, <3>2, <1>2
  <2> QED  BY <2>2, <2>3, <1>10
<1> HIDE DEF Gone
<1>14. Everywhere' = Everywhere
  BY <1>3, <1>5, <1>9, <1>12 DEF Everywhere
<1>15. Separate'
  BY <1>3, <1>5, <1>9, <1>13 DEF QueueInv, Separate
<1>16. Numbered' /\ Counted'
  BY <1>3, <1>14 DEF QueueInv, Numbered, Counted
<1>17. OwnQueue' /\ HeapDelayed' /\ LineDue' /\ HeapBehind' /\ AllPosted'
  BY <1>3, <1>9 DEF QueueInv, OwnQueue, HeapDelayed, LineDue, HeapBehind, AllPosted
<1>18. OnlyBlockingLeft'
  BY <1>2, <1>3, <1>4 DEF OnlyBlockingLeft
<1> QED  BY <1>6, <1>9, <1>15, <1>16, <1>17, <1>18 DEF QueueInv

----------------------------------------------------------------------------
LEMMA TickKeeps ==
  ASSUME QueueInv, Tick
  PROVE  QueueInv'
<1>1. /\ now' = now + 1
      /\ UNCHANGED <<single, incoming, work, heap, imm_seq, del_seq, rejecting, shut_down, promoting, taken,
                     dropped, promoted>>
  BY DEF Tick
<1>2. TypeOK
  BY DEF QueueInv
<1>3. Line' = Line /\ InLine' = InLine
  BY <1>1 DEF Line, InLine
<1>4. Everywhere' = Everywhere
  BY <1>1, <1>3 DEF Everywhere
<1>5. TypeOK'
  BY <1>1, <1>2 DEF TypeOK
<1>6. LineDue'
  BY <1>1, <1>2, <1>3, LineType DEF QueueInv, LineDue, TypeOK, Task
<1>7. Numbered' /\ HeapDelayed' /\ HeapBehind' /\ Counted' /\ OwnQueue'
  BY <1>1, <1>3, <1>4 DEF QueueInv, Numbered, HeapDelayed, HeapBehind, Counted, OwnQueue
<1>8. Delayeds(Line') /\ AllPosted' /\ Separate' /\ OnlyBlockingLeft'
  BY <1>1, <1>3 DEF QueueInv, AllPosted, Separate, OnlyBlockingLeft
<1> QED  BY <1>5, <1>6, <1>7, <1>8 DEF QueueInv

LEMMA QueueInvInit ==
  ASSUME Init
  PROVE  QueueInv
<1>1. Line = <<>>
  BY DEF Init, Line
<1>2. InLine = {} /\ Everywhere = {}
  BY <1>1 DEF Init, InLine, Everywhere
<1>3. Counted
  BY <1>2, FS_EmptySet DEF Init, Counted
<1>4. TypeOK
  <2>1. <<>> \in Seq(Task)
    OBVIOUS
  <2> QED  BY <2>1 DEF Init, TypeOK
<1>5. Delayeds(Line) /\ Posts(Line) /\ Distinct(Line)
  BY <1>1 DEF Delayeds, Posts, Distinct
<1> QED
  BY <1>2, <1>3, <1>4, <1>5
  DEF Init, QueueInv, OwnQueue, Numbered, HeapDelayed, LineDue, HeapBehind, AllPosted, Separate, OnlyBlockingLeft

LEMMA QueueInvNext ==
  ASSUME QueueInv, [Next]_vars
  PROVE  QueueInv'
<1>1. ASSUME NEW b \in Kinds, PushImmediateTask(b)  PROVE QueueInv'
  BY <1>1, PushKeeps
<1>2. ASSUME NEW d \in Dues, NEW b \in Kinds, PushDelayedTask(d, b)  PROVE QueueInv'
  BY <1>2, PushDelayedKeeps
<1>3. ASSUME PromoteReadyDelayedTasks  PROVE QueueInv'
  BY <1>3, PromoteKeeps
<1>4. ASSUME NEW k \in 1..BatchSize, TakeImmediateTasks(k)  PROVE QueueInv'
  BY <1>4, TakeKeeps
<1>5. ASSUME CancelNonShutdownBlockingTasks  PROVE QueueInv'
  <2>1. Cancelled /\ rejecting' \in BOOLEAN /\ shut_down' \in BOOLEAN
    BY <1>5 DEF CancelNonShutdownBlockingTasks, QueueInv, TypeOK
  <2> QED  BY <2>1, CancelKeeps
<1>6. ASSUME Shutdown  PROVE QueueInv'
  <2>1. Cancelled /\ rejecting' \in BOOLEAN /\ shut_down' \in BOOLEAN
    BY <1>6 DEF Shutdown
  <2> QED  BY <2>1, CancelKeeps
<1>7. ASSUME Tick  PROVE QueueInv'
  BY <1>7, TickKeeps
<1>8. ASSUME UNCHANGED vars  PROVE QueueInv'
  <2>1. Line' = Line
    BY <1>8 DEF vars, Line
  <2>2. InLine' = InLine /\ Everywhere' = Everywhere
    BY <1>8, <2>1 DEF vars, InLine, Everywhere
  <2>3. TypeOK' /\ OwnQueue' /\ OnlyBlockingLeft'
    BY <1>8 DEF vars, QueueInv, TypeOK, OwnQueue, OnlyBlockingLeft
  <2>4. Numbered' /\ HeapDelayed' /\ LineDue' /\ HeapBehind' /\ Counted'
    BY <1>8, <2>2 DEF vars, QueueInv, Numbered, HeapDelayed, LineDue, HeapBehind, Counted
  <2>5. Delayeds(Line') /\ AllPosted' /\ Separate'
    BY <1>8, <2>1, <2>2 DEF vars, QueueInv, AllPosted, Separate
  <2> QED  BY <2>3, <2>4, <2>5 DEF QueueInv
<1> QED  BY <1>1, <1>2, <1>3, <1>4, <1>5, <1>6, <1>7, <1>8 DEF Next

LEMMA QueueInvGivesOrder ==
  ASSUME QueueInv
  PROVE  QueueOrder
<1>1. TypeOK /\ DOMAIN taken = 1..Len(taken) /\ Line \in Seq(Task)
  BY LineType DEF QueueInv, TypeOK
<1>2. DOMAIN Line = 1..Len(Line) /\ Len(Line) \in Nat
  BY <1>1
<1>3. ASSUME NEW i \in DOMAIN Line, NEW j \in DOMAIN Line, Line[i] = Line[j]  PROVE i = j
  <2>1. ~(i < j) /\ ~(j < i)
    BY <1>2, <1>3 DEF QueueInv, Separate, Distinct
  <2> QED  BY <2>1, <1>2
<1>4. Conserved
  BY <1>3 DEF Conserved, QueueInv, Separate, Counted, Everywhere
<1>5. NeverEarly
  BY <1>1, IncomingInLine DEF NeverEarly, QueueInv, LineDue
<1>6. DelayedInOrder
  BY <1>2 DEF DelayedInOrder, QueueInv, Delayeds, Undisturbed
<1>7. FifoUnlessPromoted
  BY <1>2 DEF FifoUnlessPromoted, Fifo, QueueInv, AllPosted, Posts, PostOrder
<1> QED  BY <1>4, <1>5, <1>6, <1>7 DEF QueueOrder, QueueInv

(* The invariant behind the two theorems. *)
THEOREM QueueInvariant == Spec => []QueueInv
<1>1. Init => QueueInv
  BY QueueInvInit
<1>2. QueueInv /\ [Next]_vars => QueueInv'
  BY QueueInvNext
<1> QED  BY <1>1, <1>2, PTL DEF Spec

(* The queues, the heap and the counters keep their types under every post,   *)
(* promotion, take, cancellation and shutdown.                                *)
THEOREM TypeCorrect == Spec => []TypeOK
<1>1. QueueInv => TypeOK
  BY DEF QueueInv
<1> QED  BY <1>1, QueueInvariant, PTL

(* Whatever is posted, with whatever run times, and whenever consumers take,  *)
(* the clock ticks or the queue is cancelled: no task is lost or doubled, none *)
(* is handed out before its time, of two delayed tasks the one posted first   *)
(* and due no later goes first, posts keep their order until the first        *)
(* promotion, and after a cancellation only tasks that block shutdown are     *)
(* left in the shared queue and in the heap.                                  *)
THEOREM QueueIsOrdered == Spec => []QueueOrder
<1>1. QueueInv => QueueOrder
  BY QueueInvGivesOrder
<1> QED  BY <1>1, QueueInvariant, PTL
=============================================================================
