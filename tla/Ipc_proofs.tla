----------------------------- MODULE Ipc_proofs ------------------------------
(***************************************************************************)
(* Proofs about Ipc.  The rpc endpoint, for every id space, every first id *)
(* and every number of requests before the counter wraps: ids differ, a    *)
(* callback runs at most once, with the reply to its own request, and a    *)
(* request whose callback has not run is never forgotten.  The message channel, for      *)
(* every size, bound and cut of the streams: the error callback runs at    *)
(* most once, and Close drains what was sent before it runs.               *)
(***************************************************************************)
EXTENDS Ipc, SequenceTheorems, FiniteSetTheorems, TLAPS

(* Two endpoints; the counter does not wrap back to zero: from FirstId = 1,   *)
(* as in the code, that is 2^64 - 1 requests.                                 *)
RpcConstants ==
  /\ \E a, b : a # b /\ Ends = {a, b}
  /\ IdSpace \in Nat /\ FirstId \in 1..(IdSpace - 1)
  /\ MaxRequests \in [Ends -> Nat] /\ \A e \in Ends : FirstId + MaxRequests[e] <= IdSpace
  /\ MaxStray \in Nat

Entry == [id : Nat, call : Nat, timer : BOOLEAN]
Served == [id : Nat, body : Nat, replies : Nat]
Endpoint == [handler : BOOLEAN, reading : BOOLEAN, open : BOOLEAN, next_id : Nat,
             pending : SUBSET Entry, serving : SUBSET Served]
Call == [id : Nat, pc : {"skip", "insert", "send", "post", "done"}, fired : Nat, answer : Seq(Nat)]
Frame == [type : {"request", "response", "oneway", "malformed"}, id : Nat, body : Nat]
ErrorTask == [kind : {"error"}]
InstallTask == [kind : {"install"}, id : Nat]
FrameTask == [kind : {"frame"}, frame : Frame]
ClientTask == ErrorTask \cup InstallTask \cup FrameTask

Queues(S) == [Ends -> Seq(S)]

Types ==
  /\ ep \in [Ends -> Endpoint]
  /\ calls \in [Ends -> Seq(Call)]
  /\ net \in Queues(Frame)
  /\ tasks \in Queues(ClientTask)
  /\ stray \in Nat

----------------------------------------------------------------------------
(* The id of the r-th request and the counter after n requests.               *)
IdAt(r) == FirstId + r - 1
NextAt(n) == IF FirstId + n < IdSpace THEN FirstId + n ELSE 0

Ids(e) ==
  /\ Len(calls[e]) <= MaxRequests[e]
  /\ \A r \in 1..Len(calls[e]) : calls[e][r].id = IdAt(r) /\ calls[e][r].pc # "skip"
  /\ ep[e].next_id = NextAt(Len(calls[e]))

(* An entry is of one call, which has made it and whose callback has not run. *)
Entries(e) ==
  /\ \A p \in ep[e].pending : /\ p.call \in 1..Len(calls[e]) /\ p.id = IdAt(p.call)
                              /\ calls[e][p.call].fired = 0 /\ calls[e][p.call].pc # "insert"
  /\ \A p, q \in ep[e].pending : p.call = q.call => p = q
  /\ \A r \in 1..Len(calls[e]) : calls[e][r].fired <= 1
  /\ \A r \in 1..Len(calls[e]) : calls[e][r].pc = "insert" => calls[e][r].fired = 0

(* Frames on their way to e and in its client sequence, and the requests      *)
(* whose timer's task is in that sequence.                                    *)
RangeOf(s) == {s[i] : i \in DOMAIN s}
FramesTo(e) == RangeOf(net[e]) \cup {f \in Frame : \E t \in RangeOf(tasks[e]) : t.kind = "frame" /\ t.frame = f}
Installs(e) == {id \in Nat : \E t \in RangeOf(tasks[e]) : t.kind = "install" /\ t.id = id}

(* x, a frame or a request being served, is about a request of e. *)
Concerns(x, e) == x.body \in 1..Len(calls[e]) /\ x.id = IdAt(x.body)
Genuine(e) ==
  /\ \A f \in FramesTo(Other(e)) : f.type = "request" => Concerns(f, e)
  /\ \A s \in ep[Other(e)].serving : Concerns(s, e)
  /\ \A f \in FramesTo(e) : f.type = "response" => Concerns(f, e)

Answers(e) ==
  \A r \in 1..Len(calls[e]) : calls[e][r].answer # <<>> => calls[e][r].answer = <<r>>

Remembered(e) ==
  \A r \in 1..Len(calls[e]) :
    calls[e][r].fired = 0 /\ calls[e][r].pc # "insert" =>
      \E p \in ep[e].pending :
        p.call = r /\ (calls[e][r].pc # "done" \/ p.timer \/ p.id \in Installs(e))

RpcInv ==
  /\ Types
  /\ \A e \in Ends : Ids(e) /\ Entries(e) /\ Genuine(e) /\ Answers(e) /\ Remembered(e)

----------------------------------------------------------------------------
(* Numbers. *)
LEMMA IdFacts ==
  ASSUME RpcConstants, NEW e \in Ends
  PROVE  /\ \A r \in 1..MaxRequests[e] : IdAt(r) \in 1..(IdSpace - 1)
         /\ \A r, s \in 1..MaxRequests[e] : IdAt(r) = IdAt(s) => r = s
BY DEF RpcConstants, IdAt

LEMMA IdStep ==
  ASSUME RpcConstants, NEW e \in Ends, NEW n \in Nat, n < MaxRequests[e]
  PROVE  NextAt(n) # 0 /\ RequestId(NextAt(n)) = IdAt(n + 1) /\ Increment(NextAt(n)) = NextAt(n + 1)
<1>1. /\ IdSpace \in Nat /\ FirstId \in Nat /\ FirstId >= 1 /\ FirstId < IdSpace
      /\ MaxRequests[e] \in Nat /\ FirstId + MaxRequests[e] <= IdSpace
  BY DEF RpcConstants
<1>2. FirstId + n < IdSpace
  BY <1>1
<1>3. NextAt(n) = FirstId + n /\ NextAt(n) # 0 /\ IdAt(n + 1) = FirstId + n
  BY <1>1, <1>2 DEF NextAt, IdAt
<1>4. (FirstId + n + 1) % IdSpace = NextAt(n + 1)
  <2>1. CASE FirstId + n + 1 = IdSpace
    BY <2>1, <1>1 DEF NextAt
  <2>2. CASE FirstId + n + 1 < IdSpace
    <3>1. \A k \in 0..(IdSpace - 1) : k % IdSpace = k
      BY <1>1
    <3> QED  BY <2>2, <3>1, <1>1 DEF NextAt
  <2> QED  BY <2>1, <2>2, <1>1, <1>2
<1> QED  BY <1>3, <1>4 DEF RequestId, Increment

LEMMA NextIsNat ==
  ASSUME RpcConstants, NEW n \in Nat
  PROVE  NextAt(n) \in Nat
BY DEF RpcConstants, NextAt

----------------------------------------------------------------------------
(* The two ends, and the ranges of queues. *)
LEMMA TwoEnds ==
  ASSUME RpcConstants, NEW e \in Ends
  PROVE  Other(e) \in Ends /\ Other(e) # e /\ Other(Other(e)) = e /\ Ends = {e, Other(e)}
<1>1. PICK a, b : a # b /\ Ends = {a, b}
  BY DEF RpcConstants
<1>2. \A x \in Ends : Other(x) \in Ends /\ Other(x) # x
  BY <1>1 DEF Other
<1> QED  BY <1>1, <1>2

LEMMA RangeAppend ==
  ASSUME NEW S, NEW s \in Seq(S), NEW x \in S
  PROVE  RangeOf(Append(s, x)) = RangeOf(s) \cup {x}
<1>1. /\ Len(s) \in Nat /\ DOMAIN s = 1..Len(s) /\ DOMAIN Append(s, x) = 1..Len(s)+1
      /\ \A i \in 1..Len(s) : Append(s, x)[i] = s[i]
      /\ Append(s, x)[Len(s) + 1] = x
  OBVIOUS
<1>2. \A i \in 1..Len(s)+1 : i \in 1..Len(s) \/ i = Len(s) + 1
  BY <1>1
<1>3. \A i \in 1..Len(s) : i \in 1..Len(s)+1
  BY <1>1
<1>4. Len(s) + 1 \in 1..Len(s)+1
  BY <1>1
<1> QED  BY <1>1, <1>2, <1>3, <1>4 DEF RangeOf

LEMMA RangeTail ==
  ASSUME NEW S, NEW s \in Seq(S), s # <<>>
  PROVE  /\ Tail(s) \in Seq(S) /\ Head(s) \in S
         /\ RangeOf(s) = {Head(s)} \cup RangeOf(Tail(s))
<1>1. /\ Len(s) \in Nat /\ Len(s) >= 1 /\ DOMAIN s = 1..Len(s)
      /\ Tail(s) \in Seq(S) /\ DOMAIN Tail(s) = 1..Len(s)-1
      /\ \A i \in 1..Len(s)-1 : Tail(s)[i] = s[i + 1]
      /\ Head(s) = s[1] /\ Head(s) \in S
  OBVIOUS
<1>2. ASSUME NEW i \in 1..Len(s)  PROVE s[i] \in {Head(s)} \cup RangeOf(Tail(s))
  <2>1. CASE i = 1
    BY <2>1, <1>1
  <2>2. CASE i # 1
    <3>1. i - 1 \in 1..Len(s)-1 /\ (i - 1) + 1 = i
      BY <2>2, <1>1
    <3>2. Tail(s)[i - 1] = s[i]
      BY <3>1, <1>1
    <3> QED  BY <3>1, <3>2, <1>1 DEF RangeOf
  <2> QED  BY <2>1, <2>2
<1>3. ASSUME NEW i \in 1..Len(s)-1  PROVE Tail(s)[i] \in RangeOf(s)
  <2>1. i + 1 \in 1..Len(s) /\ Tail(s)[i] = s[i + 1]
    BY <1>1
  <2> QED  BY <2>1, <1>1 DEF RangeOf
<1>4. Head(s) \in RangeOf(s)
  BY <1>1 DEF RangeOf
<1>5. RangeOf(s) \subseteq {Head(s)} \cup RangeOf(Tail(s))
  BY <1>1, <1>2 DEF RangeOf
<1>6. RangeOf(Tail(s)) \subseteq RangeOf(s)
  BY <1>1, <1>3 DEF RangeOf
<1> QED  BY <1>1, <1>4, <1>5, <1>6

LEMMA RangeType ==
  ASSUME NEW S, NEW s \in Seq(S)
  PROVE  RangeOf(s) \subseteq S
BY DEF RangeOf

(* q2 is q with x at the end of e's queue, or without its first element. *)
PushedTo(q, q2, e, x) == q2 = [q EXCEPT ![e] = Append(@, x)]
PoppedFrom(q, q2, e) == q[e] # <<>> /\ q2 = [q EXCEPT ![e] = Tail(@)]

LEMMA Pushed ==
  ASSUME NEW S, NEW q \in Queues(S), NEW e \in Ends, NEW x \in S, NEW q2, PushedTo(q, q2, e, x)
  PROVE  /\ q2 \in Queues(S)
         /\ RangeOf(q2[e]) = RangeOf(q[e]) \cup {x}
         /\ \A y \in Ends : y # e => q2[y] = q[y]
<1>1. Append(q[e], x) \in Seq(S) /\ RangeOf(Append(q[e], x)) = RangeOf(q[e]) \cup {x}
  BY RangeAppend DEF Queues
<1> QED  BY <1>1 DEF PushedTo, Queues

LEMMA Popped ==
  ASSUME NEW S, NEW q \in Queues(S), NEW e \in Ends, NEW q2, PoppedFrom(q, q2, e)
  PROVE  /\ q2 \in Queues(S) /\ Head(q[e]) \in S
         /\ RangeOf(q[e]) = {Head(q[e])} \cup RangeOf(q2[e])
         /\ \A y \in Ends : y # e => q2[y] = q[y]
<1>1. /\ Tail(q[e]) \in Seq(S) /\ Head(q[e]) \in S
      /\ RangeOf(q[e]) = {Head(q[e])} \cup RangeOf(Tail(q[e]))
  BY RangeTail DEF PoppedFrom, Queues
<1> QED  BY <1>1 DEF PoppedFrom, Queues

----------------------------------------------------------------------------
(* Frames and served requests stay genuine when the new ones are. *)
NewGenuine(x) ==
  /\ \A f \in FramesTo(x)' : \/ f \in FramesTo(x)
                             \/ /\ f.type = "request" => Concerns(f, Other(x))
                                /\ f.type = "response" => Concerns(f, x)
  /\ \A s \in ep'[x].serving : s \in ep[x].serving \/ Concerns(s, Other(x))

LEMMA GenuineKept ==
  ASSUME RpcConstants, RpcInv, Types',
         \A x \in Ends : Len(calls[x]) <= Len(calls'[x]),
         \A x \in Ends : NewGenuine(x)
  PROVE  \A x \in Ends : Genuine(x)'
<1>1. ASSUME NEW x \in Ends, NEW y, Concerns(y, x)  PROVE Concerns(y, x)'
  <2>1. Len(calls[x]) \in Nat /\ Len(calls'[x]) \in Nat
    BY DEF RpcInv, Types
  <2>2. y.body \in 1..Len(calls[x]) => y.body \in 1..Len(calls'[x])
    BY <2>1
  <2> QED  BY <1>1, <2>2 DEF Concerns, IdAt
<1> SUFFICES ASSUME NEW e \in Ends  PROVE Genuine(e)'
  OBVIOUS
<1> DEFINE o == Other(e)
<1>2. o \in Ends /\ Other(o) = e
  BY TwoEnds
<1>3. Genuine(e) /\ NewGenuine(e) /\ NewGenuine(o)
  BY <1>2 DEF RpcInv
<1>4. ASSUME NEW f \in FramesTo(o)', f.type = "request"  PROVE Concerns(f, e)'
  <2>1. Concerns(f, e)
    BY <1>2, <1>3, <1>4 DEF Genuine, NewGenuine
  <2> QED  BY <2>1, <1>1
<1>5. ASSUME NEW f \in FramesTo(e)', f.type = "response"  PROVE Concerns(f, e)'
  <2>1. Concerns(f, e)
    BY <1>3, <1>5 DEF Genuine, NewGenuine
  <2> QED  BY <2>1, <1>1
<1>6. ASSUME NEW s \in ep'[o].serving  PROVE Concerns(s, e)'
  <2>1. Concerns(s, e)
    BY <1>2, <1>3, <1>6 DEF Genuine, NewGenuine
  <2> QED  BY <2>1, <1>1
<1>7. Other(e)' = Other(e)
  BY DEF Other
<1> QED  BY <1>4, <1>5, <1>6, <1>7 DEF Genuine

(* What a step that neither adds nor takes an entry does to the calls of x. *)
Calm(x) ==
  /\ ep'[x].next_id = ep[x].next_id /\ ep'[x].pending = ep[x].pending
  /\ Len(calls'[x]) = Len(calls[x])
  /\ \A r \in 1..Len(calls[x]) :
       /\ calls'[x][r].id = calls[x][r].id
       /\ calls'[x][r].fired = calls[x][r].fired
       /\ calls'[x][r].answer = calls[x][r].answer
       /\ calls'[x][r].pc = "insert" <=> calls[x][r].pc = "insert"
       /\ calls'[x][r].pc = "skip" => calls[x][r].pc = "skip"
       /\ calls'[x][r].pc = "done" => calls[x][r].pc = "done" \/ IdAt(r) \in Installs(x)'
  /\ Installs(x) \subseteq Installs(x)'

LEMMA CalmKeeps ==
  ASSUME RpcConstants, RpcInv, NEW x \in Ends, Calm(x)
  PROVE  Ids(x)' /\ Entries(x)' /\ Answers(x)' /\ Remembered(x)'
<1>1. Ids(x) /\ Entries(x) /\ Answers(x) /\ Remembered(x)
  BY DEF RpcInv
<1>2. Ids(x)'
  BY <1>1 DEF Ids, Calm, IdAt, NextAt
<1>3. Entries(x)'
  BY <1>1 DEF Entries, Calm, IdAt
<1>4. Answers(x)'
  BY <1>1 DEF Answers, Calm
<1>5. Remembered(x)'
  <2> SUFFICES ASSUME NEW r \in 1..Len(calls[x]), calls'[x][r].fired = 0, calls'[x][r].pc # "insert"
               PROVE  \E p \in ep'[x].pending :
                        p.call = r /\ (calls'[x][r].pc # "done" \/ p.timer \/ p.id \in Installs(x)')
    BY DEF Remembered, Calm
  <2>1. PICK p \in ep[x].pending :
          p.call = r /\ (calls[x][r].pc # "done" \/ p.timer \/ p.id \in Installs(x))
    BY <1>1 DEF Remembered, Calm
  <2>2. p.id = IdAt(r)
    BY <1>1, <2>1 DEF Entries
  <2> QED  BY <2>1, <2>2 DEF Calm
<1> QED  BY <1>2, <1>3, <1>4, <1>5

LEMMA CalmStep ==
  ASSUME RpcConstants, RpcInv, Types', \A x \in Ends : Calm(x) /\ NewGenuine(x)
  PROVE  RpcInv'
<1>1. \A x \in Ends : Len(calls[x]) <= Len(calls'[x])
  BY DEF Calm, RpcInv, Types
<1>2. \A x \in Ends : Genuine(x)'
  BY <1>1, GenuineKept
<1>3. \A x \in Ends : Ids(x)' /\ Entries(x)' /\ Answers(x)' /\ Remembered(x)'
  BY CalmKeeps
<1> QED  BY <1>2, <1>3 DEF RpcInv

LEMMA RunType ==
  ASSUME NEW A, NEW B, NEW a \in A, NEW c \in [id : Nat, pc : B, fired : Nat, answer : A], NEW d, d = Run(c, a)
  PROVE  d \in [id : Nat, pc : B, fired : Nat, answer : A]
<1>1. c.fired + 1 \in Nat
  OBVIOUS
<1>2. d = [c EXCEPT !.fired = c.fired + 1, !.answer = a]
  BY DEF Run
<1>3. d = [id |-> c.id, pc |-> c.pc, fired |-> c.fired + 1, answer |-> a]
  BY <1>2
<1> QED  BY <1>1, <1>3

LEMMA FireType ==
  ASSUME Types, NEW e \in Ends, NEW R, NEW answer \in Seq(Nat), Fire(e, R, answer)
  PROVE  calls' \in [Ends -> Seq(Call)]
<1> DEFINE F == [r \in DOMAIN calls[e] |-> IF r \in R THEN Run(calls[e][r], answer) ELSE calls[e][r]]
<1>1. calls' = [calls EXCEPT ![e] = F]
  BY DEF Fire
<1>2. calls \in [Ends -> Seq(Call)] /\ DOMAIN calls[e] = 1..Len(calls[e]) /\ Len(calls[e]) \in Nat
  BY DEF Types
<1>3. ASSUME NEW r \in DOMAIN calls[e]  PROVE Run(calls[e][r], answer) \in Call /\ calls[e][r] \in Call
  <2>1. PICK c \in Call : c = calls[e][r]
    BY <1>2
  <2>2. PICK d : d = Run(c, answer)
    OBVIOUS
  <2>3. d \in Call
    BY <2>2, RunType DEF Call
  <2> QED  BY <2>1, <2>2, <2>3
<1>4. F \in [1..Len(calls[e]) -> Call]
  BY <1>2, <1>3
<1> HIDE DEF F
<1>5. F \in Seq(Call)
  BY <1>2, <1>4
<1> QED  BY <1>1, <1>2, <1>5

(* A step that takes the entries D of e and runs their callbacks. *)
LEMMA FiredStep ==
  ASSUME RpcConstants, RpcInv, Types', NEW e \in Ends, NEW D \in SUBSET ep[e].pending,
         NEW answer \in Seq(Nat), Fire(e, {p.call : p \in D}, answer),
         answer # <<>> => \A p \in D : answer = <<p.call>>,
         ep'[e].pending = ep[e].pending \ D, ep'[e].next_id = ep[e].next_id,
         Installs(e) \subseteq Installs(e)',
         \A x \in Ends : x # e => ep'[x] = ep[x] /\ Installs(x) \subseteq Installs(x)',
         \A x \in Ends : NewGenuine(x)
  PROVE  RpcInv'
<1> DEFINE R == {p.call : p \in D}
<1>1. Types /\ calls[e] \in Seq(Call) /\ DOMAIN calls[e] = 1..Len(calls[e]) /\ Len(calls[e]) \in Nat
  BY DEF RpcInv, Types
<1>15. Fire(e, R, answer)
  OBVIOUS
<1> HIDE DEF R
<1>2. /\ \A x \in Ends : x # e => calls'[x] = calls[x]
      /\ calls'[e] = [r \in 1..Len(calls[e]) |->
           IF r \in R THEN Run(calls[e][r], answer) ELSE calls[e][r]]
  <2> DEFINE F == [r \in DOMAIN calls[e] |->
           IF r \in R THEN Run(calls[e][r], answer) ELSE calls[e][r]]
  <2>1. calls' = [calls EXCEPT ![e] = F]
    BY <1>15 DEF Fire
  <2>2. calls \in [Ends -> Seq(Call)]
    BY <1>1 DEF Types
  <2>3. F = [r \in 1..Len(calls[e]) |->
           IF r \in R THEN Run(calls[e][r], answer) ELSE calls[e][r]]
    BY <1>1
  <2> HIDE DEF F
  <2>4. calls'[e] = F /\ \A x \in Ends : x # e => calls'[x] = calls[x]
    BY <2>1, <2>2
  <2> QED  BY <2>3, <2>4
<1>3. calls'[e] \in Seq(Call) /\ Len(calls'[e]) = Len(calls[e])
  <2>1. calls'[e] \in Seq(Call)
    BY DEF Types
  <2>2. DOMAIN calls'[e] = 1..Len(calls[e])
    BY <1>2
  <2> QED  BY <1>1, <2>1, <2>2
<1>4. ASSUME NEW r \in 1..Len(calls[e])
      PROVE  /\ calls'[e][r].id = calls[e][r].id /\ calls'[e][r].pc = calls[e][r].pc
             /\ r \in R => calls'[e][r].fired = calls[e][r].fired + 1 /\ calls'[e][r].answer = answer
             /\ r \notin R => calls'[e][r] = calls[e][r]
             /\ calls[e][r].fired \in Nat
  <2>1. calls[e][r] \in Call
    BY <1>1
  <2>2. calls'[e][r] = IF r \in R THEN Run(calls[e][r], answer) ELSE calls[e][r]
    BY <1>2
  <2> QED  BY <2>1, <2>2 DEF Call, Run
<1>5. \A x \in Ends : x # e => Calm(x)
  BY <1>2 DEF Calm
<1>6. Ids(e) /\ Entries(e) /\ Answers(e) /\ Remembered(e)
  BY DEF RpcInv
<1>7. Ids(e)'
  BY <1>3, <1>4, <1>6 DEF Ids, IdAt, NextAt
<1>8. ASSUME NEW p \in D  PROVE p.call \in 1..Len(calls[e]) /\ calls[e][p.call].fired = 0 /\ calls[e][p.call].pc # "insert"
  BY <1>6 DEF Entries
<1>9. ASSUME NEW p \in ep[e].pending \ D  PROVE p.call \notin R
  BY <1>6, <1>9 DEF Entries, R
<1>10. Entries(e)'
  <2>1. ASSUME NEW p \in ep'[e].pending
        PROVE  /\ p.call \in 1..Len(calls'[e]) /\ p.id = IdAt(p.call)'
               /\ calls'[e][p.call].fired = 0 /\ calls'[e][p.call].pc # "insert"
    BY <1>3, <1>4, <1>6, <1>9 DEF Entries, IdAt
  <2>2. ASSUME NEW r \in 1..Len(calls[e])
        PROVE  calls'[e][r].fired <= 1 /\ (calls'[e][r].pc = "insert" => calls'[e][r].fired = 0)
    <3>1. CASE r \in R
      <4>1. calls[e][r].fired = 0 /\ calls[e][r].pc # "insert"
        BY <3>1, <1>8 DEF R
      <4> QED  BY <4>1, <3>1, <1>4
    <3>2. CASE r \notin R
      <4>1. calls'[e][r] = calls[e][r]
        BY <3>2, <1>4
      <4>2. calls[e][r].fired <= 1
        BY <1>6 DEF Entries
      <4>3. calls[e][r].pc = "insert" => calls[e][r].fired = 0
        BY <1>6 DEF Entries
      <4> QED  BY <4>1, <4>2, <4>3
    <3> QED  BY <3>1, <3>2
  <2>3. \A p, q \in ep'[e].pending : p.call = q.call => p = q
    BY <1>6 DEF Entries
  <2> QED  BY <2>1, <2>2, <2>3, <1>3 DEF Entries
<1>11. Answers(e)'
  <2> SUFFICES ASSUME NEW r \in 1..Len(calls[e]), calls'[e][r].answer # <<>>
               PROVE  calls'[e][r].answer = <<r>>
    BY <1>3 DEF Answers
  <2>1. CASE r \in R
    BY <2>1, <1>4 DEF R
  <2>2. CASE r \notin R
    BY <2>2, <1>4, <1>6 DEF Answers
  <2> QED  BY <2>1, <2>2
<1>12. Remembered(e)'
  <2> SUFFICES ASSUME NEW r \in 1..Len(calls[e]), calls'[e][r].fired = 0, calls'[e][r].pc # "insert"
               PROVE  \E p \in ep'[e].pending :
                        p.call = r /\ (calls'[e][r].pc # "done" \/ p.timer \/ p.id \in Installs(e)')
    BY <1>3 DEF Remembered
  <2>1. r \notin R /\ calls[e][r].fired = 0 /\ calls[e][r].pc # "insert"
    BY <1>4
  <2>2. PICK p \in ep[e].pending :
          p.call = r /\ (calls[e][r].pc # "done" \/ p.timer \/ p.id \in Installs(e))
    BY <2>1, <1>6 DEF Remembered
  <2>3. p \in ep'[e].pending
    BY <2>1, <2>2 DEF R
  <2> QED  BY <2>2, <2>3, <1>4
<1>13. \A x \in Ends : Genuine(x)'
  <2>1. \A x \in Ends : Len(calls[x]) <= Len(calls'[x])
    <3>1. \A x \in Ends : Len(calls[x]) \in Nat /\ Len(calls'[x]) = Len(calls[x])
      <4>1. ASSUME NEW x \in Ends  PROVE Len(calls[x]) \in Nat
        BY <1>1 DEF Types
      <4> QED  BY <4>1, <1>2, <1>3
    <3> QED  BY <3>1
  <2> QED  BY <2>1, GenuineKept
<1>14. ASSUME NEW x \in Ends, x # e  PROVE Ids(x)' /\ Entries(x)' /\ Answers(x)' /\ Remembered(x)'
  BY <1>5, <1>14, CalmKeeps
<1> QED  BY <1>7, <1>10, <1>11, <1>12, <1>13, <1>14 DEF RpcInv

----------------------------------------------------------------------------
(* How the frames and timer tasks of an end follow its queues. *)
LEMMA SameQueues ==
  ASSUME NEW x \in Ends, net'[x] = net[x], tasks'[x] = tasks[x]
  PROVE  FramesTo(x)' = FramesTo(x) /\ Installs(x)' = Installs(x)
BY DEF FramesTo, Installs, RangeOf, Frame

LEMMA MoreFrames ==
  ASSUME Types, NEW x \in Ends, NEW f \in Frame, RangeOf(net'[x]) = RangeOf(net[x]) \cup {f},
         tasks'[x] = tasks[x]
  PROVE  FramesTo(x)' = FramesTo(x) \cup {f} /\ Installs(x)' = Installs(x)
BY DEF FramesTo, Installs, Frame

LEMMA MoreTasks ==
  ASSUME NEW x \in Ends, NEW t, RangeOf(tasks'[x]) = RangeOf(tasks[x]) \cup {t}, net'[x] = net[x]
  PROVE  /\ t.kind # "frame" => FramesTo(x)' = FramesTo(x)
         /\ t.kind # "install" => Installs(x)' = Installs(x)
         /\ Installs(x) \subseteq Installs(x)'
         /\ t \in InstallTask => t.id \in Installs(x)'
BY DEF FramesTo, Installs, Frame, InstallTask

LEMMA FewerTasks ==
  ASSUME Types, NEW x \in Ends, NEW t \in ClientTask, RangeOf(tasks[x]) = {t} \cup RangeOf(tasks'[x]),
         net'[x] = net[x]
  PROVE  /\ FramesTo(x)' \subseteq FramesTo(x)
         /\ t.kind # "install" => Installs(x)' = Installs(x)
         /\ t.kind = "frame" => t.frame \in Frame /\ t.frame \in FramesTo(x)
         /\ t.kind = "install" => t.id \in Nat /\ Installs(x) = Installs(x)' \cup {t.id}
<1>1. FramesTo(x)' \subseteq FramesTo(x)
  BY DEF FramesTo, Frame
<1>2. t.kind # "install" => Installs(x)' = Installs(x)
  BY DEF Installs
<1>3. t.kind = "frame" => t.frame \in Frame
  BY DEF ClientTask, ErrorTask, InstallTask, FrameTask
<1>4. t.kind = "install" => t.id \in Nat
  BY DEF ClientTask, ErrorTask, InstallTask, FrameTask
<1>5. t.kind = "frame" => t.frame \in FramesTo(x)
  BY <1>3 DEF FramesTo
<1>6. t.kind = "install" => Installs(x) = Installs(x)' \cup {t.id}
  BY <1>4 DEF Installs
<1> QED  BY <1>1, <1>2, <1>3, <1>4, <1>5, <1>6

(* An end whose fields, calls and queues stay. *)
LEMMA Untouched ==
  ASSUME NEW x \in Ends, ep'[x] = ep[x], calls'[x] = calls[x], net'[x] = net[x], tasks'[x] = tasks[x]
  PROVE  Calm(x) /\ NewGenuine(x)
BY SameQueues DEF Calm, NewGenuine

(* channel_->Send to the other end. *)
LEMMA SendFrameFacts ==
  ASSUME RpcConstants, Types, NEW e \in Ends, NEW f \in Frame, SendFrame(e, f), tasks' = tasks
  PROVE  /\ net' \in Queues(Frame)
         /\ \A x \in Ends : Installs(x)' = Installs(x)
         /\ FramesTo(e)' = FramesTo(e)
         /\ FramesTo(Other(e))' \subseteq FramesTo(Other(e)) \cup {f}
<1>1. PICK o \in Ends : o = Other(e) /\ o # e /\ \A x \in Ends : x = e \/ x = o
  BY TwoEnds
<1>2. net \in Queues(Frame)
  BY DEF Types
<1>3. CASE ep[e].open
  <2>1. PushedTo(net, net', o, f)
    BY <1>1, <1>3 DEF SendFrame, PushedTo
  <2>2. /\ net' \in Queues(Frame) /\ RangeOf(net'[o]) = RangeOf(net[o]) \cup {f}
        /\ \A y \in Ends : y # o => net'[y] = net[y]
    BY <2>1, <1>2, Pushed
  <2>3. FramesTo(o)' = FramesTo(o) \cup {f} /\ Installs(o)' = Installs(o)
    BY <2>2, MoreFrames
  <2>4. FramesTo(e)' = FramesTo(e) /\ Installs(e)' = Installs(e)
    BY <2>2, <1>1, SameQueues
  <2>5. FramesTo(Other(e))' = FramesTo(o)'
    BY <1>1 DEF FramesTo
  <2> QED  BY <2>2, <2>3, <2>4, <2>5, <1>1
<1>4. CASE ~ep[e].open
  <2>1. net' = net
    BY <1>4 DEF SendFrame
  <2>2. \A x \in Ends : FramesTo(x)' = FramesTo(x) /\ Installs(x)' = Installs(x)
    BY <2>1, SameQueues
  <2>3. Other(e) \in Ends
    BY <1>1
  <2> QED  BY <2>1, <2>2, <2>3, <1>2
<1> QED  BY <1>3, <1>4

----------------------------------------------------------------------------
(* One lemma per operation. *)
LEMMA SetupKeeps ==
  ASSUME RpcConstants, RpcInv, NEW e \in Ends, SetRequestHandler(e) \/ Start(e)
  PROVE  RpcInv'
<1>1. Types
  BY DEF RpcInv
<1>2. calls' = calls /\ net' = net /\ tasks' = tasks /\ stray' = stray
  BY DEF SetRequestHandler, Start
<1>7. ep \in [Ends -> Endpoint]
  BY <1>1 DEF Types
<1>8. ep' = [ep EXCEPT ![e] = [ep[e] EXCEPT !.handler = TRUE]] \/ ep' = [ep EXCEPT ![e] = [ep[e] EXCEPT !.reading = TRUE]]
  BY DEF SetRequestHandler, Start
<1>9. [ep[e] EXCEPT !.handler = TRUE] \in Endpoint /\ [ep[e] EXCEPT !.reading = TRUE] \in Endpoint
  BY <1>7 DEF Endpoint
<1>3. ep' \in [Ends -> Endpoint]
  BY <1>7, <1>8, <1>9
<1>4. \A x \in Ends : /\ ep'[x].next_id = ep[x].next_id /\ ep'[x].pending = ep[x].pending
                      /\ ep'[x].serving = ep[x].serving
  BY <1>7, <1>8 DEF Endpoint
<1>5. Types'
  BY <1>1, <1>2, <1>3 DEF Types
<1>6. \A x \in Ends : Calm(x) /\ NewGenuine(x)
  BY <1>2, <1>4, SameQueues DEF Calm, NewGenuine
<1> QED  BY <1>5, <1>6, CalmStep

LEMMA AllocateKeeps ==
  ASSUME RpcConstants, RpcInv, NEW e \in Ends, AllocateId(e)
  PROVE  RpcInv'
<1> DEFINE n == Len(calls[e])
           c == [id |-> IdAt(n + 1), pc |-> "insert", fired |-> 0, answer |-> <<>>]
<1>1. Types /\ Ids(e) /\ Entries(e) /\ Answers(e) /\ Remembered(e)
  BY DEF RpcInv
<1>2. calls[e] \in Seq(Call) /\ n \in Nat
  BY <1>1 DEF Types
<1>3. MaxRequests[e] \in Nat
  BY DEF RpcConstants
<1>4. n < MaxRequests[e]
  BY DEF AllocateId
<1>5. /\ ep[e].next_id # 0 /\ RequestId(ep[e].next_id) = IdAt(n + 1)
      /\ Increment(ep[e].next_id) = NextAt(n + 1)
  BY <1>1, <1>2, <1>4, IdStep DEF Ids
<1>6. IdAt(n + 1) \in Nat /\ NextAt(n + 1) \in Nat
  <2>1. n + 1 \in 1..MaxRequests[e] /\ n + 1 \in Nat
    BY <1>2, <1>3, <1>4
  <2>2. IdAt(n + 1) \in 1..(IdSpace - 1)
    BY <2>1, IdFacts
  <2>3. IdSpace \in Nat
    BY DEF RpcConstants
  <2> QED  BY <2>1, <2>2, <2>3, NextIsNat
<1>8. /\ calls' = [calls EXCEPT ![e] = Append(@, c)]
      /\ ep' = [ep EXCEPT ![e].next_id = NextAt(n + 1)]
      /\ net' = net /\ tasks' = tasks /\ stray' = stray
  BY <1>5 DEF AllocateId
<1>9. c \in Call
  BY <1>2, <1>6 DEF Call
<1>c. c.id = IdAt(n + 1) /\ c.fired = 0 /\ c.answer = <<>> /\ c.pc = "insert"
  OBVIOUS
<1>n. n = Len(calls[e])
  OBVIOUS
<1> HIDE DEF c, n
<1>10. /\ ep'[e].next_id = NextAt(n + 1) /\ ep'[e].pending = ep[e].pending
       /\ ep'[e].serving = ep[e].serving
       /\ \A x \in Ends : x # e => ep'[x] = ep[x]
       /\ ep' \in [Ends -> Endpoint]
  <2>1. PICK f : f = [ep[e] EXCEPT !.next_id = NextAt(n + 1)]
    OBVIOUS
  <2>2. ep \in [Ends -> Endpoint] /\ ep[e] \in Endpoint
    BY <1>1 DEF Types
  <2>3. f \in Endpoint /\ f.next_id = NextAt(n + 1) /\ f.pending = ep[e].pending /\ f.serving = ep[e].serving
    BY <2>1, <2>2, <1>6 DEF Endpoint
  <2>4. ep' = [ep EXCEPT ![e] = f]
    BY <2>1, <2>2, <1>8 DEF Endpoint
  <2> QED  BY <2>2, <2>3, <2>4
<1>11. /\ calls'[e] = Append(calls[e], c)
       /\ \A x \in Ends : x # e => calls'[x] = calls[x]
       /\ calls' \in [Ends -> Seq(Call)]
  BY <1>1, <1>8, <1>9 DEF Types
<1>12. Types'
  BY <1>1, <1>8, <1>10, <1>11 DEF Types
<1>13. /\ Len(calls'[e]) = n + 1 /\ calls'[e][n + 1] = c
       /\ \A r \in 1..n : calls'[e][r] = calls[e][r]
  BY <1>2, <1>11, <1>n
<1>14. \A r \in 1..n+1 : r \in 1..n \/ r = n + 1
  BY <1>2
<1>15. Ids(e)'
  <2>1. n + 1 <= MaxRequests[e]
    BY <1>2, <1>3, <1>4
  <2>2. \A r \in 1..n+1 : calls'[e][r].id = IdAt(r) /\ calls'[e][r].pc # "skip"
    BY <1>1, <1>13, <1>14, <1>c, <1>n DEF Ids
  <2> QED  BY <2>1, <2>2, <1>10, <1>13 DEF Ids, IdAt, NextAt
<1>16. Entries(e)'
  <2>1. ASSUME NEW q \in ep[e].pending
        PROVE  /\ q.call \in 1..n+1 /\ q.id = IdAt(q.call)
               /\ calls'[e][q.call].fired = 0 /\ calls'[e][q.call].pc # "insert"
    <3>1. /\ q.call \in 1..n /\ q.id = IdAt(q.call)
          /\ calls[e][q.call].fired = 0 /\ calls[e][q.call].pc # "insert"
      BY <1>1, <1>n DEF Entries
    <3> QED  BY <3>1, <1>13, <1>2
  <2>2. \A r \in 1..n+1 : calls'[e][r].fired <= 1
    BY <1>1, <1>13, <1>14, <1>c, <1>n DEF Entries
  <2>4. \A r \in 1..n+1 : calls'[e][r].pc = "insert" => calls'[e][r].fired = 0
    BY <1>1, <1>13, <1>14, <1>c, <1>n DEF Entries
  <2>3. \A q, s \in ep[e].pending : q.call = s.call => q = s
    BY <1>1 DEF Entries
  <2> QED  BY <2>1, <2>2, <2>3, <2>4, <1>10, <1>13 DEF Entries, IdAt
<1>17. Answers(e)'
  BY <1>1, <1>13, <1>14, <1>c, <1>n DEF Answers
<1>18. Remembered(e)'
  <2> SUFFICES ASSUME NEW r \in 1..n+1, calls'[e][r].fired = 0, calls'[e][r].pc # "insert"
               PROVE  \E q \in ep'[e].pending :
                        q.call = r /\ (calls'[e][r].pc # "done" \/ q.timer \/ q.id \in Installs(e)')
    BY <1>13 DEF Remembered
  <2>1. r \in 1..n /\ calls'[e][r] = calls[e][r]
    BY <1>13, <1>14, <1>c
  <2>2. PICK q \in ep[e].pending :
          q.call = r /\ (calls[e][r].pc # "done" \/ q.timer \/ q.id \in Installs(e))
    BY <2>1, <1>1, <1>n DEF Remembered
  <2>3. Installs(e)' = Installs(e)
    BY <1>8, SameQueues
  <2> QED  BY <2>1, <2>2, <2>3, <1>10
<1>19. \A x \in Ends : Genuine(x)'
  <2>1. \A x \in Ends : Len(calls[x]) <= Len(calls'[x])
    <3>1. ASSUME NEW x \in Ends  PROVE Len(calls[x]) \in Nat
      BY <1>1 DEF Types
    <3>2. Len(calls[e]) <= Len(calls'[e])
      BY <1>2, <1>13, <1>n
    <3>3. ASSUME NEW x \in Ends, x # e  PROVE Len(calls[x]) <= Len(calls'[x])
      BY <3>1, <3>3, <1>11
    <3> QED  BY <3>2, <3>3
  <2>2. \A x \in Ends : NewGenuine(x)
    BY <1>8, <1>10, SameQueues DEF NewGenuine
  <2> QED  BY <2>1, <2>2, <1>12, GenuineKept
<1>20. ASSUME NEW x \in Ends, x # e  PROVE Ids(x)' /\ Entries(x)' /\ Answers(x)' /\ Remembered(x)'
  <2>1. Calm(x)
    BY <1>8, <1>10, <1>11, <1>20, Untouched
  <2> QED  BY <2>1, CalmKeeps
<1> QED  BY <1>12, <1>15, <1>16, <1>17, <1>18, <1>19, <1>20 DEF RpcInv

(* The later steps of SendRequest: its calls keep ids and outcomes. *)
Advanced(e, r, pc) == calls' = [calls EXCEPT ![e] = [calls[e] EXCEPT ![r] = [calls[e][r] EXCEPT !.pc = pc]]]

LEMMA AdvancedCalls ==
  ASSUME Types, NEW e \in Ends, NEW r \in DOMAIN calls[e], NEW pc \in {"send", "post", "done"}, Advanced(e, r, pc)
  PROVE  /\ calls' \in [Ends -> Seq(Call)]
         /\ \A x \in Ends : x # e => calls'[x] = calls[x]
         /\ Len(calls'[e]) = Len(calls[e])
         /\ \A k \in 1..Len(calls[e]) :
              /\ calls'[e][k].id = calls[e][k].id /\ calls'[e][k].fired = calls[e][k].fired
              /\ calls'[e][k].answer = calls[e][k].answer
              /\ k # r => calls'[e][k].pc = calls[e][k].pc
         /\ calls'[e][r].pc = pc
<1> DEFINE c == [calls[e][r] EXCEPT !.pc = pc]
           q == [calls[e] EXCEPT ![r] = c]
<1>1. calls \in [Ends -> Seq(Call)]
  BY DEF Types
<1>2. calls[e] \in Seq(Call) /\ DOMAIN calls[e] = 1..Len(calls[e]) /\ calls[e][r] \in Call
  BY <1>1
<1>3. /\ c \in Call /\ c.id = calls[e][r].id /\ c.fired = calls[e][r].fired /\ c.answer = calls[e][r].answer
      /\ c.pc = pc
  BY <1>2 DEF Call
<1> HIDE DEF c
<1>4. q \in Seq(Call) /\ Len(q) = Len(calls[e]) /\ \A k \in 1..Len(calls[e]) : q[k] = IF k = r THEN c ELSE calls[e][k]
  BY <1>2, <1>3
<1>5. calls' = [calls EXCEPT ![e] = q]
  BY DEF Advanced, c
<1> HIDE DEF q
<1>6. calls'[e] = q /\ (\A x \in Ends : x # e => calls'[x] = calls[x]) /\ calls' \in [Ends -> Seq(Call)]
  BY <1>1, <1>4, <1>5
<1> QED  BY <1>2, <1>3, <1>4, <1>6

LEMMA InsertKeeps ==
  ASSUME RpcConstants, RpcInv, NEW e \in Ends, NEW r \in DOMAIN calls[e], InsertRequest(e, r)
  PROVE  RpcInv'
<1> DEFINE n == Len(calls[e])
           p == [id |-> IdAt(r), call |-> r, timer |-> FALSE]
<1>1. Types /\ Ids(e) /\ Entries(e) /\ Answers(e) /\ Remembered(e)
  BY DEF RpcInv
<1>2. calls[e] \in Seq(Call) /\ n \in Nat /\ r \in 1..n
  BY <1>1 DEF Types
<1>3. MaxRequests[e] \in Nat /\ IdSpace \in Nat /\ n <= MaxRequests[e]
  BY <1>1 DEF RpcConstants, Ids
<1>4. calls[e][r].id = IdAt(r) /\ calls[e][r].pc = "insert" /\ calls[e][r].fired = 0
  <2>1. calls[e][r].pc = "insert"
    BY DEF InsertRequest
  <2>2. calls[e][r].id = IdAt(r)
    BY <1>1, <1>2 DEF Ids
  <2>3. calls[e][r].fired = 0
    BY <1>1, <1>2, <2>1 DEF Entries
  <2> QED  BY <2>1, <2>2, <2>3
<1>5. \A q \in ep[e].pending : q.call # r
  BY <1>1, <1>4 DEF Entries
<1>6. IdAt(r) \in Nat
  <2>1. r \in 1..MaxRequests[e]
    BY <1>2, <1>3
  <2> QED  BY <2>1, <1>3, IdFacts
<1>7. Find(e, IdAt(r)) = {}
  <2> SUFFICES ASSUME NEW q \in ep[e].pending, q.id = IdAt(r)  PROVE FALSE
    BY DEF Find
  <2>1. q.call \in 1..n /\ IdAt(q.call) = IdAt(r)
    BY <1>1 DEF Entries
  <2>2. q.call \in 1..MaxRequests[e] /\ r \in 1..MaxRequests[e]
    BY <2>1, <1>2, <1>3
  <2> QED  BY <2>1, <2>2, <1>5, IdFacts
<1>8. /\ Advanced(e, r, "send")
      /\ ep' = [ep EXCEPT ![e].pending = @ \cup {p}]
      /\ net' = net /\ tasks' = tasks /\ stray' = stray
  <2>1. ep[e].pending \ Find(e, IdAt(r)) = ep[e].pending
    BY <1>7
  <2>2. ep' = [ep EXCEPT ![e].pending = (ep[e].pending \ Find(e, IdAt(r))) \cup {p}]
    BY <1>4 DEF InsertRequest
  <2>3. Advanced(e, r, "send") /\ net' = net /\ tasks' = tasks /\ stray' = stray
    BY DEF InsertRequest, Advanced
  <2> QED  BY <2>1, <2>2, <2>3
<1>9. p \in Entry
  BY <1>2, <1>6 DEF Entry
<1>p. p.id = IdAt(r) /\ p.call = r
  OBVIOUS
<1>n. n = Len(calls[e])
  OBVIOUS
<1> HIDE DEF p, n
<1>10. /\ ep'[e].next_id = ep[e].next_id /\ ep'[e].pending = ep[e].pending \cup {p}
       /\ ep'[e].serving = ep[e].serving
       /\ \A x \in Ends : x # e => ep'[x] = ep[x]
       /\ ep' \in [Ends -> Endpoint]
  <2>1. PICK f : f = [ep[e] EXCEPT !.pending = ep[e].pending \cup {p}]
    OBVIOUS
  <2>2. ep \in [Ends -> Endpoint] /\ ep[e] \in Endpoint
    BY <1>1 DEF Types
  <2>3. f \in Endpoint /\ f.next_id = ep[e].next_id /\ f.pending = ep[e].pending \cup {p} /\ f.serving = ep[e].serving
    BY <2>1, <2>2, <1>9 DEF Endpoint
  <2>4. ep' = [ep EXCEPT ![e] = f]
    BY <2>1, <2>2, <1>8 DEF Endpoint
  <2> QED  BY <2>2, <2>3, <2>4
<1>11. /\ calls' \in [Ends -> Seq(Call)]
       /\ \A x \in Ends : x # e => calls'[x] = calls[x]
       /\ Len(calls'[e]) = n
       /\ \A k \in 1..n :
            /\ calls'[e][k].id = calls[e][k].id /\ calls'[e][k].fired = calls[e][k].fired
            /\ calls'[e][k].answer = calls[e][k].answer
            /\ k # r => calls'[e][k].pc = calls[e][k].pc
       /\ calls'[e][r].pc = "send"
  BY <1>1, <1>8, <1>n, AdvancedCalls
<1>12. Types'
  BY <1>1, <1>8, <1>10, <1>11 DEF Types
<1>15. Ids(e)'
  <2>1. \A k \in 1..n : calls'[e][k].id = IdAt(k) /\ calls'[e][k].pc # "skip"
    BY <1>1, <1>11, <1>n DEF Ids
  <2> QED  BY <2>1, <1>1, <1>n, <1>10, <1>11 DEF Ids, IdAt, NextAt
<1>16. Entries(e)'
  <2>1. ASSUME NEW q \in ep[e].pending \cup {p}
        PROVE  /\ q.call \in 1..n /\ q.id = IdAt(q.call)
               /\ calls'[e][q.call].fired = 0 /\ calls'[e][q.call].pc # "insert"
    <3>1. CASE q = p
      BY <3>1, <1>2, <1>4, <1>11, <1>p
    <3>2. CASE q \in ep[e].pending
      <4>1. /\ q.call \in 1..n /\ q.id = IdAt(q.call) /\ q.call # r
            /\ calls[e][q.call].fired = 0 /\ calls[e][q.call].pc # "insert"
        BY <3>2, <1>1, <1>5, <1>n DEF Entries
      <4> QED  BY <4>1, <1>11
    <3> QED  BY <3>1, <3>2
  <2>2. \A q, s \in ep[e].pending \cup {p} : q.call = s.call => q = s
    BY <1>1, <1>5, <1>p DEF Entries
  <2>3. \A k \in 1..n : calls'[e][k].fired <= 1
    BY <1>1, <1>11, <1>n DEF Entries
  <2>4. \A k \in 1..n : calls'[e][k].pc = "insert" => calls'[e][k].fired = 0
    BY <1>1, <1>4, <1>11, <1>n DEF Entries
  <2> QED  BY <2>1, <2>2, <2>3, <2>4, <1>10, <1>11 DEF Entries, IdAt
<1>17. Answers(e)'
  BY <1>1, <1>11, <1>n DEF Answers
<1>18. Remembered(e)'
  <2> SUFFICES ASSUME NEW k \in 1..n, calls'[e][k].fired = 0, calls'[e][k].pc # "insert"
               PROVE  \E q \in ep'[e].pending :
                        q.call = k /\ (calls'[e][k].pc # "done" \/ q.timer \/ q.id \in Installs(e)')
    BY <1>11 DEF Remembered
  <2>1. CASE k = r
    <3>1. p \in ep'[e].pending /\ p.call = k /\ calls'[e][k].pc # "done"
      BY <2>1, <1>10, <1>11, <1>p
    <3> QED  BY <3>1
  <2>2. CASE k # r
    <3>1. PICK q \in ep[e].pending :
            q.call = k /\ (calls[e][k].pc # "done" \/ q.timer \/ q.id \in Installs(e))
      BY <2>2, <1>1, <1>11, <1>n DEF Remembered
    <3>2. Installs(e)' = Installs(e)
      BY <1>8, SameQueues
    <3> QED  BY <3>1, <3>2, <2>2, <1>10, <1>11
  <2> QED  BY <2>1, <2>2
<1>19. \A x \in Ends : Genuine(x)'
  <2>1. \A x \in Ends : Len(calls[x]) <= Len(calls'[x])
    <3>1. ASSUME NEW x \in Ends  PROVE Len(calls[x]) \in Nat
      BY <1>1 DEF Types
    <3> QED  BY <3>1, <1>11, <1>n
  <2>2. \A x \in Ends : NewGenuine(x)
    BY <1>8, <1>10, SameQueues DEF NewGenuine
  <2> QED  BY <2>1, <2>2, <1>12, GenuineKept
<1>20. ASSUME NEW x \in Ends, x # e  PROVE Ids(x)' /\ Entries(x)' /\ Answers(x)' /\ Remembered(x)'
  <2>1. Calm(x)
    BY <1>8, <1>10, <1>11, <1>20, Untouched
  <2> QED  BY <2>1, CalmKeeps
<1> QED  BY <1>12, <1>15, <1>16, <1>17, <1>18, <1>19, <1>20 DEF RpcInv

LEMMA SendRequestKeeps ==
  ASSUME RpcConstants, RpcInv, NEW e \in Ends, NEW r \in DOMAIN calls[e], SendRequestFrame(e, r)
  PROVE  RpcInv'
<1> DEFINE f == [type |-> "request", id |-> calls[e][r].id, body |-> r]
<1>1. Types /\ calls[e] \in Seq(Call) /\ r \in 1..Len(calls[e])
  BY DEF RpcInv, Types
<1>2. calls[e][r] \in Call
  BY <1>1
<1>3. f \in Frame
  BY <1>1, <1>2 DEF Frame, Call
<1>4. SendFrame(e, f) /\ Advanced(e, r, "post") /\ calls[e][r].pc = "send" /\ ep' = ep /\ tasks' = tasks /\ stray' = stray
  BY DEF SendRequestFrame, Advanced
<1>5. f.type = "request" /\ f.id = calls[e][r].id /\ f.body = r
  OBVIOUS
<1> HIDE DEF f
<1>6. /\ net' \in Queues(Frame) /\ \A x \in Ends : Installs(x)' = Installs(x)
      /\ FramesTo(e)' = FramesTo(e)
      /\ FramesTo(Other(e))' \subseteq FramesTo(Other(e)) \cup {f}
  BY <1>1, <1>3, <1>4, SendFrameFacts
<1>7. /\ calls' \in [Ends -> Seq(Call)]
      /\ \A x \in Ends : x # e => calls'[x] = calls[x]
      /\ Len(calls'[e]) = Len(calls[e])
      /\ \A k \in 1..Len(calls[e]) :
           /\ calls'[e][k].id = calls[e][k].id /\ calls'[e][k].fired = calls[e][k].fired
           /\ calls'[e][k].answer = calls[e][k].answer
           /\ k # r => calls'[e][k].pc = calls[e][k].pc
      /\ calls'[e][r].pc = "post"
  BY <1>1, <1>4, AdvancedCalls
<1>8. Types'
  BY <1>1, <1>4, <1>6, <1>7 DEF Types
<1>9. \A x \in Ends : Calm(x)
  <2>1. Calm(e)
    BY <1>4, <1>6, <1>7 DEF Calm
  <2>2. ASSUME NEW x \in Ends, x # e  PROVE Calm(x)
    BY <2>2, <1>4, <1>6, <1>7 DEF Calm
  <2> QED  BY <2>1, <2>2
<1>10. \A x \in Ends : NewGenuine(x)
  <2>1. Concerns(f, e)
    BY <1>1, <1>5 DEF Concerns, RpcInv, Ids
  <2>2. NewGenuine(e)
    BY <1>4, <1>6 DEF NewGenuine
  <2>3. NewGenuine(Other(e))
    BY <2>1, <1>4, <1>5, <1>6, TwoEnds DEF NewGenuine
  <2> QED  BY <2>2, <2>3, TwoEnds
<1> QED  BY <1>8, <1>9, <1>10, CalmStep

LEMMA PostInstallKeeps ==
  ASSUME RpcConstants, RpcInv, NEW e \in Ends, NEW r \in DOMAIN calls[e], PostInstall(e, r)
  PROVE  RpcInv'
<1> DEFINE t == [kind |-> "install", id |-> calls[e][r].id]
<1>1. Types /\ calls[e] \in Seq(Call) /\ r \in 1..Len(calls[e])
  BY DEF RpcInv, Types
<1>2. calls[e][r] \in Call
  BY <1>1
<1>3. t \in InstallTask /\ t \in ClientTask /\ t.kind # "frame" /\ t.id = calls[e][r].id
  BY <1>2 DEF InstallTask, ClientTask, Call
<1>4. PushedTo(tasks, tasks', e, t) /\ Advanced(e, r, "done") /\ calls[e][r].pc = "post" /\ ep' = ep /\ net' = net /\ stray' = stray
  BY DEF PostInstall, PushedTo, Advanced
<1> HIDE DEF t
<1>5. /\ tasks' \in Queues(ClientTask) /\ RangeOf(tasks'[e]) = RangeOf(tasks[e]) \cup {t}
      /\ \A y \in Ends : y # e => tasks'[y] = tasks[y]
  <2>1. net \in Queues(Frame) /\ tasks \in Queues(ClientTask)
    BY <1>1 DEF Types
  <2> QED  BY <2>1, <1>3, <1>4, Pushed
<1>6. /\ FramesTo(e)' = FramesTo(e) /\ Installs(e) \subseteq Installs(e)' /\ t.id \in Installs(e)'
  BY <1>3, <1>4, <1>5, MoreTasks
<1>7. \A y \in Ends : y # e => FramesTo(y)' = FramesTo(y) /\ Installs(y)' = Installs(y)
  BY <1>4, <1>5, SameQueues
<1>8. /\ calls' \in [Ends -> Seq(Call)]
      /\ \A x \in Ends : x # e => calls'[x] = calls[x]
      /\ Len(calls'[e]) = Len(calls[e])
      /\ \A k \in 1..Len(calls[e]) :
           /\ calls'[e][k].id = calls[e][k].id /\ calls'[e][k].fired = calls[e][k].fired
           /\ calls'[e][k].answer = calls[e][k].answer
           /\ k # r => calls'[e][k].pc = calls[e][k].pc
      /\ calls'[e][r].pc = "done"
  BY <1>1, <1>4, AdvancedCalls
<1>9. Types'
  BY <1>1, <1>4, <1>5, <1>8 DEF Types
<1>10. IdAt(r) \in Installs(e)'
  BY <1>1, <1>3, <1>6 DEF RpcInv, Ids
<1>11. Calm(e)
  BY <1>4, <1>6, <1>8, <1>10 DEF Calm
<1>12. ASSUME NEW x \in Ends, x # e  PROVE Calm(x)
  BY <1>4, <1>7, <1>8, <1>12 DEF Calm
<1>13. \A x \in Ends : NewGenuine(x)
  BY <1>4, <1>6, <1>7 DEF NewGenuine
<1> QED  BY <1>9, <1>11, <1>12, <1>13, CalmStep

LEMMA SendOneWayKeeps ==
  ASSUME RpcConstants, RpcInv, NEW e \in Ends, SendOneWay(e)
  PROVE  RpcInv'
<1> DEFINE f == [type |-> "oneway", id |-> 0, body |-> 0]
<1>1. Types
  BY DEF RpcInv
<1>2. f \in Frame /\ f.type # "request" /\ f.type # "response"
  BY DEF Frame
<1>3. SendFrame(e, f) /\ ep' = ep /\ calls' = calls /\ tasks' = tasks /\ stray' = stray + 1
  BY DEF SendOneWay
<1> HIDE DEF f
<1>4. /\ net' \in Queues(Frame) /\ \A x \in Ends : Installs(x)' = Installs(x)
      /\ FramesTo(e)' = FramesTo(e)
      /\ FramesTo(Other(e))' \subseteq FramesTo(Other(e)) \cup {f}
  BY <1>1, <1>2, <1>3, SendFrameFacts
<1>5. Types'
  BY <1>1, <1>3, <1>4 DEF Types
<1>6. \A x \in Ends : Calm(x)
  BY <1>3, <1>4 DEF Calm
<1>7. NewGenuine(e) /\ NewGenuine(Other(e))
  BY <1>2, <1>3, <1>4 DEF NewGenuine
<1> QED  BY <1>5, <1>6, <1>7, TwoEnds, CalmStep

LEMMA MalformedKeeps ==
  ASSUME RpcConstants, RpcInv, NEW e \in Ends, Malformed(e)
  PROVE  RpcInv'
<1> DEFINE f == [type |-> "malformed", id |-> 0, body |-> 0]
<1>1. Types
  BY DEF RpcInv
<1>2. f \in Frame /\ f.type # "request" /\ f.type # "response"
  BY DEF Frame
<1>3. PushedTo(net, net', e, f) /\ ep' = ep /\ calls' = calls /\ tasks' = tasks /\ stray' = stray + 1
  BY DEF Malformed, PushedTo
<1> HIDE DEF f
<1>4. /\ net' \in Queues(Frame) /\ RangeOf(net'[e]) = RangeOf(net[e]) \cup {f}
      /\ \A y \in Ends : y # e => net'[y] = net[y]
  <2>1. net \in Queues(Frame) /\ tasks \in Queues(ClientTask)
    BY <1>1 DEF Types
  <2> QED  BY <2>1, <1>2, <1>3, Pushed
<1>5. FramesTo(e)' = FramesTo(e) \cup {f} /\ Installs(e)' = Installs(e)
  BY <1>1, <1>2, <1>3, <1>4, MoreFrames
<1>6. \A y \in Ends : y # e => FramesTo(y)' = FramesTo(y) /\ Installs(y)' = Installs(y)
  BY <1>3, <1>4, SameQueues
<1>7. Types'
  BY <1>1, <1>3, <1>4 DEF Types
<1>8. \A x \in Ends : Calm(x)
  BY <1>3, <1>5, <1>6 DEF Calm
<1>9. \A x \in Ends : NewGenuine(x)
  BY <1>2, <1>3, <1>5, <1>6 DEF NewGenuine
<1> QED  BY <1>7, <1>8, <1>9, CalmStep

LEMMA ReceiveKeeps ==
  ASSUME RpcConstants, RpcInv, NEW e \in Ends, Receive(e)
  PROVE  RpcInv'
<1> DEFINE f == Head(net[e])
           t == [kind |-> "frame", frame |-> f]
<1>1. Types
  BY DEF RpcInv
<1>2. PoppedFrom(net, net', e) /\ PushedTo(tasks, tasks', e, t) /\ ep' = ep /\ calls' = calls /\ stray' = stray
  BY DEF Receive, PoppedFrom, PushedTo
<1>3. /\ net' \in Queues(Frame) /\ f \in Frame
      /\ RangeOf(net[e]) = {f} \cup RangeOf(net'[e])
      /\ \A y \in Ends : y # e => net'[y] = net[y]
  <2>1. net \in Queues(Frame) /\ tasks \in Queues(ClientTask)
    BY <1>1 DEF Types
  <2> QED  BY <2>1, <1>2, Popped
<1>t. t.kind = "frame" /\ t.frame = f
  OBVIOUS
<1>4. t \in ClientTask
  BY <1>3 DEF ClientTask, FrameTask
<1> HIDE DEF t, f
<1>5. /\ tasks' \in Queues(ClientTask) /\ RangeOf(tasks'[e]) = RangeOf(tasks[e]) \cup {t}
      /\ \A y \in Ends : y # e => tasks'[y] = tasks[y]
  <2>1. net \in Queues(Frame) /\ tasks \in Queues(ClientTask)
    BY <1>1 DEF Types
  <2> QED  BY <2>1, <1>2, <1>4, Pushed
<1>6. FramesTo(e)' \subseteq FramesTo(e)
  BY <1>3, <1>5, <1>t DEF FramesTo
<1>7. Installs(e)' = Installs(e)
  BY <1>5, <1>t DEF Installs
<1>8. \A y \in Ends : y # e => FramesTo(y)' = FramesTo(y) /\ Installs(y)' = Installs(y)
  BY <1>3, <1>5, SameQueues
<1>9. Types'
  BY <1>1, <1>2, <1>3, <1>5 DEF Types
<1>10. \A x \in Ends : Calm(x)
  BY <1>2, <1>7, <1>8 DEF Calm
<1>11. \A x \in Ends : NewGenuine(x)
  BY <1>2, <1>6, <1>8 DEF NewGenuine
<1> QED  BY <1>9, <1>10, <1>11, CalmStep

----------------------------------------------------------------------------
(* channel_->Close: pending requests stay, OnChannelError is posted at most   *)
(* once more; the client sequence may first have taken the task it runs.      *)
LEMMA CloseKeeps ==
  ASSUME RpcConstants, RpcInv, NEW e \in Ends, NEW queue \in Seq(ClientTask),
         CloseChannel(e, ep[e], queue),
         RangeOf(queue) \subseteq RangeOf(tasks[e]),
         \A t \in RangeOf(tasks[e]) : t.kind = "install" => t \in RangeOf(queue),
         calls' = calls, net' = net, stray' = stray
  PROVE  RpcInv'
<1> DEFINE t == [kind |-> "error"]
<1>1. Types
  BY DEF RpcInv
<1>2. t \in ClientTask /\ t.kind = "error"
  BY DEF ClientTask, ErrorTask
<1>3. ep \in [Ends -> Endpoint] /\ tasks \in [Ends -> Seq(ClientTask)]
  BY <1>1 DEF Types, Queues
<1>4. ep' = [ep EXCEPT ![e] = [ep[e] EXCEPT !.open = FALSE]]
  BY DEF CloseChannel
<1>5. /\ ep' \in [Ends -> Endpoint]
      /\ \A x \in Ends : /\ ep'[x].next_id = ep[x].next_id /\ ep'[x].pending = ep[x].pending
                         /\ ep'[x].serving = ep[x].serving
  BY <1>3, <1>4 DEF Endpoint
<1>6. \E q \in {queue, Append(queue, t)} : tasks' = [tasks EXCEPT ![e] = q]
  BY DEF CloseChannel
<1> HIDE DEF t
<1>7. PICK q \in {queue, Append(queue, t)} : tasks' = [tasks EXCEPT ![e] = q]
  BY <1>6
<1>8. q \in Seq(ClientTask) /\ RangeOf(q) \subseteq RangeOf(queue) \cup {t} /\ RangeOf(queue) \subseteq RangeOf(q)
  <2>1. Append(queue, t) \in Seq(ClientTask) /\ RangeOf(Append(queue, t)) = RangeOf(queue) \cup {t}
    BY <1>2, RangeAppend
  <2> QED  BY <2>1, <1>7
<1>9. tasks' \in Queues(ClientTask) /\ tasks'[e] = q /\ \A x \in Ends : x # e => tasks'[x] = tasks[x]
  BY <1>3, <1>7, <1>8 DEF Queues
<1>10. Types'
  BY <1>1, <1>5, <1>9 DEF Types
<1>11. FramesTo(e)' \subseteq FramesTo(e)
  BY <1>2, <1>8, <1>9 DEF FramesTo
<1>12. Installs(e) \subseteq Installs(e)'
  BY <1>8, <1>9 DEF Installs
<1>13. \A y \in Ends : y # e => FramesTo(y)' = FramesTo(y) /\ Installs(y)' = Installs(y)
  BY <1>9, SameQueues
<1>14. \A x \in Ends : Calm(x)
  BY <1>5, <1>12, <1>13 DEF Calm
<1>15. \A x \in Ends : NewGenuine(x)
  BY <1>5, <1>11, <1>13 DEF NewGenuine
<1> QED  BY <1>10, <1>14, <1>15, CalmStep

LEMMA TearDownKeeps ==
  ASSUME RpcConstants, RpcInv, NEW e \in Ends, TearDown(e)
  PROVE  RpcInv'
<1>1. tasks[e] \in Seq(ClientTask)
  BY DEF RpcInv, Types, Queues
<1>2. CloseChannel(e, ep[e], tasks[e]) /\ calls' = calls /\ net' = net /\ stray' = stray
  BY DEF TearDown
<1> QED  BY <1>1, <1>2, CloseKeeps

(* What taking the first task of the client sequence does to the queues. *)
LEMMA TaskTaken ==
  ASSUME RpcConstants, RpcInv, NEW e \in Ends, PoppedFrom(tasks, tasks', e), net' = net
  PROVE  /\ tasks' \in Queues(ClientTask) /\ Head(tasks[e]) \in ClientTask
         /\ \A y \in Ends : y # e => FramesTo(y)' = FramesTo(y) /\ Installs(y)' = Installs(y)
         /\ FramesTo(e)' \subseteq FramesTo(e)
         /\ Head(tasks[e]).kind # "install" => Installs(e)' = Installs(e)
         /\ Head(tasks[e]).kind = "frame" =>
              Head(tasks[e]).frame \in Frame /\ Head(tasks[e]).frame \in FramesTo(e)
         /\ Head(tasks[e]).kind = "install" =>
              Head(tasks[e]).id \in Nat /\ Installs(e) = Installs(e)' \cup {Head(tasks[e]).id}
<1>2. Types /\ tasks \in Queues(ClientTask)
  BY DEF RpcInv, Types
<1>3. /\ tasks' \in Queues(ClientTask) /\ Head(tasks[e]) \in ClientTask
      /\ RangeOf(tasks[e]) = {Head(tasks[e])} \cup RangeOf(tasks'[e])
      /\ \A y \in Ends : y # e => tasks'[y] = tasks[y]
  BY <1>2, Popped
<1>4. \A y \in Ends : y # e => FramesTo(y)' = FramesTo(y) /\ Installs(y)' = Installs(y)
  BY <1>3, SameQueues
<1>5. PICK t \in ClientTask : t = Head(tasks[e])
  BY <1>3
<1>6. RangeOf(tasks[e]) = {t} \cup RangeOf(tasks'[e])
  BY <1>3, <1>5
<1>7. /\ FramesTo(e)' \subseteq FramesTo(e)
      /\ t.kind # "install" => Installs(e)' = Installs(e)
      /\ t.kind = "frame" => t.frame \in Frame /\ t.frame \in FramesTo(e)
      /\ t.kind = "install" => t.id \in Nat /\ Installs(e) = Installs(e)' \cup {t.id}
  BY <1>2, <1>6, FewerTasks
<1> QED  BY <1>3, <1>4, <1>5, <1>7

LEMMA SignalErrorKeeps ==
  ASSUME RpcConstants, RpcInv, NEW e \in Ends, tasks[e] # <<>>, Head(tasks[e]).kind = "frame",
         SignalError(e, Head(tasks[e]).frame)
  PROVE  RpcInv'
<1>1. tasks[e] \in Seq(ClientTask)
  BY DEF RpcInv, Types, Queues
<1>2. Tail(tasks[e]) \in Seq(ClientTask) /\ RangeOf(tasks[e]) = {Head(tasks[e])} \cup RangeOf(Tail(tasks[e]))
  BY <1>1, RangeTail
<1>3. CloseChannel(e, ep[e], Tail(tasks[e])) /\ calls' = calls /\ net' = net /\ stray' = stray
  BY DEF SignalError
<1>4. RangeOf(Tail(tasks[e])) \subseteq RangeOf(tasks[e])
  BY <1>2
<1>5. \A t \in RangeOf(tasks[e]) : t.kind = "install" => t \in RangeOf(Tail(tasks[e]))
  BY <1>2
<1> QED  BY <1>2, <1>3, <1>4, <1>5, CloseKeeps

LEMMA OnRequestKeeps ==
  ASSUME RpcConstants, RpcInv, NEW e \in Ends, tasks[e] # <<>>, Head(tasks[e]).kind = "frame",
         OnRequest(e, Head(tasks[e]).frame)
  PROVE  RpcInv'
<1>1. Types /\ ep \in [Ends -> Endpoint]
  BY DEF RpcInv, Types
<1>2. PICK f : f = Head(tasks[e]).frame
  OBVIOUS
<1>3. /\ f.type = "request"
      /\ ep' = [ep EXCEPT ![e].serving = @ \cup {[id |-> f.id, body |-> f.body, replies |-> 0]}]
      /\ PoppedFrom(tasks, tasks', e)
      /\ calls' = calls /\ net' = net /\ stray' = stray
  BY <1>2 DEF OnRequest, PoppedFrom
<1>4. /\ tasks' \in Queues(ClientTask)
      /\ \A y \in Ends : y # e => FramesTo(y)' = FramesTo(y) /\ Installs(y)' = Installs(y)
      /\ FramesTo(e)' \subseteq FramesTo(e) /\ Installs(e)' = Installs(e)
      /\ f \in Frame /\ f \in FramesTo(e)
  BY <1>2, <1>3, TaskTaken
<1> DEFINE s == [id |-> f.id, body |-> f.body, replies |-> 0]
<1>5. s \in Served /\ s.id = f.id /\ s.body = f.body
  BY <1>4 DEF Frame, Served
<1> HIDE DEF s
<1>6. /\ ep' \in [Ends -> Endpoint]
      /\ \A x \in Ends : /\ ep'[x].next_id = ep[x].next_id /\ ep'[x].pending = ep[x].pending
                         /\ x # e => ep'[x].serving = ep[x].serving
      /\ ep'[e].serving = ep[e].serving \cup {s}
  BY <1>1, <1>3, <1>5 DEF Endpoint, s
<1>7. Types'
  BY <1>1, <1>3, <1>4, <1>6 DEF Types
<1>8. \A x \in Ends : Calm(x)
  BY <1>3, <1>4, <1>6 DEF Calm
<1>9. Concerns(s, Other(e))
  <2>1. Other(e) \in Ends /\ Other(Other(e)) = e
    BY TwoEnds
  <2>2. Genuine(Other(e))
    BY <2>1 DEF RpcInv
  <2>3. Concerns(f, Other(e))
    BY <2>1, <2>2, <1>3, <1>4 DEF Genuine
  <2> QED  BY <2>3, <1>5 DEF Concerns
<1>10. \A x \in Ends : NewGenuine(x)
  BY <1>4, <1>6, <1>9 DEF NewGenuine
<1> QED  BY <1>7, <1>8, <1>10, CalmStep

LEMMA OnOneWayKeeps ==
  ASSUME RpcConstants, RpcInv, NEW e \in Ends, tasks[e] # <<>>, Head(tasks[e]).kind = "frame",
         OnOneWay(e, Head(tasks[e]).frame)
  PROVE  RpcInv'
<1>1. Types
  BY DEF RpcInv
<1>2. /\ PoppedFrom(tasks, tasks', e)
      /\ ep' = ep /\ calls' = calls /\ net' = net /\ stray' = stray
  BY DEF OnOneWay, PoppedFrom
<1>3. /\ tasks' \in Queues(ClientTask)
      /\ \A y \in Ends : y # e => FramesTo(y)' = FramesTo(y) /\ Installs(y)' = Installs(y)
      /\ FramesTo(e)' \subseteq FramesTo(e) /\ Installs(e)' = Installs(e)
  BY <1>2, TaskTaken
<1>4. Types'
  BY <1>1, <1>2, <1>3 DEF Types
<1>5. \A x \in Ends : Calm(x) /\ NewGenuine(x)
  BY <1>2, <1>3 DEF Calm, NewGenuine
<1> QED  BY <1>4, <1>5, CalmStep

(* The frame on top of the response was made from a request of this end, so   *)
(* the entry it finds is of that request.                                     *)
LEMMA OnResponseKeeps ==
  ASSUME RpcConstants, RpcInv, NEW e \in Ends, tasks[e] # <<>>, Head(tasks[e]).kind = "frame",
         OnResponse(e, Head(tasks[e]).frame)
  PROVE  RpcInv'
<1>1. Types /\ ep \in [Ends -> Endpoint]
  BY DEF RpcInv, Types
<1>2. PICK f : f = Head(tasks[e]).frame
  OBVIOUS
<1> DEFINE D == Find(e, f.id)
<1>3. /\ f.type = "response"
      /\ ep' = [ep EXCEPT ![e].pending = @ \ D]
      /\ Fire(e, {p.call : p \in D}, <<f.body>>)
      /\ PoppedFrom(tasks, tasks', e)
      /\ net' = net /\ stray' = stray
  BY <1>2 DEF OnResponse, Answered, PoppedFrom
<1>4. /\ tasks' \in Queues(ClientTask)
      /\ \A y \in Ends : y # e => FramesTo(y)' = FramesTo(y) /\ Installs(y)' = Installs(y)
      /\ FramesTo(e)' \subseteq FramesTo(e) /\ Installs(e)' = Installs(e)
      /\ f \in Frame /\ f \in FramesTo(e)
  BY <1>2, <1>3, TaskTaken
<1>5. D \in SUBSET ep[e].pending /\ \A p \in D : p.id = f.id
  BY DEF Find
<1> HIDE DEF D
<1>6. /\ ep' \in [Ends -> Endpoint]
      /\ \A x \in Ends : ep'[x].serving = ep[x].serving
      /\ \A x \in Ends : x # e => ep'[x] = ep[x]
      /\ ep'[e].pending = ep[e].pending \ D /\ ep'[e].next_id = ep[e].next_id
  BY <1>1, <1>3, <1>5 DEF Endpoint
<1>7. ASSUME NEW p \in D  PROVE <<f.body>> = <<p.call>>
  <2>1. Concerns(f, e) /\ Entries(e) /\ Ids(e)
    BY <1>3, <1>4 DEF RpcInv, Genuine
  <2>2. /\ f.body \in 1..Len(calls[e]) /\ p.call \in 1..Len(calls[e])
        /\ IdAt(f.body) = IdAt(p.call)
    BY <2>1, <1>5, <1>7 DEF Concerns, Entries
  <2>3. Len(calls[e]) <= MaxRequests[e] /\ Len(calls[e]) \in Nat /\ MaxRequests[e] \in Nat
    <3>1. Len(calls[e]) \in Nat
      BY <1>1 DEF Types
    <3>2. MaxRequests[e] \in Nat
      BY DEF RpcConstants
    <3> QED  BY <3>1, <3>2, <2>1 DEF Ids
  <2>4. f.body \in 1..MaxRequests[e] /\ p.call \in 1..MaxRequests[e]
    BY <2>2, <2>3
  <2> QED  BY <2>2, <2>4, IdFacts
<1>8. <<f.body>> \in Seq(Nat)
  BY <1>4 DEF Frame
<1>9. calls' \in [Ends -> Seq(Call)]
  BY <1>1, <1>3, <1>8, FireType
<1>10. Types'
  BY <1>1, <1>3, <1>4, <1>6, <1>9 DEF Types
<1>11. \A x \in Ends : NewGenuine(x)
  BY <1>4, <1>6 DEF NewGenuine
<1> QED  BY <1>3, <1>4, <1>5, <1>6, <1>7, <1>8, <1>10, <1>11, FiredStep

LEMMA OnChannelErrorKeeps ==
  ASSUME RpcConstants, RpcInv, NEW e \in Ends, OnChannelError(e)
  PROVE  RpcInv'
<1>1. Types /\ ep \in [Ends -> Endpoint]
  BY DEF RpcInv, Types
<1> DEFINE D == ep[e].pending
<1>2. /\ Head(tasks[e]).kind = "error"
      /\ ep' = [ep EXCEPT ![e].pending = {}]
      /\ Fire(e, {p.call : p \in D}, <<>>)
      /\ PoppedFrom(tasks, tasks', e)
      /\ net' = net /\ stray' = stray
  BY DEF OnChannelError, PoppedFrom
<1>3. /\ tasks' \in Queues(ClientTask)
      /\ \A y \in Ends : y # e => FramesTo(y)' = FramesTo(y) /\ Installs(y)' = Installs(y)
      /\ FramesTo(e)' \subseteq FramesTo(e) /\ Installs(e)' = Installs(e)
  BY <1>2, TaskTaken
<1>4. /\ ep' \in [Ends -> Endpoint]
      /\ \A x \in Ends : ep'[x].serving = ep[x].serving
      /\ \A x \in Ends : x # e => ep'[x] = ep[x]
      /\ ep'[e].pending = D \ D /\ ep'[e].next_id = ep[e].next_id
  BY <1>1, <1>2 DEF Endpoint
<1>5. <<>> \in Seq(Nat) /\ D \in SUBSET ep[e].pending
  OBVIOUS
<1>6. calls' \in [Ends -> Seq(Call)]
  BY <1>1, <1>2, <1>5, FireType
<1>7. Types'
  BY <1>1, <1>2, <1>3, <1>4, <1>6 DEF Types
<1>8. \A x \in Ends : NewGenuine(x)
  BY <1>3, <1>4 DEF NewGenuine
<1> QED  BY <1>2, <1>3, <1>4, <1>5, <1>7, <1>8, FiredStep

LEMMA OnRequestTimeoutKeeps ==
  ASSUME RpcConstants, RpcInv, NEW e \in Ends, NEW p \in ep[e].pending, OnRequestTimeout(e, p)
  PROVE  RpcInv'
<1>1. Types /\ ep \in [Ends -> Endpoint]
  BY DEF RpcInv, Types
<1>2. /\ ep' = [ep EXCEPT ![e].pending = @ \ {p}]
      /\ Fire(e, {p.call}, <<>>)
      /\ net' = net /\ tasks' = tasks /\ stray' = stray
  BY DEF OnRequestTimeout
<1>3. {p.call} = {q.call : q \in {p}}
  OBVIOUS
<1>4. Fire(e, {q.call : q \in {p}}, <<>>)
  BY <1>2, <1>3
<1>5. /\ ep' \in [Ends -> Endpoint]
      /\ \A x \in Ends : ep'[x].serving = ep[x].serving
      /\ \A x \in Ends : x # e => ep'[x] = ep[x]
      /\ ep'[e].pending = ep[e].pending \ {p} /\ ep'[e].next_id = ep[e].next_id
  BY <1>1, <1>2 DEF Endpoint
<1>6. \A y \in Ends : FramesTo(y)' = FramesTo(y) /\ Installs(y)' = Installs(y)
  BY <1>2, SameQueues
<1>7. <<>> \in Seq(Nat) /\ {p} \in SUBSET ep[e].pending
  OBVIOUS
<1>8. calls' \in [Ends -> Seq(Call)]
  BY <1>1, <1>2, <1>7, FireType
<1>9. Types'
  BY <1>1, <1>2, <1>5, <1>8 DEF Types
<1>10. \A x \in Ends : NewGenuine(x)
  BY <1>5, <1>6 DEF NewGenuine
<1> QED  BY <1>4, <1>5, <1>6, <1>7, <1>9, <1>10, FiredStep

(* The timer's task arms the timer of the entry it finds: what the entry was  *)
(* waiting for.                                                               *)
LEMMA InstallKeeps ==
  ASSUME RpcConstants, RpcInv, NEW e \in Ends, InstallTimeoutTimer(e)
  PROVE  RpcInv'
<1>1. Types /\ ep \in [Ends -> Endpoint] /\ Ids(e) /\ Entries(e) /\ Answers(e) /\ Remembered(e)
  BY DEF RpcInv, Types
<1>2. PICK id : id = Head(tasks[e]).id
  OBVIOUS
<1> DEFINE D == Find(e, id)
           Armed == {[p EXCEPT !.timer = TRUE] : p \in D}
<1>3. /\ Head(tasks[e]).kind = "install"
      /\ ep' = [ep EXCEPT ![e].pending = (@ \ D) \cup Armed]
      /\ PoppedFrom(tasks, tasks', e)
      /\ calls' = calls /\ net' = net /\ stray' = stray
  BY <1>2 DEF InstallTimeoutTimer, ToArm, PoppedFrom
<1>4. /\ tasks' \in Queues(ClientTask)
      /\ \A y \in Ends : y # e => FramesTo(y)' = FramesTo(y) /\ Installs(y)' = Installs(y)
      /\ FramesTo(e)' \subseteq FramesTo(e) /\ Installs(e) = Installs(e)' \cup {id}
  BY <1>2, <1>3, TaskTaken
<1>5. D \subseteq ep[e].pending /\ ep[e].pending \subseteq Entry /\ \A p \in ep[e].pending : p.id = id => p \in D
  BY <1>1 DEF Find, Endpoint
<1>6. ASSUME NEW p \in D
      PROVE  LET q == [p EXCEPT !.timer = TRUE]
             IN  q \in Entry /\ q.timer /\ q.call = p.call /\ q.id = p.id
  BY <1>5 DEF Entry
<1>7. \A q \in Armed : \E p \in D : q \in Entry /\ q.timer /\ q.call = p.call /\ q.id = p.id /\ q = [p EXCEPT !.timer = TRUE]
  BY <1>6
<1>8. \A p \in D : \E q \in Armed : q.timer /\ q.call = p.call
  BY <1>6
<1> HIDE DEF D, Armed
<1>9. /\ ep' \in [Ends -> Endpoint]
      /\ \A x \in Ends : ep'[x].serving = ep[x].serving /\ ep'[x].next_id = ep[x].next_id
      /\ \A x \in Ends : x # e => ep'[x] = ep[x]
      /\ ep'[e].pending = (ep[e].pending \ D) \cup Armed
  BY <1>1, <1>3, <1>5, <1>7 DEF Endpoint
<1>10. Types'
  BY <1>1, <1>3, <1>4, <1>9 DEF Types
<1>11. Ids(e)' /\ Answers(e)'
  BY <1>1, <1>3, <1>9 DEF Ids, Answers, IdAt, NextAt
<1>12. Entries(e)'
  <2>1. ASSUME NEW q \in ep'[e].pending
        PROVE  \E p \in ep[e].pending : q.call = p.call /\ q.id = p.id
    BY <1>5, <1>7, <1>9
  <2>2. ASSUME NEW q \in ep'[e].pending
        PROVE  /\ q.call \in 1..Len(calls[e]) /\ q.id = IdAt(q.call)
               /\ calls[e][q.call].fired = 0 /\ calls[e][q.call].pc # "insert"
    BY <2>1, <1>1 DEF Entries
  <2>3. ASSUME NEW q \in ep'[e].pending, NEW s \in ep'[e].pending, q.call = s.call  PROVE q = s
    <3>1. CASE q \in ep[e].pending \ D /\ s \in ep[e].pending \ D
      BY <3>1, <2>3, <1>1 DEF Entries
    <3>2. CASE q \in Armed /\ s \in Armed
      <4>1. PICK p1 \in D : q.call = p1.call /\ q = [p1 EXCEPT !.timer = TRUE]
        BY <3>2, <1>7
      <4>2. PICK p2 \in D : s.call = p2.call /\ s = [p2 EXCEPT !.timer = TRUE]
        BY <3>2, <1>7
      <4>3. p1 = p2
        BY <4>1, <4>2, <2>3, <1>1, <1>5 DEF Entries
      <4> QED  BY <4>1, <4>2, <4>3
    <3>3. CASE q \in ep[e].pending \ D /\ s \in Armed
      BY <3>3, <2>3, <1>1, <1>5, <1>7 DEF Entries
    <3>4. CASE q \in Armed /\ s \in ep[e].pending \ D
      BY <3>4, <2>3, <1>1, <1>5, <1>7 DEF Entries
    <3> QED  BY <3>1, <3>2, <3>3, <3>4, <1>9
  <2>4. /\ \A r \in 1..Len(calls[e]) : calls[e][r].fired <= 1
        /\ \A r \in 1..Len(calls[e]) : calls[e][r].pc = "insert" => calls[e][r].fired = 0
    BY <1>1 DEF Entries
  <2> QED  BY <2>2, <2>3, <2>4, <1>3 DEF Entries, IdAt
<1>13. Remembered(e)'
  <2> SUFFICES ASSUME NEW r \in 1..Len(calls[e]), calls[e][r].fired = 0, calls[e][r].pc # "insert"
               PROVE  \E q \in ep'[e].pending :
                        q.call = r /\ (calls[e][r].pc # "done" \/ q.timer \/ q.id \in Installs(e)')
    BY <1>3 DEF Remembered
  <2>1. PICK p \in ep[e].pending :
          p.call = r /\ (calls[e][r].pc # "done" \/ p.timer \/ p.id \in Installs(e))
    BY <1>1 DEF Remembered
  <2>2. CASE p \in D
    BY <2>1, <2>2, <1>8, <1>9
  <2>3. CASE p \notin D
    <3>1. p \in ep'[e].pending /\ p.id # id
      BY <2>3, <1>5, <1>9
    <3> QED  BY <3>1, <2>1, <1>4
  <2> QED  BY <2>2, <2>3
<1>14. \A x \in Ends : NewGenuine(x)
  BY <1>4, <1>9 DEF NewGenuine
<1>15. \A x \in Ends : Genuine(x)'
  <2>1. \A x \in Ends : Len(calls[x]) <= Len(calls'[x])
    <3>1. ASSUME NEW x \in Ends  PROVE Len(calls[x]) \in Nat
      BY <1>1 DEF Types
    <3> QED  BY <3>1, <1>3
  <2> QED  BY <2>1, <1>10, <1>14, GenuineKept
<1>16. ASSUME NEW x \in Ends, x # e  PROVE Ids(x)' /\ Entries(x)' /\ Answers(x)' /\ Remembered(x)'
  <2>1. Calm(x)
    BY <1>3, <1>4, <1>9, <1>16 DEF Calm
  <2> QED  BY <2>1, CalmKeeps
<1> QED  BY <1>10, <1>11, <1>12, <1>13, <1>15, <1>16 DEF RpcInv

LEMMA ReplyKeeps ==
  ASSUME RpcConstants, RpcInv, NEW e \in Ends, NEW s \in ep[e].serving, Reply(e, s)
  PROVE  RpcInv'
<1> DEFINE f == [type |-> "response", id |-> s.id, body |-> s.body]
           s2 == [s EXCEPT !.replies = s.replies + 1]
<1>1. Types /\ ep \in [Ends -> Endpoint]
  BY DEF RpcInv, Types
<1>2. s \in Served
  BY <1>1 DEF Endpoint
<1>3. f \in Frame /\ f.type = "response" /\ f.id = s.id /\ f.body = s.body
  BY <1>2 DEF Frame, Served
<1>4. s2 \in Served /\ s2.id = s.id /\ s2.body = s.body
  <2>1. s.replies + 1 \in Nat
    BY <1>2 DEF Served
  <2>2. s2 = [id |-> s.id, body |-> s.body, replies |-> s.replies + 1]
    BY <1>2 DEF Served
  <2> QED  BY <2>1, <2>2, <1>2 DEF Served
<1>5. /\ ep' = [ep EXCEPT ![e].serving = (@ \ {s}) \cup {s2}]
      /\ SendFrame(e, f) /\ calls' = calls /\ tasks' = tasks /\ stray' = stray + s.replies
  BY DEF Reply
<1> HIDE DEF f, s2
<1>6. /\ net' \in Queues(Frame) /\ \A x \in Ends : Installs(x)' = Installs(x)
      /\ FramesTo(e)' = FramesTo(e)
      /\ FramesTo(Other(e))' \subseteq FramesTo(Other(e)) \cup {f}
  BY <1>1, <1>3, <1>5, SendFrameFacts
<1>7. /\ ep' \in [Ends -> Endpoint]
      /\ \A x \in Ends : /\ ep'[x].next_id = ep[x].next_id /\ ep'[x].pending = ep[x].pending
                         /\ x # e => ep'[x].serving = ep[x].serving
      /\ ep'[e].serving = (ep[e].serving \ {s}) \cup {s2}
  BY <1>1, <1>4, <1>5 DEF Endpoint
<1>8. Types'
  BY <1>1, <1>2, <1>5, <1>6, <1>7 DEF Types, Served
<1>9. \A x \in Ends : Calm(x)
  BY <1>5, <1>6, <1>7 DEF Calm
<1>10. PICK o \in Ends : o = Other(e) /\ Other(o) = e /\ o # e /\ \A x \in Ends : x = e \/ x = o
  BY TwoEnds
<1>11. Concerns(s, o) /\ Concerns(f, o) /\ Concerns(s2, o)
  <2>1. Concerns(s, o)
    BY <1>10 DEF RpcInv, Genuine
  <2> QED  BY <2>1, <1>3, <1>4 DEF Concerns
<1>12. NewGenuine(e)
  BY <1>6, <1>7, <1>10, <1>11 DEF NewGenuine
<1>13. NewGenuine(o)
  BY <1>3, <1>6, <1>7, <1>10, <1>11 DEF NewGenuine
<1> QED  BY <1>8, <1>9, <1>10, <1>12, <1>13, CalmStep

----------------------------------------------------------------------------
LEMMA RpcInvInit ==
  ASSUME RpcConstants, RpcInit
  PROVE  RpcInv
<1>1. IdSpace \in Nat /\ FirstId \in Nat /\ FirstId < IdSpace /\ \A e \in Ends : MaxRequests[e] \in Nat
  BY DEF RpcConstants
<1>2. \A e \in Ends : /\ ep[e].pending = {} /\ ep[e].serving = {} /\ ep[e].next_id = FirstId
                      /\ calls[e] = <<>> /\ net[e] = <<>> /\ tasks[e] = <<>>
  BY DEF RpcInit
<1>3. ep \in [Ends -> Endpoint]
  BY <1>1 DEF RpcInit, Endpoint
<1>4. <<>> \in Seq(Call) /\ <<>> \in Seq(Frame) /\ <<>> \in Seq(ClientTask)
  OBVIOUS
<1>5. Types
  BY <1>3, <1>4 DEF RpcInit, Types, Queues
<1>6. \A e \in Ends : Ids(e) /\ Entries(e) /\ Answers(e) /\ Remembered(e)
  BY <1>1, <1>2 DEF Ids, Entries, Answers, Remembered, NextAt
<1>7. \A e \in Ends : FramesTo(e) = {}
  BY <1>2 DEF FramesTo, RangeOf
<1>8. \A e \in Ends : Genuine(e)
  BY <1>2, <1>7, TwoEnds DEF Genuine
<1> QED  BY <1>5, <1>6, <1>8 DEF RpcInv

LEMMA RpcInvNext ==
  ASSUME RpcConstants, RpcInv, [RpcNext]_rpcVars
  PROVE  RpcInv'
<1>1. ASSUME NEW e \in Ends, SetRequestHandler(e) \/ Start(e)  PROVE RpcInv'
  BY <1>1, SetupKeeps
<1>2. ASSUME NEW e \in Ends, AllocateId(e)  PROVE RpcInv'
  BY <1>2, AllocateKeeps
<1>3. ASSUME NEW e \in Ends, CallStep(e)  PROVE RpcInv'
  <2>1. PICK r \in DOMAIN calls[e] :
          SkipZero(e, r) \/ InsertRequest(e, r) \/ SendRequestFrame(e, r) \/ PostInstall(e, r)
    BY <1>3 DEF CallStep
  <2>2. ~SkipZero(e, r)
    <3>1. r \in 1..Len(calls[e])
      BY DEF RpcInv, Types
    <3>2. calls[e][r].pc # "skip"
      BY <3>1 DEF RpcInv, Ids
    <3> QED  BY <3>2 DEF SkipZero
  <2> QED  BY <2>1, <2>2, InsertKeeps, SendRequestKeeps, PostInstallKeeps
<1>4. ASSUME NEW e \in Ends, SendOneWay(e)  PROVE RpcInv'
  BY <1>4, SendOneWayKeeps
<1>5. ASSUME NEW e \in Ends, TearDown(e)  PROVE RpcInv'
  BY <1>5, TearDownKeeps
<1>6. ASSUME NEW e \in Ends, Receive(e)  PROVE RpcInv'
  BY <1>6, ReceiveKeeps
<1>7. ASSUME NEW e \in Ends, Malformed(e)  PROVE RpcInv'
  BY <1>7, MalformedKeeps
<1>8. ASSUME NEW e \in Ends, OnMessageReceived(e)  PROVE RpcInv'
  BY <1>8, OnRequestKeeps, OnResponseKeeps, OnOneWayKeeps, SignalErrorKeeps DEF OnMessageReceived
<1>9. ASSUME NEW e \in Ends, OnChannelError(e)  PROVE RpcInv'
  BY <1>9, OnChannelErrorKeeps
<1>10. ASSUME NEW e \in Ends, InstallTimeoutTimer(e)  PROVE RpcInv'
  BY <1>10, InstallKeeps
<1>11. ASSUME NEW e \in Ends, Timeout(e)  PROVE RpcInv'
  BY <1>11, OnRequestTimeoutKeeps DEF Timeout
<1>12. ASSUME NEW e \in Ends, NEW s \in ep[e].serving, Reply(e, s)  PROVE RpcInv'
  BY <1>12, ReplyKeeps
<1>13. ASSUME UNCHANGED rpcVars  PROVE RpcInv'
  <2>1. ep' = ep /\ calls' = calls /\ net' = net /\ tasks' = tasks /\ stray' = stray
    BY <1>13 DEF rpcVars
  <2>2. \A x \in Ends : Calm(x) /\ NewGenuine(x)
    BY <2>1, Untouched
  <2>3. Types'
    BY <2>1 DEF RpcInv, Types
  <2> QED  BY <2>2, <2>3, CalmStep
<1> QED
  BY <1>1, <1>2, <1>3, <1>4, <1>5, <1>6, <1>7, <1>8, <1>9, <1>10, <1>11, <1>12, <1>13
  DEF RpcNext, ClientStep

(* The invariant behind the theorems of the endpoint. *)
THEOREM RpcInvariant ==
  ASSUME RpcConstants
  PROVE  RpcSpec => []RpcInv
<1>1. RpcInit => RpcInv
  BY RpcInvInit
<1>2. RpcInv /\ [RpcNext]_rpcVars => RpcInv'
  BY RpcInvNext
<1> QED  BY <1>1, <1>2, PTL DEF RpcSpec

(* Request ids stay in their space, and a pending entry is of a call that was *)
(* made.                                                                      *)
THEOREM RpcTypeCorrect ==
  ASSUME RpcConstants
  PROVE  RpcSpec => []RpcTypeOK
<1>1. RpcInv => RpcTypeOK
  <2> SUFFICES ASSUME RpcInv, NEW e \in Ends
               PROVE  /\ ep[e].next_id \in 0..(IdSpace - 1)
                      /\ \A p \in ep[e].pending : p.id \in 1..(IdSpace - 1) /\ p.call \in DOMAIN calls[e]
    BY DEF RpcTypeOK
  <2>1. Ids(e) /\ Entries(e)
    BY DEF RpcInv
  <2>2. Len(calls[e]) \in Nat /\ DOMAIN calls[e] = 1..Len(calls[e])
    BY DEF RpcInv, Types
  <2>3. IdSpace \in Nat /\ FirstId \in 1..(IdSpace - 1) /\ MaxRequests[e] \in Nat
    BY DEF RpcConstants
  <2>4. Len(calls[e]) <= MaxRequests[e]
    BY <2>1 DEF Ids
  <2>5. ep[e].next_id \in 0..(IdSpace - 1)
    BY <2>1, <2>2, <2>3, <2>4 DEF Ids, NextAt
  <2>6. ASSUME NEW p \in ep[e].pending
        PROVE  p.id \in 1..(IdSpace - 1) /\ p.call \in DOMAIN calls[e]
    <3>1. p.call \in 1..Len(calls[e]) /\ p.id = IdAt(p.call)
      BY <2>1 DEF Entries
    <3>2. p.call \in 1..MaxRequests[e]
      BY <3>1, <2>2, <2>3, <2>4
    <3> QED  BY <3>1, <3>2, <2>2, IdFacts
  <2> QED  BY <2>5, <2>6
<1> QED  BY <1>1, RpcInvariant, PTL

(* Whichever of the response, a repeated response, the timeout and the        *)
(* channel's error comes first or comes late, OnResponse, OnRequestTimeout and*)
(* OnChannelError run the callback of a request at most once.                 *)
THEOREM CallbackRunsOnce ==
  ASSUME RpcConstants
  PROVE  RpcSpec => []CallbackAtMostOnce
<1>1. RpcInv => CallbackAtMostOnce
  <2> SUFFICES ASSUME RpcInv, NEW e \in Ends, NEW r \in DOMAIN calls[e]  PROVE calls[e][r].fired <= 1
    BY DEF CallbackAtMostOnce
  <2>1. DOMAIN calls[e] = 1..Len(calls[e])
    BY DEF RpcInv, Types
  <2> QED  BY <2>1 DEF RpcInv, Entries
<1> QED  BY <1>1, RpcInvariant, PTL

(* IdsAreDistinct: until the counter wraps, no two requests share an id,      *)
(* however the threads in SendRequest interleave.                             *)
THEOREM IdsStayDistinct ==
  ASSUME RpcConstants
  PROVE  RpcSpec => []IdsAreDistinct
<1>1. RpcInv => IdsAreDistinct
  <2> SUFFICES ASSUME RpcInv, NEW e \in Ends, NEW r \in DOMAIN calls[e], NEW s \in DOMAIN calls[e],
                      calls[e][s].id = calls[e][r].id
               PROVE  s = r
    BY DEF IdsAreDistinct, Unshared
  <2>1. DOMAIN calls[e] = 1..Len(calls[e]) /\ Len(calls[e]) \in Nat
    BY DEF RpcInv, Types
  <2>2. Ids(e) /\ MaxRequests[e] \in Nat
    BY DEF RpcInv, RpcConstants
  <2>3. r \in 1..MaxRequests[e] /\ s \in 1..MaxRequests[e] /\ IdAt(s) = IdAt(r)
    BY <2>1, <2>2 DEF Ids
  <2> QED  BY <2>3, IdFacts
<1> QED  BY <1>1, RpcInvariant, PTL

(* A callback is given the reply to its own request, also when the handler    *)
(* replies twice or after the timeout.                                        *)
THEOREM AnswersMatch ==
  ASSUME RpcConstants
  PROVE  RpcSpec => []AnswerIsForRequest
<1>1. RpcInv => AnswerIsForRequest
  <2> SUFFICES ASSUME RpcInv, NEW e \in Ends, NEW r \in DOMAIN calls[e], calls[e][r].answer # <<>>
               PROVE  calls[e][r].answer = <<r>>
    BY DEF AnswerIsForRequest
  <2>1. DOMAIN calls[e] = 1..Len(calls[e])
    BY DEF RpcInv, Types
  <2> QED  BY <2>1 DEF RpcInv, Answers
<1> QED  BY <1>1, RpcInvariant, PTL

(* Whatever happens to the channel between the steps of SendRequest, a request *)
(* whose callback has not run has an entry, and its timer is armed or will be.*)
THEOREM RequestsRemembered ==
  ASSUME RpcConstants
  PROVE  RpcSpec => []NeverForgotten
<1>1. RpcInv => NeverForgotten
  <2> SUFFICES ASSUME RpcInv, NEW e \in Ends, NEW r \in DOMAIN calls[e], calls[e][r].fired = 0,
                      calls[e][r].pc # "insert"
               PROVE  \E p \in ep[e].pending :
                        /\ p.call = r
                        /\ \/ calls[e][r].pc # "done" \/ p.timer
                           \/ \E i \in DOMAIN tasks[e] : tasks[e][i].kind = "install" /\ tasks[e][i].id = p.id
    BY DEF NeverForgotten
  <2>1. DOMAIN calls[e] = 1..Len(calls[e])
    BY DEF RpcInv, Types
  <2>2. PICK p \in ep[e].pending :
          p.call = r /\ (calls[e][r].pc # "done" \/ p.timer \/ p.id \in Installs(e))
    BY <2>1 DEF RpcInv, Remembered
  <2>3. p.id \in Installs(e) =>
          \E i \in DOMAIN tasks[e] : tasks[e][i].kind = "install" /\ tasks[e][i].id = p.id
    BY DEF Installs, RangeOf
  <2> QED  BY <2>2, <2>3
<1> QED  BY <1>1, RpcInvariant, PTL

----------------------------------------------------------------------------
(* The channel's error callback: where its one run can be.                    *)
IsQueue(s) == \E S : s \in Seq(S)
ErrorTasks == {i \in DOMAIN client_tasks : client_tasks[i].kind = "Error"}
HasFields(c) ==
  {"started", "closing", "error", "on_message", "on_error", "pending", "current", "offset",
   "write_in_flight"} \subseteq DOMAIN c

ErrorShape == HasFields(ch) /\ IsQueue(client_tasks) /\ "errors" \in DOMAIN client

(* It is held by the channel, on its way to the queue, in the queue or run,   *)
(* and before StartReading it is nowhere.                                     *)
ErrorPlace ==
  /\ client.errors \in {0, 1}
  /\ \A i, j \in ErrorTasks : i = j
  /\ client.errors = 1 => ErrorTasks = {} /\ "Error" \notin unposted /\ ~ch.on_error
  /\ "Error" \in unposted => ErrorTasks = {} /\ ~ch.on_error
  /\ ch.on_error => ErrorTasks = {}
  /\ ~ch.started => ErrorTasks = {} /\ "Error" \notin unposted /\ client.errors = 0 /\ ~ch.on_error

ErrorInv == ErrorShape /\ ErrorPlace

LEMMA QueuePush ==
  ASSUME NEW q, IsQueue(q), NEW x
  PROVE  /\ IsQueue(Append(q, x)) /\ Len(q) \in Nat
         /\ DOMAIN q = 1..Len(q) /\ DOMAIN Append(q, x) = 1..(Len(q) + 1)
         /\ \A i \in 1..Len(q) : Append(q, x)[i] = q[i]
         /\ Append(q, x)[Len(q) + 1] = x
<1>1. PICK S : q \in Seq(S)
  BY DEF IsQueue
<1>2. q \in Seq(S \cup {x})
  BY <1>1, SeqMonotonic
<1> QED  BY <1>2, AppendProperties DEF IsQueue

LEMMA QueuePop ==
  ASSUME NEW q, IsQueue(q), q # <<>>
  PROVE  /\ IsQueue(Tail(q)) /\ Len(q) \in Nat \ {0}
         /\ DOMAIN q = 1..Len(q) /\ DOMAIN Tail(q) = 1..(Len(q) - 1)
         /\ \A i \in 1..(Len(q) - 1) : Tail(q)[i] = q[i + 1]
         /\ Head(q) = q[1]
<1>1. PICK S : q \in Seq(S)
  BY DEF IsQueue
<1> QED  BY <1>1, HeadTailProperties, EmptySeq DEF IsQueue

(* Steps that leave the callback where it is, or drop it. *)
LEMMA ErrorStays ==
  ASSUME ErrorInv, HasFields(ch'), ch'.started = ch.started, ch'.on_error => ch.on_error,
         UNCHANGED client_tasks, "Error" \in unposted' => "Error" \in unposted,
         "errors" \in DOMAIN client', client'.errors = client.errors
  PROVE  ErrorInv'
<1>1. ErrorShape'
  BY DEF ErrorInv, ErrorShape
<1>2. ErrorTasks' = ErrorTasks
  BY DEF ErrorTasks
<1> QED  BY <1>1, <1>2 DEF ErrorInv, ErrorPlace

(* A task that is not the callback is queued. *)
LEMMA OtherQueued ==
  ASSUME ErrorInv, NEW t, t.kind # "Error", client_tasks' = Append(client_tasks, t),
         UNCHANGED <<ch, unposted, client>>
  PROVE  ErrorInv'
<1>1. IsQueue(client_tasks)
  BY DEF ErrorInv, ErrorShape
<1>2. ErrorTasks' = ErrorTasks
  BY <1>1, QueuePush DEF ErrorTasks
<1>3. ErrorShape'
  BY <1>1, QueuePush DEF ErrorInv, ErrorShape
<1> QED  BY <1>2, <1>3 DEF ErrorInv, ErrorPlace

(* The callback is queued by whoever holds it. *)
LEMMA ErrorQueued ==
  ASSUME ErrorInv, ErrorTasks = {}, client.errors = 0, ch.started,
         client_tasks' = Append(client_tasks, [kind |-> "Error"]),
         HasFields(ch'), ch'.started = ch.started, ~ch'.on_error, "Error" \notin unposted',
         UNCHANGED client
  PROVE  ErrorInv'
<1>1. IsQueue(client_tasks)
  BY DEF ErrorInv, ErrorShape
<1>2. ErrorTasks' = {Len(client_tasks) + 1}
  BY <1>1, QueuePush DEF ErrorTasks
<1>3. ErrorShape'
  BY <1>1, QueuePush DEF ErrorInv, ErrorShape
<1> QED  BY <1>2, <1>3 DEF ErrorInv, ErrorPlace

LEMMA TakeKeeps ==
  ASSUME ErrorInv, NEW c, HasFields(c), c.started = ch.started, c.on_error = ch.on_error,
         TakeErrorCallback(c), UNCHANGED <<unposted, client>>
  PROVE  ErrorInv'
<1>1. HasFields(ch') /\ ch'.started = ch.started /\ ~ch'.on_error
  BY DEF TakeErrorCallback, HasFields
<1>2. CASE ch.on_error
  BY <1>1, <1>2, ErrorQueued DEF TakeErrorCallback, ErrorInv, ErrorPlace
<1>3. CASE ~ch.on_error
  BY <1>1, <1>3, ErrorStays DEF TakeErrorCallback, ErrorInv, ErrorShape
<1> QED  BY <1>2, <1>3

LEMMA SignalledFacts ==
  ASSUME NEW c, HasFields(c)
  PROVE  HasFields(Signalled(c)) /\ Signalled(c).started = c.started /\ Signalled(c).on_error = c.on_error
BY DEF HasFields, Signalled

LEMMA IssueKeeps ==
  ASSUME ErrorInv, NEW c, HasFields(c), c.started = ch.started, c.on_error = ch.on_error,
         IssueNextWrite(c), UNCHANGED <<unposted, client>>
  PROVE  ErrorInv'
<1>1. CASE UNCHANGED client_tasks /\ HasFields(ch') /\ ch'.started = c.started /\ ch'.on_error = c.on_error
  BY <1>1, ErrorStays DEF ErrorInv, ErrorShape
<1>2. CASE TakeErrorCallback([Signalled(c) EXCEPT !.write_in_flight = FALSE])
  <2>1. PICK d : d = [Signalled(c) EXCEPT !.write_in_flight = FALSE]
    OBVIOUS
  <2>2. HasFields(d) /\ d.started = ch.started /\ d.on_error = ch.on_error
    BY <2>1, SignalledFacts DEF HasFields
  <2>3. TakeErrorCallback(d)
    BY <1>2, <2>1
  <2> QED  BY <2>2, <2>3, TakeKeeps
<1>3. \/ ch' = c /\ UNCHANGED client_tasks
      \/ TakeErrorCallback([Signalled(c) EXCEPT !.write_in_flight = FALSE])
      \/ ch' = [c EXCEPT !.write_in_flight = FALSE] /\ UNCHANGED client_tasks
      \/ ch' = [c EXCEPT !.current = TRUE, !.offset = 0] /\ UNCHANGED client_tasks
  BY DEF IssueNextWrite
<1>4. CASE ch' = c /\ UNCHANGED client_tasks
  BY <1>1, <1>4
<1>5. CASE ch' = [c EXCEPT !.write_in_flight = FALSE] /\ UNCHANGED client_tasks
  BY <1>1, <1>5 DEF HasFields
<1>6. CASE ch' = [c EXCEPT !.current = TRUE, !.offset = 0] /\ UNCHANGED client_tasks
  BY <1>1, <1>6 DEF HasFields
<1> QED  BY <1>2, <1>3, <1>4, <1>5, <1>6

LEMMA WrittenKeeps ==
  ASSUME ErrorInv, NEW n, OnWriteComplete(n)
  PROVE  ErrorInv'
<1>0. HasFields(ch) /\ UNCHANGED <<unposted, client>> /\ "errors" \in DOMAIN client'
  BY DEF OnWriteComplete, ErrorInv, ErrorShape
<1>1. PICK popped : popped = [ch EXCEPT !.pending = Tail(@), !.current = FALSE, !.offset = 0]
  OBVIOUS
<1>2. HasFields(popped) /\ popped.started = ch.started /\ popped.on_error = ch.on_error
  BY <1>0, <1>1 DEF HasFields
<1>3. PICK moved : moved = [ch EXCEPT !.offset = @ + n]
  OBVIOUS
<1>4. HasFields(moved) /\ moved.started = ch.started /\ moved.on_error = ch.on_error
  BY <1>0, <1>3 DEF HasFields
<1>5. \/ UNCHANGED <<ch, client_tasks>>
      \/ TakeErrorCallback(Signalled(popped))
      \/ ch' = [popped EXCEPT !.write_in_flight = FALSE] /\ UNCHANGED client_tasks
      \/ IssueNextWrite(popped)
      \/ IssueNextWrite(moved)
  BY <1>1, <1>3 DEF OnWriteComplete
<1>6. CASE UNCHANGED <<ch, client_tasks>>
  BY <1>0, <1>6, ErrorStays
<1>7. CASE TakeErrorCallback(Signalled(popped))
  BY <1>0, <1>2, <1>7, SignalledFacts, TakeKeeps
<1>8. CASE ch' = [popped EXCEPT !.write_in_flight = FALSE] /\ UNCHANGED client_tasks
  <2>1. HasFields(ch') /\ ch'.started = ch.started /\ ch'.on_error = ch.on_error
    BY <1>2, <1>8 DEF HasFields
  <2> QED  BY <1>0, <1>8, <2>1, ErrorStays
<1>9. CASE IssueNextWrite(popped)
  BY <1>0, <1>2, <1>9, IssueKeeps
<1>10. CASE IssueNextWrite(moved)
  BY <1>0, <1>4, <1>10, IssueKeeps
<1> QED  BY <1>5, <1>6, <1>7, <1>8, <1>9, <1>10

LEMMA DataKeeps ==
  ASSUME ErrorInv, NEW units, OnDataReceived(units)
  PROVE  ErrorInv'
<1>1. ch' = ch \/ ch' = Signalled(ch)
  BY DEF OnDataReceived
<1>2. UNCHANGED <<unposted, client_tasks, client>>
  BY DEF OnDataReceived
<1>3. HasFields(ch) /\ "errors" \in DOMAIN client'
  BY <1>2 DEF ErrorInv, ErrorShape
<1> QED  BY <1>1, <1>2, <1>3, SignalledFacts, ErrorStays

LEMMA IoTaskKeeps ==
  ASSUME ErrorInv, RunIoTask
  PROVE  ErrorInv'
<1>0. HasFields(ch) /\ "errors" \in DOMAIN client
  BY DEF ErrorInv, ErrorShape
<1>1. PICK t : \/ BeginRead("idle") \/ OnDataReceived(t.units)
               \/ IssueNextWrite(ch) /\ UNCHANGED <<unposted, client>>
               \/ OnWriteComplete(t.n)
  BY DEF RunIoTask
<1>2. CASE BeginRead("idle")
  BY <1>0, <1>2, ErrorStays DEF BeginRead
<1>3. CASE OnDataReceived(t.units)
  BY <1>3, DataKeeps
<1>4. CASE IssueNextWrite(ch) /\ UNCHANGED <<unposted, client>>
  BY <1>0, <1>4, IssueKeeps
<1>5. CASE OnWriteComplete(t.n)
  BY <1>5, WrittenKeeps
<1> QED  BY <1>1, <1>2, <1>3, <1>4, <1>5

LEMMA CallKeeps ==
  ASSUME ErrorInv, StartReading \/ Close \/ (\E len \in PayloadSizes : Send(len))
  PROVE  ErrorInv'
<1>0. HasFields(ch) /\ "errors" \in DOMAIN client
  BY DEF ErrorInv, ErrorShape
<1>1. CASE StartReading
  <2>1. HasFields(ch') /\ ch'.started /\ ch'.on_error /\ ~ch.started
    BY <1>0, <1>1 DEF StartReading, HasFields
  <2>2. UNCHANGED <<client_tasks, client>> /\ ("Error" \in unposted' => "Error" \in unposted)
    BY <1>1 DEF StartReading
  <2>3. ErrorTasks' = ErrorTasks
    BY <2>2 DEF ErrorTasks
  <2>4. ErrorShape'
    BY <2>1, <2>2 DEF ErrorInv, ErrorShape
  <2> QED  BY <2>1, <2>2, <2>3, <2>4 DEF ErrorInv, ErrorPlace
<1>2. CASE Close
  <2>1. UNCHANGED <<client_tasks, client>>
    BY <1>2 DEF Close
  <2>2. HasFields(ch') /\ ch'.started = ch.started /\ (ch'.on_error => ch.on_error)
    BY <1>0, <1>2 DEF Close, Closed, HasFields
  <2>3. CASE Drained /\ ch.on_error
    <3>1. ~ch'.on_error /\ unposted' = unposted \cup {"Error"}
      BY <1>0, <1>2, <2>3 DEF Close, Closed, HasFields
    <3>2. ErrorTasks' = ErrorTasks
      BY <2>1 DEF ErrorTasks
    <3>3. ErrorShape'
      BY <2>1, <2>2 DEF ErrorInv, ErrorShape
    <3>4. ErrorTasks = {} /\ client.errors = 0 /\ ch.started
      BY <2>3 DEF ErrorInv, ErrorPlace
    <3> QED  BY <2>1, <2>2, <3>1, <3>2, <3>3, <3>4 DEF ErrorInv, ErrorPlace
  <2>4. CASE ~(Drained /\ ch.on_error)
    <3>1. unposted' = unposted
      BY <1>2, <2>4 DEF Close
    <3> QED  BY <1>0, <2>1, <2>2, <3>1, ErrorStays
  <2> QED  BY <2>3, <2>4
<1>3. ASSUME NEW len \in PayloadSizes, Send(len)
      PROVE  ErrorInv'
  <2>1. HasFields(ch') /\ ch'.started = ch.started /\ ch'.on_error = ch.on_error
    BY <1>0, <1>3 DEF Send, HasFields
  <2>2. UNCHANGED <<client_tasks, client>> /\ ("Error" \in unposted' => "Error" \in unposted)
    BY <1>3 DEF Send
  <2> QED  BY <1>0, <2>1, <2>2, ErrorStays
<1> QED  BY <1>1, <1>2, <1>3

LEMMA PostKeeps ==
  ASSUME ErrorInv, NEW task \in unposted, Post(task)
  PROVE  ErrorInv'
<1>0. HasFields(ch) /\ "errors" \in DOMAIN client /\ UNCHANGED <<ch, client>>
  BY DEF ErrorInv, ErrorShape, Post
<1>1. CASE task = "Error"
  <2>1. ErrorTasks = {} /\ client.errors = 0 /\ ch.started /\ ~ch.on_error
    BY <1>1 DEF ErrorInv, ErrorPlace
  <2>2. client_tasks' = Append(client_tasks, [kind |-> "Error"]) /\ "Error" \notin unposted'
    BY <1>1 DEF Post
  <2> QED  BY <1>0, <2>1, <2>2, ErrorQueued
<1>2. CASE task # "Error"
  BY <1>0, <1>2, ErrorStays DEF Post
<1> QED  BY <1>1, <1>2

LEMMA ReadStepKeeps ==
  ASSUME ErrorInv, Deliver \/ PostMessages \/ DeliverError \/ Resume \/ ReadAgain \/ LastCheck
  PROVE  ErrorInv'
<1>0. HasFields(ch) /\ "errors" \in DOMAIN client
  BY DEF ErrorInv, ErrorShape
<1>1. CASE Deliver
  BY <1>0, <1>1, ErrorStays DEF Deliver
<1>2. CASE PostMessages
  BY <1>2, OtherQueued DEF PostMessages
<1>3. CASE DeliverError
  BY <1>0, <1>3, TakeKeeps DEF DeliverError
<1>4. CASE Resume
  <2>1. UNCHANGED <<client_tasks, unposted>> /\ "errors" \in DOMAIN client' /\ client'.errors = client.errors
    BY <1>0, <1>4 DEF Resume
  <2>2. ch' = ch \/ ch' = Signalled(ch)
    BY <1>4 DEF Resume
  <2> QED  BY <1>0, <2>1, <2>2, SignalledFacts, ErrorStays
<1>5. CASE ReadAgain
  BY <1>0, <1>5, ErrorStays DEF ReadAgain, BeginRead
<1>6. CASE LastCheck
  <2>1. UNCHANGED <<unposted, client>>
    BY <1>6 DEF LastCheck
  <2>2. CASE ch.error
    BY <1>0, <1>6, <2>1, <2>2, TakeKeeps DEF LastCheck
  <2>3. CASE ~ch.error
    BY <1>0, <1>6, <2>1, <2>3, ErrorStays DEF LastCheck
  <2> QED  BY <2>2, <2>3
<1> QED  BY <1>1, <1>2, <1>3, <1>4, <1>5, <1>6

LEMMA ClientKeeps ==
  ASSUME ErrorInv, RunClientTask
  PROVE  ErrorInv'
<1>1. IsQueue(client_tasks) /\ client_tasks # <<>> /\ client_tasks' = Tail(client_tasks)
  BY DEF ErrorInv, ErrorShape, RunClientTask
<1>2. UNCHANGED <<ch, unposted>> /\ "errors" \in DOMAIN client'
  BY DEF ErrorInv, ErrorShape, RunClientTask
<1>3. ErrorShape'
  BY <1>1, <1>2, QueuePop DEF ErrorInv, ErrorShape
<1>4. ErrorTasks' = {i \in 1..(Len(client_tasks) - 1) : i + 1 \in ErrorTasks}
  BY <1>1, QueuePop DEF ErrorTasks
<1>5. \A i, j \in ErrorTasks : i = j
  BY DEF ErrorInv, ErrorPlace
<1>6. Len(client_tasks) \in Nat \ {0} /\ DOMAIN client_tasks = 1..Len(client_tasks) /\ Head(client_tasks) = client_tasks[1]
  BY <1>1, QueuePop
<1>7. CASE Head(client_tasks).kind = "Error"
  <2>1. 1 \in ErrorTasks
    BY <1>6, <1>7 DEF ErrorTasks
  <2>2. ErrorTasks' = {}
    BY <1>4, <1>5, <1>6, <2>1
  <2>3. client.errors = 0 /\ "Error" \notin unposted /\ ~ch.on_error /\ ch.started
    BY <2>1 DEF ErrorInv, ErrorPlace
  <2>4. client'.errors = 1
    BY <1>7, <2>3 DEF RunClientTask, ErrorInv, ErrorShape
  <2> QED  BY <1>2, <1>3, <2>2, <2>3, <2>4 DEF ErrorInv, ErrorPlace
<1>8. CASE Head(client_tasks).kind # "Error"
  <2>1. client'.errors = client.errors
    BY <1>8 DEF RunClientTask, ErrorInv, ErrorShape
  <2>2. \A i, j \in ErrorTasks' : i = j
    BY <1>4, <1>5, <1>6
  <2>3. ErrorTasks = {} => ErrorTasks' = {}
    BY <1>4
  <2> QED  BY <1>2, <1>3, <2>1, <2>2, <2>3 DEF ErrorInv, ErrorPlace
<1> QED  BY <1>7, <1>8

LEMMA StreamKeeps ==
  ASSUME ErrorInv, ReadCompletes \/ WriteCompletes \/ (\E f \in Frames : PeerSends(f)) \/ PeerCloses
  PROVE  ErrorInv'
<1>0. HasFields(ch) /\ "errors" \in DOMAIN client
  BY DEF ErrorInv, ErrorShape
<1>1. UNCHANGED <<ch, unposted, client_tasks>>
  BY DEF ReadCompletes, WriteCompletes, PeerSends, PeerCloses
<1>2. "errors" \in DOMAIN client' /\ client'.errors = client.errors
  BY <1>0 DEF ReadCompletes, WriteCompletes, PeerSends, PeerCloses
<1> QED  BY <1>0, <1>1, <1>2, ErrorStays

LEMMA ErrorInvInit == Init => ErrorInv
<1> SUFFICES ASSUME Init PROVE ErrorInv
  OBVIOUS
<1>1. IsQueue(client_tasks)
  <2>1. client_tasks \in Seq({})
    BY EmptySeq DEF Init
  <2> QED  BY <2>1 DEF IsQueue
<1>2. ErrorTasks = {}
  BY DEF Init, ErrorTasks
<1>3. HasFields(ch) /\ ~ch.on_error /\ ~ch.started
  BY DEF Init, HasFields
<1>4. "errors" \in DOMAIN client /\ client.errors = 0 /\ unposted = {}
  BY DEF Init
<1> QED  BY <1>1, <1>2, <1>3, <1>4 DEF ErrorInv, ErrorShape, ErrorPlace

LEMMA ErrorInvNext == ErrorInv /\ [Next]_channelVars => ErrorInv'
<1> SUFFICES ASSUME ErrorInv, [Next]_channelVars PROVE ErrorInv'
  OBVIOUS
<1>1. CASE UNCHANGED channelVars
  BY <1>1 DEF channelVars, ErrorInv, ErrorShape, ErrorPlace, ErrorTasks
<1>2. CASE StartReading \/ Close \/ (\E len \in PayloadSizes : Send(len))
  BY <1>2, CallKeeps
<1>3. CASE \E task \in unposted : Post(task)
  BY <1>3, PostKeeps
<1>4. CASE IoStep
  BY <1>4, IoTaskKeeps, ReadStepKeeps DEF IoStep
<1>5. CASE RunClientTask
  BY <1>5, ClientKeeps
<1>6. CASE ReadCompletes \/ WriteCompletes \/ (\E f \in Frames : PeerSends(f)) \/ PeerCloses
  BY <1>6, StreamKeeps
<1> QED  BY <1>1, <1>2, <1>3, <1>4, <1>5, <1>6 DEF Next

(* ErrorAtMostOnce: StartReading stores the error callback once, and Close,   *)
(* the read path and the write path race to move it out; it is held, posted   *)
(* or run, and only one of them, for any messages, sizes and cuts of the      *)
(* streams.                                                                   *)
THEOREM ErrorToldOnce == Spec => []ErrorAtMostOnce
<1>1. ErrorInv => ErrorAtMostOnce
  <2> SUFFICES ASSUME ErrorInv PROVE ErrorAtMostOnce
    OBVIOUS
  <2>1. ErrorTasks = {} \/ \E i : ErrorTasks = {i}
    BY DEF ErrorInv, ErrorPlace
  <2>2. Cardinality(ErrorTasks) \in {0, 1} /\ (ErrorTasks = {} => Cardinality(ErrorTasks) = 0)
    BY <2>1, FS_EmptySet, FS_Singleton
  <2>3. PICK n : n = Cardinality(ErrorTasks)
    OBVIOUS
  <2>4. client.errors + n + (IF "Error" \in unposted THEN 1 ELSE 0) + (IF ch.on_error THEN 1 ELSE 0) <= 1
    BY <2>2, <2>3 DEF ErrorInv, ErrorPlace
  <2> QED  BY <2>3, <2>4 DEF ErrorAtMostOnce, ErrorTasks
<1> QED  BY <1>1, ErrorInvInit, ErrorInvNext, PTL DEF Spec

----------------------------------------------------------------------------
(* Close drains: the I/O tasks, then the channel. *)
ChannelConstants == HeaderSize \in Nat /\ PayloadSizes \subseteq Nat

(* What the I/O tasks say: an empty chunk is the end of the stream, nothing   *)
(* written is a failure.                                                      *)
Truthful(t, ended, failed) ==
  /\ t.kind = "Data" /\ t.units = <<>> => ended
  /\ t.kind = "Written" /\ t.n = 0 => failed
TaskInv ==
  /\ unposted \subseteq {"BeginRead", "IssueNextWrite", "Error"}
  /\ {"errors", "messages", "failed", "cut", "swallowed"} \subseteq DOMAIN client
  /\ {"frames", "units", "eof"} \subseteq DOMAIN peer
  /\ {"pc", "messages", "bad"} \subseteq DOMAIN io
  /\ IsQueue(peer.units) /\ IsQueue(io_tasks)
  /\ \A i \in DOMAIN io_tasks : Truthful(io_tasks[i], peer.eof, client.failed)

LEMMA QueueConcat ==
  ASSUME NEW p, NEW q, IsQueue(p), IsQueue(q)
  PROVE  IsQueue(p \o q)
<1>1. PICK S : p \in Seq(S)
  BY DEF IsQueue
<1>2. PICK T : q \in Seq(T)
  BY DEF IsQueue
<1>3. p \in Seq(S \cup T) /\ q \in Seq(S \cup T)
  BY <1>1, <1>2, SeqMonotonic
<1> QED  BY <1>3, ConcatProperties DEF IsQueue

LEMMA QueueCut ==
  ASSUME NEW q, IsQueue(q), NEW n \in 0..Len(q)
  PROVE  /\ IsQueue(SubSeq(q, n + 1, Len(q))) 
         /\ n # 0 => SubSeq(q, 1, n) # <<>>
<1>1. PICK S : q \in Seq(S)
  BY DEF IsQueue
<1>2. Len(q) \in Nat
  BY <1>1, LenProperties
<1>3. SubSeq(q, n + 1, Len(q)) \in Seq(S)
  BY <1>1, <1>2, SubSeqProperties
<1>4. ASSUME n # 0 PROVE SubSeq(q, 1, n) # <<>>
  <2>1. Len(SubSeq(q, 1, n)) = n
    BY <1>1, <1>2, <1>4, SubSeqProperties
  <2> QED  BY <1>4, <2>1, EmptySeq
<1> QED  BY <1>3, <1>4 DEF IsQueue

LEMMA UnitsQueue ==
  ASSUME ChannelConstants, NEW m, NEW len \in PayloadSizes
  PROVE  IsQueue(Units(m, len))
<1>1. HeaderSize + len \in Nat
  BY DEF ChannelConstants
<1>2. Units(m, len) \in [1..(HeaderSize + len) -> {<<m, k>> : k \in 1..(HeaderSize + len)}]
  BY DEF Units
<1>3. Units(m, len) \in Seq({<<m, k>> : k \in 1..(HeaderSize + len)})
  BY <1>1, <1>2, SeqDef
<1> QED  BY <1>3 DEF IsQueue

(* The queue loses a task, keeps them or gains a truthful one, and the facts  *)
(* they rest on do not go away.                                               *)
LEMMA TasksStay ==
  ASSUME TaskInv,
         unposted' \subseteq {"BeginRead", "IssueNextWrite", "Error"},
         {"errors", "messages", "failed", "cut", "swallowed"} \subseteq DOMAIN client',
         {"frames", "units", "eof"} \subseteq DOMAIN peer',
         {"pc", "messages", "bad"} \subseteq DOMAIN io',
         IsQueue(peer'.units), peer.eof => peer'.eof, client.failed => client'.failed,
         \/ UNCHANGED io_tasks
         \/ io_tasks # <<>> /\ io_tasks' = Tail(io_tasks)
         \/ \E t : io_tasks' = Append(io_tasks, t) /\ Truthful(t, peer'.eof, client'.failed)
  PROVE  TaskInv'
<1>1. IsQueue(io_tasks) /\ \A i \in DOMAIN io_tasks : Truthful(io_tasks[i], peer.eof, client.failed)
  BY DEF TaskInv
<1>2. \A t : Truthful(t, peer.eof, client.failed) => Truthful(t, peer'.eof, client'.failed)
  BY DEF Truthful
<1>3. IsQueue(io_tasks)' /\ \A i \in DOMAIN io_tasks' : Truthful(io_tasks'[i], peer'.eof, client'.failed)
  <2>1. CASE UNCHANGED io_tasks
    BY <1>1, <1>2, <2>1
  <2>2. CASE io_tasks # <<>> /\ io_tasks' = Tail(io_tasks)
    BY <1>1, <1>2, <2>2, QueuePop
  <2>3. ASSUME NEW t, io_tasks' = Append(io_tasks, t), Truthful(t, peer'.eof, client'.failed)
        PROVE  IsQueue(io_tasks)' /\ \A i \in DOMAIN io_tasks' : Truthful(io_tasks'[i], peer'.eof, client'.failed)
    BY <1>1, <1>2, <2>3, QueuePush
  <2> QED  BY <2>1, <2>2, <2>3
<1> QED  BY <1>3 DEF TaskInv

(* The steps that leave the I/O tasks alone. *)
LEMMA TasksUntouched ==
  ASSUME TaskInv, StartReading \/ Close \/ (\E len \in PayloadSizes : Send(len))
                  \/ Deliver \/ PostMessages \/ DeliverError \/ Resume \/ ReadAgain \/ LastCheck
                  \/ RunClientTask \/ PeerCloses
  PROVE  TaskInv'
<1>1. UNCHANGED io_tasks
  BY DEF StartReading, Close, Send, Deliver, PostMessages, DeliverError, Resume, ReadAgain, LastCheck,
         RunClientTask, PeerCloses
<1>2. unposted' \subseteq {"BeginRead", "IssueNextWrite", "Error"}
  BY DEF TaskInv, StartReading, Close, Send, Deliver, PostMessages, DeliverError, Resume, ReadAgain, BeginRead,
         LastCheck, RunClientTask, PeerCloses
<1>3. {"pc", "messages", "bad"} \subseteq DOMAIN io'
  BY DEF TaskInv, StartReading, Close, Send, Deliver, PostMessages, DeliverError, Resume, ReadAgain, BeginRead,
         LastCheck, RunClientTask, PeerCloses
<1>4. /\ {"errors", "messages", "failed", "cut", "swallowed"} \subseteq DOMAIN client'
      /\ client.failed => client'.failed
  BY DEF TaskInv, StartReading, Close, Send, Deliver, PostMessages, DeliverError, Resume, ReadAgain, BeginRead,
         LastCheck, RunClientTask, PeerCloses
<1>5. {"frames", "units", "eof"} \subseteq DOMAIN peer' /\ peer'.units = peer.units /\ (peer.eof => peer'.eof)
  BY DEF TaskInv, StartReading, Close, Send, Deliver, PostMessages, DeliverError, Resume, ReadAgain, BeginRead,
         LastCheck, RunClientTask, PeerCloses
<1>6. IsQueue(peer'.units)
  BY <1>5 DEF TaskInv
<1> QED  BY <1>1, <1>2, <1>3, <1>4, <1>5, <1>6, TasksStay

LEMMA TaskRun ==
  ASSUME TaskInv, RunIoTask
  PROVE  TaskInv'
<1>1. io_tasks # <<>> /\ io_tasks' = Tail(io_tasks)
  BY DEF RunIoTask
<1>2. UNCHANGED <<unposted, client, peer>>
  BY DEF RunIoTask, BeginRead, OnDataReceived, OnWriteComplete
<1>3. {"pc", "messages", "bad"} \subseteq DOMAIN io'
  <2>1. PICK t : \/ BeginRead("idle") \/ OnDataReceived(t.units) \/ UNCHANGED io \/ OnWriteComplete(t.n)
    BY DEF RunIoTask
  <2>2. CASE OnDataReceived(t.units)
    <3>1. \/ io' = [io EXCEPT !.pc = "idle"] \/ io' = [io EXCEPT !.pc = "error"]
          \/ \E next, messages, bad : io' = [pc |-> next, messages |-> messages, bad |-> bad]
      BY <2>2 DEF OnDataReceived
    <3> QED  BY <3>1 DEF TaskInv
  <2> QED  BY <2>1, <2>2 DEF TaskInv, BeginRead, OnWriteComplete
<1> QED  BY <1>1, <1>2, <1>3, TasksStay DEF TaskInv

LEMMA TaskPosted ==
  ASSUME TaskInv, NEW task \in unposted, Post(task)
  PROVE  TaskInv'
<1>1. UNCHANGED <<client, peer, io>> /\ unposted' \subseteq unposted
  BY DEF Post
<1>2. CASE task = "Error"
  BY <1>1, <1>2, TasksStay DEF Post, TaskInv
<1>3. CASE task # "Error"
  <2>1. io_tasks' = Append(io_tasks, [kind |-> task]) /\ task \notin {"Data", "Written"}
    BY <1>3 DEF Post, TaskInv
  <2>2. Truthful([kind |-> task], peer'.eof, client'.failed)
    BY <2>1 DEF Truthful
  <2> QED  BY <1>1, <2>1, <2>2, TasksStay DEF TaskInv
<1> QED  BY <1>2, <1>3

LEMMA TaskFromRead ==
  ASSUME TaskInv, ReadCompletes
  PROVE  TaskInv'
<1>1. PICK n \in 0..Len(peer.units) :
        /\ n = 0 => peer.eof /\ peer.units = <<>>
        /\ io_tasks' = Append(io_tasks, [kind |-> "Data", units |-> SubSeq(peer.units, 1, n)])
        /\ peer' = [peer EXCEPT !.units = SubSeq(@, n + 1, Len(@))]
  BY DEF ReadCompletes
<1>2. UNCHANGED <<unposted, client, io>>
  BY DEF ReadCompletes
<1>3. /\ {"frames", "units", "eof"} \subseteq DOMAIN peer' /\ peer'.eof = peer.eof
      /\ peer'.units = SubSeq(peer.units, n + 1, Len(peer.units))
  BY <1>1 DEF TaskInv
<1>4. IsQueue(peer'.units) /\ (n # 0 => SubSeq(peer.units, 1, n) # <<>>)
  BY <1>3, QueueCut DEF TaskInv
<1>5. Truthful([kind |-> "Data", units |-> SubSeq(peer.units, 1, n)], peer'.eof, client'.failed)
  BY <1>1, <1>3, <1>4 DEF Truthful
<1> QED  BY <1>1, <1>2, <1>3, <1>4, <1>5, TasksStay DEF TaskInv

LEMMA TaskFromWrite ==
  ASSUME TaskInv, WriteCompletes
  PROVE  TaskInv'
<1>1. PICK n : /\ io_tasks' = Append(io_tasks, [kind |-> "Written", n |-> n])
               /\ client' = [client EXCEPT !.failed = @ \/ n = 0]
  BY DEF WriteCompletes
<1>2. UNCHANGED <<unposted, peer, io>>
  BY DEF WriteCompletes
<1>3. /\ {"errors", "messages", "failed", "cut", "swallowed"} \subseteq DOMAIN client'
      /\ (client.failed \/ n = 0) => client'.failed
  BY <1>1 DEF TaskInv
<1>4. Truthful([kind |-> "Written", n |-> n], peer'.eof, client'.failed)
  BY <1>3 DEF Truthful
<1> QED  BY <1>1, <1>2, <1>3, <1>4, TasksStay DEF TaskInv

LEMMA TasksWhenPeerSends ==
  ASSUME ChannelConstants, TaskInv, NEW f \in Frames, PeerSends(f)
  PROVE  TaskInv'
<1>1. peer' = [peer EXCEPT !.frames = Append(@, f), !.units = @ \o Units(Len(peer.frames) + 1, f.len)]
  BY DEF PeerSends
<1>2. UNCHANGED <<unposted, client, io, io_tasks>>
  BY DEF PeerSends
<1>3. /\ {"frames", "units", "eof"} \subseteq DOMAIN peer' /\ peer'.eof = peer.eof
      /\ peer'.units = peer.units \o Units(Len(peer.frames) + 1, f.len)
  BY <1>1 DEF TaskInv
<1>4. f.len \in PayloadSizes
  BY DEF Frames
<1>5. IsQueue(peer'.units)
  BY <1>3, <1>4, UnitsQueue, QueueConcat DEF TaskInv
<1> QED  BY <1>2, <1>3, <1>5, TasksStay DEF TaskInv

LEMMA TaskInvNext == ChannelConstants /\ TaskInv /\ [Next]_channelVars => TaskInv'
<1> SUFFICES ASSUME ChannelConstants, TaskInv, [Next]_channelVars PROVE TaskInv'
  OBVIOUS
<1>1. CASE UNCHANGED channelVars
  BY <1>1 DEF channelVars, TaskInv
<1>2. CASE StartReading \/ Close \/ (\E len \in PayloadSizes : Send(len))
           \/ Deliver \/ PostMessages \/ DeliverError \/ Resume \/ ReadAgain \/ LastCheck
           \/ RunClientTask \/ PeerCloses
  BY <1>2, TasksUntouched
<1>3. CASE RunIoTask
  BY <1>3, TaskRun
<1>4. CASE \E task \in unposted : Post(task)
  BY <1>4, TaskPosted
<1>5. CASE ReadCompletes \/ WriteCompletes
  BY <1>5, TaskFromRead, TaskFromWrite
<1>6. CASE \E f \in Frames : PeerSends(f)
  BY <1>6, TasksWhenPeerSends
<1> QED  BY <1>1, <1>2, <1>3, <1>4, <1>5, <1>6 DEF Next, IoStep

LEMMA TaskInvInit == Init => TaskInv
<1> SUFFICES ASSUME Init PROVE TaskInv
  OBVIOUS
<1>1. peer.units = <<>> /\ io_tasks = <<>>
  BY DEF Init
<1>2. IsQueue(peer.units) /\ IsQueue(io_tasks)
  <2>1. peer.units \in Seq({}) /\ io_tasks \in Seq({})
    BY <1>1, EmptySeq
  <2> QED  BY <2>1 DEF IsQueue
<1>3. \A i \in DOMAIN io_tasks : Truthful(io_tasks[i], peer.eof, client.failed)
  BY <1>1
<1> QED  BY <1>2, <1>3 DEF Init, TaskInv

(* The callback has left the channel.  What may end the channel before it is  *)
(* drained.                                                                   *)
Told == client.errors = 1 \/ ErrorTasks # {} \/ "Error" \in unposted
Excused == client.failed \/ client.cut \/ peer.eof \/ io.bad
DrainPart ==
  /\ Told => ch.error
  /\ io.pc = "error" => ch.error
  /\ ch.error => Excused \/ ch.pending = <<>>
  /\ client.failed \/ IsQueue(ch.pending)

DrainInv == ErrorInv /\ TaskInv /\ DrainPart

(* A step that does not end the channel. *)
LEMMA Working ==
  ASSUME DrainPart, Told' => Told, io'.pc = "error" => io.pc = "error",
         ch'.error = ch.error,
         ch.error => ch'.pending = ch.pending /\ (Excused => Excused'),
         client'.failed \/ IsQueue(ch'.pending)
  PROVE  DrainPart'
<1>1. (client.failed \/ IsQueue(ch.pending))' 
  OBVIOUS
<1>2. (Told => ch.error)' /\ (io.pc = "error" => ch.error)'
  BY DEF DrainPart
<1>3. (ch.error => Excused \/ ch.pending = <<>>)'
  BY DEF DrainPart
<1> QED  BY <1>1, <1>2, <1>3 DEF DrainPart

(* A step after which the channel has ended. *)
LEMMA Settled ==
  ASSUME ch'.error, Excused' \/ ch'.pending = <<>>, client'.failed \/ IsQueue(ch'.pending)
  PROVE  DrainPart'
BY DEF DrainPart

LEMMA ToldStays ==
  ASSUME UNCHANGED <<unposted, client_tasks>>, client'.errors = client.errors
  PROVE  Told' => Told
BY DEF Told, ErrorTasks

LEMMA EmptyIsQueue == IsQueue(<<>>)
<1>1. <<>> \in Seq({})
  BY EmptySeq
<1> QED  BY <1>1 DEF IsQueue

LEMMA TakeSettles ==
  ASSUME NEW c, HasFields(c), c.error, TakeErrorCallback(c), Excused' \/ c.pending = <<>>,
         client'.failed \/ IsQueue(c.pending)
  PROVE  DrainPart'
<1>1. ch'.error /\ ch'.pending = c.pending
  BY DEF TakeErrorCallback, HasFields
<1> QED  BY <1>1, Settled

LEMMA SignalledMore ==
  ASSUME NEW c, HasFields(c)
  PROVE  Signalled(c).error /\ Signalled(c).pending = c.pending
BY DEF HasFields, Signalled

LEMMA IssueDrains ==
  ASSUME DrainPart, NEW c, HasFields(c), c.error = ch.error, ch.error => c.pending = ch.pending,
         client.failed \/ IsQueue(c.pending),
         IssueNextWrite(c), UNCHANGED <<unposted, client, io, peer>>
  PROVE  DrainPart'
<1>0. Excused' = Excused
  BY DEF Excused
<1>1. CASE UNCHANGED client_tasks /\ ch'.error = c.error /\ ch'.pending = c.pending
  <2>1. Told' => Told
    BY <1>1, ToldStays
  <2> QED  BY <1>0, <1>1, <2>1, Working
<1>2. CASE c.pending = <<>> /\ TakeErrorCallback([Signalled(c) EXCEPT !.write_in_flight = FALSE])
  <2>1. PICK d : d = [Signalled(c) EXCEPT !.write_in_flight = FALSE]
    OBVIOUS
  <2>2. HasFields(d) /\ d.error /\ d.pending = <<>>
    BY <1>2, <2>1, SignalledFacts, SignalledMore DEF HasFields
  <2>3. TakeErrorCallback(d)
    BY <1>2, <2>1
  <2> QED  BY <2>2, <2>3, TakeSettles, EmptyIsQueue
<1>3. \/ ch' = c /\ UNCHANGED client_tasks
      \/ c.pending = <<>> /\ TakeErrorCallback([Signalled(c) EXCEPT !.write_in_flight = FALSE])
      \/ ch' = [c EXCEPT !.write_in_flight = FALSE] /\ UNCHANGED client_tasks
      \/ ch' = [c EXCEPT !.current = TRUE, !.offset = 0] /\ UNCHANGED client_tasks
  BY DEF IssueNextWrite
<1>4. CASE ch' = c /\ UNCHANGED client_tasks
  BY <1>1, <1>4
<1>5. CASE ch' = [c EXCEPT !.write_in_flight = FALSE] /\ UNCHANGED client_tasks
  BY <1>1, <1>5 DEF HasFields
<1>6. CASE ch' = [c EXCEPT !.current = TRUE, !.offset = 0] /\ UNCHANGED client_tasks
  BY <1>1, <1>6 DEF HasFields
<1> QED  BY <1>2, <1>3, <1>4, <1>5, <1>6

LEMMA WrittenDrains ==
  ASSUME ErrorInv, DrainPart, NEW n, n = 0 => client.failed, OnWriteComplete(n)
  PROVE  DrainPart'
<1>0. HasFields(ch) /\ UNCHANGED <<unposted, client, io, peer>> /\ Excused' = Excused
  BY DEF OnWriteComplete, ErrorInv, ErrorShape, Excused
<1>1. PICK popped : popped = [ch EXCEPT !.pending = Tail(@), !.current = FALSE, !.offset = 0]
  OBVIOUS
<1>2. HasFields(popped) /\ popped.error = ch.error /\ popped.pending = Tail(ch.pending)
  BY <1>0, <1>1 DEF HasFields
<1>3. PICK moved : moved = [ch EXCEPT !.offset = @ + n]
  OBVIOUS
<1>4. HasFields(moved) /\ moved.error = ch.error /\ moved.pending = ch.pending
  BY <1>0, <1>3 DEF HasFields
<1>5. \/ UNCHANGED <<ch, client_tasks>>
      \/ ~ch.error /\ (n = 0 \/ Len(ch.pending) = 1) /\ TakeErrorCallback(Signalled(popped))
      \/ /\ ~ch.error /\ Len(ch.pending) = 1
         /\ ch' = [popped EXCEPT !.write_in_flight = FALSE] /\ UNCHANGED client_tasks
      \/ ~ch.error /\ Len(ch.pending) > 1 /\ IssueNextWrite(popped)
      \/ ~ch.error /\ IssueNextWrite(moved)
  BY <1>1, <1>3 DEF OnWriteComplete
<1>6. CASE UNCHANGED <<ch, client_tasks>>
  <2>1. Told' => Told
    BY <1>0, <1>6, ToldStays
  <2> QED  BY <1>0, <1>6, <2>1, Working DEF DrainPart
<1>7. IsQueue(ch.pending) /\ Len(ch.pending) = 1 => Tail(ch.pending) = <<>>
  <2> SUFFICES ASSUME IsQueue(ch.pending), Len(ch.pending) = 1 PROVE Tail(ch.pending) = <<>>
    OBVIOUS
  <2>1. PICK S : ch.pending \in Seq(S)
    BY DEF IsQueue
  <2>2. ch.pending # <<>>
    BY EmptySeq
  <2>3. Tail(ch.pending) \in Seq(S) /\ Len(Tail(ch.pending)) = 0
    BY <2>1, <2>2, HeadTailProperties
  <2> QED  BY <2>3, EmptySeq
<1>8. IsQueue(ch.pending) /\ Len(ch.pending) > 1 => IsQueue(Tail(ch.pending))
  <2> SUFFICES ASSUME IsQueue(ch.pending), Len(ch.pending) > 1 PROVE IsQueue(Tail(ch.pending))
    OBVIOUS
  <2>1. ch.pending # <<>>
    BY EmptySeq
  <2> QED  BY <2>1, QueuePop
<1>9. client.failed \/ IsQueue(ch.pending)
  BY DEF DrainPart
<1>10. CASE ~ch.error /\ (n = 0 \/ Len(ch.pending) = 1) /\ TakeErrorCallback(Signalled(popped))
  <2>1. client.failed \/ Tail(ch.pending) = <<>>
    BY <1>7, <1>9, <1>10
  <2>2. Excused' \/ Signalled(popped).pending = <<>>
    BY <1>0, <1>2, <2>1, SignalledMore DEF Excused
  <2>3. client'.failed \/ IsQueue(Signalled(popped).pending)
    BY <1>0, <1>2, <2>1, SignalledMore, EmptyIsQueue
  <2> QED  BY <1>2, <1>10, <2>2, <2>3, SignalledFacts, SignalledMore, TakeSettles
<1>11. CASE /\ ~ch.error /\ Len(ch.pending) = 1
            /\ ch' = [popped EXCEPT !.write_in_flight = FALSE] /\ UNCHANGED client_tasks
  <2>1. ch'.error = ch.error /\ ch'.pending = Tail(ch.pending)
    BY <1>2, <1>11 DEF HasFields
  <2>2. client'.failed \/ IsQueue(ch'.pending)
    BY <1>0, <1>7, <1>9, <1>11, <2>1, EmptyIsQueue
  <2>3. Told' => Told
    BY <1>0, <1>11, ToldStays
  <2> QED  BY <1>0, <1>11, <2>1, <2>2, <2>3, Working
<1>12. CASE ~ch.error /\ Len(ch.pending) > 1 /\ IssueNextWrite(popped)
  BY <1>0, <1>2, <1>8, <1>9, <1>12, IssueDrains
<1>13. CASE ~ch.error /\ IssueNextWrite(moved)
  BY <1>0, <1>4, <1>9, <1>13, IssueDrains
<1> QED  BY <1>5, <1>6, <1>10, <1>11, <1>12, <1>13

LEMMA DataDrains ==
  ASSUME ErrorInv, TaskInv, DrainPart, NEW units, units = <<>> => peer.eof, OnDataReceived(units)
  PROVE  DrainPart'
<1>0. HasFields(ch) /\ UNCHANGED <<unposted, client_tasks, client, peer>>
  BY DEF OnDataReceived, ErrorInv, ErrorShape
<1>1. Told' => Told
  BY <1>0, ToldStays
<1>2. client'.failed \/ IsQueue(ch.pending)
  BY <1>0 DEF DrainPart
<1>3. CASE ch.error
  <2>1. ch' = ch /\ io' = [io EXCEPT !.pc = "idle"]
    BY <1>3 DEF OnDataReceived
  <2>2. io'.pc = "idle" /\ io'.bad = io.bad
    BY <2>1 DEF TaskInv
  <2>3. Excused' = Excused
    BY <1>0, <2>2 DEF Excused
  <2> QED  BY <1>1, <1>2, <2>1, <2>2, <2>3, Working
<1>4. CASE ~ch.error /\ units = <<>>
  <2>1. ch' = Signalled(ch)
    BY <1>4 DEF OnDataReceived
  <2>2. Excused'
    BY <1>0, <1>4 DEF Excused
  <2> QED  BY <1>0, <1>2, <2>1, <2>2, SignalledMore, Settled
<1>5. CASE ~ch.error /\ units # <<>>
  <2>1. PICK bad, out :
          /\ ch' = IF bad THEN Signalled(ch) ELSE ch
          /\ io' = [pc |-> CASE out # <<>> -> "deliver" [] out = <<>> /\ bad -> "error" [] OTHER -> "resume",
                    messages |-> out, bad |-> bad]
    BY <1>5 DEF OnDataReceived
  <2>2. CASE bad
    <3>1. Excused'
      BY <2>1, <2>2 DEF Excused
    <3> QED  BY <1>0, <1>2, <2>1, <2>2, <3>1, SignalledMore, Settled
  <2>3. CASE ~bad
    <3>1. ch' = ch /\ io'.pc # "error"
      BY <2>1, <2>3
    <3> QED  BY <1>1, <1>2, <1>5, <3>1, Working
  <2> QED  BY <2>2, <2>3
<1> QED  BY <1>3, <1>4, <1>5

LEMMA IoTaskDrains ==
  ASSUME ErrorInv, TaskInv, DrainPart, RunIoTask
  PROVE  DrainPart'
<1>0. HasFields(ch)
  BY DEF ErrorInv, ErrorShape
<1>1. PICK t : /\ t = Head(io_tasks)
               /\ \/ BeginRead("idle")
                  \/ t.kind = "Data" /\ OnDataReceived(t.units)
                  \/ IssueNextWrite(ch) /\ UNCHANGED <<unposted, client, io, peer>>
                  \/ t.kind = "Written" /\ OnWriteComplete(t.n)
  BY DEF RunIoTask
<1>2. Truthful(t, peer.eof, client.failed)
  <2>1. IsQueue(io_tasks) /\ io_tasks # <<>> /\ \A i \in DOMAIN io_tasks : Truthful(io_tasks[i], peer.eof, client.failed)
    BY DEF TaskInv, RunIoTask
  <2>2. t = io_tasks[1] /\ 1 \in DOMAIN io_tasks
    BY <1>1, <2>1, QueuePop
  <2> QED  BY <2>1, <2>2
<1>3. CASE BeginRead("idle")
  <2>1. UNCHANGED <<ch, unposted, client_tasks, client, peer>> /\ io' = [io EXCEPT !.pc = "idle"]
    BY <1>3 DEF BeginRead
  <2>2. io'.pc = "idle" /\ io'.bad = io.bad
    BY <2>1 DEF TaskInv
  <2>3. Excused' = Excused
    BY <2>1, <2>2 DEF Excused
  <2>4. Told' => Told
    BY <2>1, ToldStays
  <2> QED  BY <2>1, <2>2, <2>3, <2>4, Working DEF DrainPart
<1>4. CASE t.kind = "Data" /\ OnDataReceived(t.units)
  BY <1>2, <1>4, DataDrains DEF Truthful
<1>5. CASE IssueNextWrite(ch) /\ UNCHANGED <<unposted, client, io, peer>>
  BY <1>0, <1>5, IssueDrains DEF DrainPart
<1>6. CASE t.kind = "Written" /\ OnWriteComplete(t.n)
  BY <1>2, <1>6, WrittenDrains DEF Truthful
<1> QED  BY <1>1, <1>3, <1>4, <1>5, <1>6

LEMMA ReadStepDrains ==
  ASSUME ErrorInv, TaskInv, DrainPart,
         Deliver \/ PostMessages \/ DeliverError \/ Resume \/ ReadAgain \/ LastCheck
  PROVE  DrainPart'
<1>0. HasFields(ch) /\ (client.failed \/ IsQueue(ch.pending)) /\ (ch.error => Excused \/ ch.pending = <<>>)
  BY DEF ErrorInv, ErrorShape, DrainPart
<1>1. UNCHANGED <<unposted, peer>>
  BY DEF Deliver, PostMessages, DeliverError, Resume, ReadAgain, BeginRead, LastCheck
<1>2. io'.pc # "error" /\ io'.bad = io.bad
  BY DEF Deliver, PostMessages, DeliverError, Resume, ReadAgain, BeginRead, LastCheck, TaskInv
<1>3. client'.errors = client.errors /\ client'.failed = client.failed /\ (client.cut => client'.cut)
  BY DEF Deliver, PostMessages, DeliverError, Resume, ReadAgain, BeginRead, LastCheck, TaskInv
<1>4. Excused => Excused'
  BY <1>1, <1>2, <1>3 DEF Excused
<1>5. CASE Deliver \/ ReadAgain
  <2>1. UNCHANGED <<ch, client_tasks>>
    BY <1>5 DEF Deliver, ReadAgain, BeginRead
  <2>2. Told' => Told
    BY <1>1, <1>3, <2>1, ToldStays
  <2> QED  BY <1>0, <1>2, <1>3, <1>4, <2>1, <2>2, Working
<1>6. CASE PostMessages
  <2>1. UNCHANGED ch
    BY <1>6 DEF PostMessages
  <2>2. ErrorTasks' = ErrorTasks
    BY <1>6, QueuePush DEF ErrorTasks, PostMessages, ErrorInv, ErrorShape
  <2>3. Told' => Told
    BY <1>1, <1>3, <2>2 DEF Told
  <2> QED  BY <1>0, <1>2, <1>3, <1>4, <2>1, <2>3, Working
<1>7. CASE DeliverError
  <2>1. ch.error /\ TakeErrorCallback(ch)
    BY <1>7 DEF DeliverError, DrainPart
  <2> QED  BY <1>0, <1>3, <1>4, <2>1, TakeSettles
<1>8. CASE Resume
  <2>1. UNCHANGED client_tasks
    BY <1>8 DEF Resume
  <2>2. Told' => Told
    BY <1>1, <1>3, <2>1, ToldStays
  <2>3. CASE ch.closing /\ ~ch.error
    <3>1. ch' = Signalled(ch) /\ (ch.pending # <<>> => client'.cut)
      BY <1>8, <2>3 DEF Resume, TaskInv
    <3>2. ch'.error /\ ch'.pending = ch.pending
      BY <1>0, <3>1, SignalledMore
    <3>3. Excused' \/ ch'.pending = <<>>
      BY <3>1, <3>2 DEF Excused
    <3> QED  BY <1>0, <1>3, <3>2, <3>3, Settled
  <2>4. CASE ~(ch.closing /\ ~ch.error)
    <3>1. ch' = ch
      BY <1>8, <2>4 DEF Resume
    <3> QED  BY <1>0, <1>2, <1>3, <1>4, <2>2, <3>1, Working
  <2> QED  BY <2>3, <2>4
<1>9. CASE LastCheck
  <2>1. CASE ch.error
    BY <1>0, <1>3, <1>4, <1>9, <2>1, TakeSettles DEF LastCheck
  <2>2. CASE ~ch.error
    <3>1. UNCHANGED <<ch, client_tasks>>
      BY <1>9, <2>2 DEF LastCheck
    <3>2. Told' => Told
      BY <1>1, <1>3, <3>1, ToldStays
    <3> QED  BY <1>0, <1>2, <1>3, <1>4, <3>1, <3>2, Working
  <2> QED  BY <2>1, <2>2
<1> QED  BY <1>5, <1>6, <1>7, <1>8, <1>9

LEMMA CallDrains ==
  ASSUME ErrorInv, DrainPart, StartReading \/ Close \/ (\E len \in PayloadSizes : Send(len))
  PROVE  DrainPart'
<1>0. HasFields(ch) /\ (client.failed \/ IsQueue(ch.pending))
  BY DEF ErrorInv, ErrorShape, DrainPart
<1>1. UNCHANGED <<client_tasks, client, io, peer>> /\ Excused' = Excused
  BY DEF StartReading, Close, Send, Excused
<1>2. CASE StartReading
  <2>1. ch'.error = ch.error /\ ch'.pending = ch.pending
    BY <1>0, <1>2 DEF StartReading, HasFields
  <2>2. "Error" \in unposted' => "Error" \in unposted
    BY <1>2 DEF StartReading
  <2>3. Told' => Told
    BY <1>1, <2>2 DEF Told, ErrorTasks
  <2> QED  BY <1>0, <1>1, <2>1, <2>3, Working
<1>3. CASE Close
  <2>1. CASE Drained
    <3>1. ch'.error /\ ch'.pending = <<>>
      BY <1>0, <1>3, <2>1 DEF Close, Closed, Drained, HasFields
    <3> QED  BY <3>1, Settled, EmptyIsQueue
  <2>2. CASE ~Drained
    <3>1. ch'.error = ch.error /\ ch'.pending = ch.pending /\ UNCHANGED unposted
      BY <1>0, <1>3, <2>2 DEF Close, HasFields
    <3>2. Told' => Told
      BY <1>1, <3>1, ToldStays
    <3> QED  BY <1>0, <1>1, <3>1, <3>2, Working
  <2> QED  BY <2>1, <2>2
<1>4. ASSUME NEW len \in PayloadSizes, Send(len)
      PROVE  DrainPart'
  <2>1. ch'.error = ch.error /\ ~ch.error /\ ch'.pending = Append(ch.pending, Units(Len(sent) + 1, len))
    BY <1>0, <1>4 DEF Send, HasFields
  <2>2. client'.failed \/ IsQueue(ch'.pending)
    BY <1>0, <1>1, <2>1, QueuePush
  <2>3. "Error" \in unposted' => "Error" \in unposted
    BY <1>4 DEF Send
  <2>4. Told' => Told
    BY <1>1, <2>3 DEF Told, ErrorTasks
  <2> QED  BY <1>1, <2>1, <2>2, <2>4, Working
<1> QED  BY <1>2, <1>3, <1>4

LEMMA PostDrains ==
  ASSUME ErrorInv, DrainPart, NEW task \in unposted, Post(task)
  PROVE  DrainPart'
<1>1. UNCHANGED <<ch, client, io, peer>> /\ Excused' = Excused
  BY DEF Post, Excused
<1>2. Told' => Told
  <2>1. CASE task = "Error"
    BY <2>1 DEF Told
  <2>2. CASE task # "Error"
    BY <1>1, <2>2 DEF Told, ErrorTasks, Post
  <2> QED  BY <2>1, <2>2
<1> QED  BY <1>1, <1>2, Working DEF DrainPart

LEMMA ClientDrains ==
  ASSUME ErrorInv, TaskInv, DrainPart, RunClientTask
  PROVE  DrainPart'
<1>1. UNCHANGED <<ch, unposted, io, peer>>
  BY DEF RunClientTask
<1>2. client'.failed = client.failed /\ client'.cut = client.cut
  BY DEF RunClientTask, TaskInv
<1>3. Excused' = Excused
  BY <1>1, <1>2 DEF Excused
<1>4. Told' => Told
  <2>1. IsQueue(client_tasks) /\ client_tasks # <<>> /\ client_tasks' = Tail(client_tasks)
    BY DEF ErrorInv, ErrorShape, RunClientTask
  <2>2. ErrorTasks' # {} => ErrorTasks # {}
    BY <2>1, QueuePop DEF ErrorTasks
  <2>3. Head(client_tasks).kind = "Error" => ErrorTasks # {}
    <3>1. Head(client_tasks) = client_tasks[1] /\ 1 \in DOMAIN client_tasks
      BY <2>1, QueuePop
    <3> QED  BY <3>1 DEF ErrorTasks
  <2>4. Head(client_tasks).kind # "Error" => client'.errors = client.errors
    BY DEF RunClientTask, TaskInv
  <2> QED  BY <1>1, <2>2, <2>3, <2>4 DEF Told
<1> QED  BY <1>1, <1>2, <1>3, <1>4, Working DEF DrainPart

LEMMA StreamDrains ==
  ASSUME ErrorInv, TaskInv, DrainPart,
         ReadCompletes \/ WriteCompletes \/ (\E f \in Frames : PeerSends(f)) \/ PeerCloses
  PROVE  DrainPart'
<1>1. UNCHANGED <<ch, unposted, client_tasks, io>>
  BY DEF ReadCompletes, WriteCompletes, PeerSends, PeerCloses
<1>2. /\ client'.errors = client.errors /\ client'.cut = client.cut
      /\ client.failed => client'.failed
      /\ peer.eof => peer'.eof
  BY DEF ReadCompletes, WriteCompletes, PeerSends, PeerCloses, TaskInv
<1>3. Excused => Excused'
  BY <1>1, <1>2 DEF Excused
<1>4. Told' => Told
  BY <1>1, <1>2, ToldStays
<1> QED  BY <1>1, <1>2, <1>3, <1>4, Working DEF DrainPart

LEMMA DrainInvNext == ChannelConstants /\ DrainInv /\ [Next]_channelVars => DrainInv'
<1> SUFFICES ASSUME ChannelConstants, DrainInv, [Next]_channelVars PROVE DrainInv'
  OBVIOUS
<1>1. ErrorInv /\ TaskInv /\ DrainPart
  BY DEF DrainInv
<1>2. ErrorInv' /\ TaskInv'
  BY <1>1, ErrorInvNext, TaskInvNext
<1>3. DrainPart'
  <2>1. CASE UNCHANGED channelVars
    BY <1>1, <2>1 DEF channelVars, DrainPart, Told, ErrorTasks, Excused
  <2>2. CASE StartReading \/ Close \/ (\E len \in PayloadSizes : Send(len))
    BY <1>1, <2>2, CallDrains
  <2>3. CASE \E task \in unposted : Post(task)
    BY <1>1, <2>3, PostDrains
  <2>4. CASE IoStep
    BY <1>1, <2>4, IoTaskDrains, ReadStepDrains DEF IoStep
  <2>5. CASE RunClientTask
    BY <1>1, <2>5, ClientDrains
  <2>6. CASE ReadCompletes \/ WriteCompletes \/ (\E f \in Frames : PeerSends(f)) \/ PeerCloses
    BY <1>1, <2>6, StreamDrains
  <2> QED  BY <2>1, <2>2, <2>3, <2>4, <2>5, <2>6 DEF Next
<1> QED  BY <1>2, <1>3 DEF DrainInv

LEMMA DrainInvInit == Init => DrainInv
<1> SUFFICES ASSUME Init PROVE DrainInv
  OBVIOUS
<1>1. ErrorInv /\ TaskInv
  BY ErrorInvInit, TaskInvInit
<1>2. ~Told
  BY DEF Init, Told, ErrorTasks
<1>3. io.pc # "error" /\ ~ch.error /\ ch.pending = <<>>
  BY DEF Init
<1> QED  BY <1>1, <1>2, <1>3, EmptyIsQueue DEF DrainInv, DrainPart

(* CloseDrains: when the client is told the channel is over, all that Send    *)
(* accepted has been written, unless a write failed, the peer ended the       *)
(* stream or broke the protocol, or input came in while Close was draining.   *)
THEOREM CloseDrainsFirst == ChannelConstants /\ Spec => []CloseDrains
<1>1. DrainInv => CloseDrains
  <2> SUFFICES ASSUME DrainInv, client.errors > 0 PROVE Excused \/ ch.pending = <<>>
    BY DEF CloseDrains, Excused
  <2>1. client.errors = 1
    BY DEF DrainInv, ErrorInv, ErrorPlace
  <2> QED  BY <2>1 DEF DrainInv, DrainPart, Told
<1>2. CASE ChannelConstants
  BY <1>1, <1>2, DrainInvInit, DrainInvNext, PTL DEF Spec
<1> QED  BY <1>2
=============================================================================
