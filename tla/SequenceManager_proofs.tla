---------------------- MODULE SequenceManager_proofs ----------------------
(***************************************************************************)
(* Proofs about SequenceManager and its default pump, for any number of    *)
(* queues, priority levels, posting threads and nested loops: a loop ends  *)
(* only when it was asked to, and the pump never sleeps past the run time  *)
(* of a delayed task.                                                      *)
(***************************************************************************)
EXTENDS SequenceManager, SequenceTheorems, WellFoundedInduction, TLAPS

RunTimes == Nat \ {0}

IsFrame(f) ==
  /\ f.ran \in BOOLEAN
  /\ f = [pc |-> f.pc, todo |-> f.todo, fast |-> f.fast, count |-> f.count, ran |-> f.ran, now |-> f.now,
          until |-> f.until, late |-> f.late, asked |-> f.asked]

Pumps == [scheduled : BOOLEAN, deadline : Nat, signalled : BOOLEAN, depth : Nat, quit : Nat]
Posts == [pc : {"idle", "signal"}] \cup [pc : {"posted", "exchange", "peek"}, queue : Queues]
         \cup [pc : {"schedule"}, due : SUBSET RunTimes]

Framed(fs) ==
  LET S == {fs[i] : i \in DOMAIN fs} IN fs \in Seq(S) /\ \A f \in S : IsFrame(f)

Types ==
  /\ Framed(frames) /\ pump \in Pumps
  /\ poster \in [Posters -> Posts] /\ delayed \in [Queues -> SUBSET RunTimes]
  /\ queues \subseteq Queues /\ pending \in BOOLEAN /\ clock \in Nat /\ shut = [done |-> shut.done, left |-> shut.left]

(* The frames are the nested Runs: the pump counts them, every one but the    *)
(* innermost is inside a task, and the one that is to quit was asked to.      *)
InTask(f) == f.pc \in {"fast", "general"} /\ f.ran = TRUE

Nesting ==
  /\ pump.depth = Len(frames) /\ pump.quit <= Len(frames)
  /\ pump.quit > 0 => frames[pump.quit].asked = TRUE
  /\ \A i \in 1..Len(frames) : i < Len(frames) \/ frames[i].todo # <<>> => InTask(frames[i])

(* A queue that is not registered yet has no delayed task. *)
Unused == ~shut.done => shut.left = <<>> /\ \A q \in Queues \ queues : delayed[q] = {}

-----------------------------------------------------------------------------
Scheduling == \E p \in Posters : poster[p].pc \in {"peek", "schedule"}
SchedulingFor(d) == \E p \in Posters : poster[p].pc = "schedule" /\ \E x \in poster[p].due : x <= d
Signalling == pump.signalled = TRUE \/ \E p \in Posters : poster[p].pc = "signal"
Posting(q) == \E p \in Posters : poster[p].pc \in {"posted", "exchange", "peek"} /\ poster[p].queue = q
Covers(t, d) == t # 0 /\ t <= d

(* The pump has not run a task since it took the notification. *)
Fresh(f) ==
  \/ f.pc \in {"delayed", "idle", "deadline", "reset", "recheck"}
  \/ f.pc \in {"fast", "general"} /\ f.ran = FALSE

(* Whoever set pending_work_notification_ since then is on its way to the pump *)
(* or has been there.                                                          *)
PendingSeen ==
  frames # <<>> /\ pending =>
    /\ Fresh(Top) => Scheduling \/ pump.scheduled = TRUE
    /\ Top.pc = "wait" => Scheduling \/ Signalling

(* Between the look at the delayed tasks and the end of the wait, a run time   *)
(* is covered by the deadline the pump has or has read, or a post that will    *)
(* tell the pump is under way.                                                 *)
DueSeenFor(q, d) ==
  /\ Top.pc \in {"idle", "deadline"} => pending \/ Posting(q) \/ SchedulingFor(d) \/ Covers(pump.deadline, d)
  /\ Top.pc \in {"reset", "recheck"} =>
       pending \/ Posting(q) \/ Scheduling \/ pump.scheduled = TRUE \/ Covers(Top.until, d)
  /\ Top.pc = "wait" => pending \/ Posting(q) \/ Scheduling \/ Signalling \/ Covers(Top.until, d + Top.late)

DueSeen == frames # <<>> => \A q \in queues : \A d \in delayed[q] : DueSeenFor(q, d)

(* The time the pump looked at is not ahead of the clock, the deadline it read *)
(* was still ahead of that time, and the wait is counted from the clock.       *)
Clocked ==
  frames # <<>> =>
    /\ Top.pc \in {"idle", "deadline", "reset", "recheck"} => Top.now \in Nat
    /\ Top.pc \in {"idle", "deadline", "reset", "recheck"} => Top.now <= clock
    /\ Top.pc \in {"reset", "recheck", "wait"} => Top.until \in Nat
    /\ Top.pc \in {"reset", "recheck"} => Top.until = 0 \/ Top.now < Top.until
    /\ Top.pc = "wait" => Top.late \in Nat

ManagerInv == Types /\ Nesting /\ Unused /\ PendingSeen /\ DueSeen /\ Clocked

-----------------------------------------------------------------------------
(* The least of a set of natural numbers. *)
LEMMA MinIs ==
  ASSUME NEW S \in SUBSET Nat, S # {}
  PROVE  Min(S) \in S /\ \A y \in S : Min(S) <= y
<1>1. PICK j : j \in S
  OBVIOUS
<1>2. PICK x \in S : \A y \in S : ~(<<y, x>> \in OpToRel(<, Nat))
  BY <1>1, NatLessThanWellFounded, WFMin
<1>3. \A y \in S : ~(y < x)
  BY <1>2 DEF OpToRel
<1>4. \A y \in S : x <= y
  BY <1>3
<1> QED  BY <1>4 DEF Min

(* The pump's deadline after ScheduleDelayedWork covers what it covered and    *)
(* the new run times.                                                          *)
LEMMA EarlierIs ==
  ASSUME NEW t \in Nat, NEW D \in SUBSET RunTimes
  PROVE  /\ Earlier(t, D) \in Nat
         /\ \A d \in RunTimes : d \in D \/ Covers(t, d) => Covers(Earlier(t, D), d)
<1>1. CASE D = {}
  BY <1>1 DEF Earlier
<1>2. CASE D # {} /\ t = 0
  <2>1. Min(D) \in D /\ \A y \in D : Min(D) <= y
    BY <1>2, MinIs DEF RunTimes
  <2> QED  BY <1>2, <2>1 DEF Earlier, Covers, RunTimes
<1>3. CASE D # {} /\ t # 0
  <2>1. PICK E : E = D \cup {t}
    OBVIOUS
  <2>2. Min(E) \in E /\ \A y \in E : Min(E) <= y
    BY <1>3, <2>1, MinIs DEF RunTimes
  <2>3. Earlier(t, D) = Min(E)
    BY <1>3, <2>1 DEF Earlier
  <2>4. Min(E) \in Nat /\ Min(E) # 0 /\ Min(E) <= t /\ \A y \in D : Min(E) <= y
    BY <1>3, <2>1, <2>2 DEF RunTimes
  <2> QED  BY <2>3, <2>4 DEF Covers, RunTimes
<1> QED  BY <1>1, <1>2, <1>3

-----------------------------------------------------------------------------
(* What a step does to the frames. *)

LEMMA FramedFacts ==
  ASSUME NEW fs, Framed(fs)
  PROVE  /\ fs \in Seq({fs[i] : i \in DOMAIN fs}) /\ Len(fs) \in Nat /\ DOMAIN fs = 1..Len(fs)
         /\ \A i \in 1..Len(fs) : IsFrame(fs[i])
         /\ fs # <<>> => Len(fs) \in 1..Len(fs)
BY DEF Framed

LEMMA FramedIntro ==
  ASSUME NEW T, NEW fs \in Seq(T), \A i \in 1..Len(fs) : IsFrame(fs[i])
  PROVE  Framed(fs)
<1>1. fs \in [1..Len(fs) -> {fs[i] : i \in DOMAIN fs}] /\ Len(fs) \in Nat /\ DOMAIN fs = 1..Len(fs)
  OBVIOUS
<1>2. fs \in Seq({fs[i] : i \in DOMAIN fs})
  BY <1>1, SeqDef
<1> QED  BY <1>1, <1>2 DEF Framed

Replaced(fs, gs, f) ==
  /\ Framed(gs) /\ Len(gs) = Len(fs) /\ gs # <<>> /\ gs[Len(gs)] = f
  /\ \A i \in 1..Len(fs) : i # Len(fs) => gs[i] = fs[i]

LEMMA Replacing ==
  ASSUME NEW fs, Framed(fs), fs # <<>>, NEW f, IsFrame(f)
  PROVE  Replaced(fs, [fs EXCEPT ![Len(fs)] = f], f)
<1> DEFINE gs == [fs EXCEPT ![Len(fs)] = f]
           T  == {fs[i] : i \in DOMAIN fs} \cup {f}
<1>1. fs \in Seq({fs[i] : i \in DOMAIN fs}) /\ Len(fs) \in 1..Len(fs) /\ DOMAIN fs = 1..Len(fs) /\ Len(fs) \in Nat
  BY FramedFacts
<1>2. fs \in Seq(T)
  BY <1>1
<1>3. gs \in Seq(T) /\ Len(gs) = Len(fs) /\ \A i \in 1..Len(fs) : gs[i] = IF i = Len(fs) THEN f ELSE fs[i]
  BY <1>1, <1>2
<1>4. \A i \in 1..Len(gs) : IsFrame(gs[i])
  BY <1>3, FramedFacts
<1>5. Framed(gs)
  BY <1>3, <1>4, FramedIntro
<1>6. gs # <<>> /\ gs[Len(gs)] = f
  BY <1>1, <1>3
<1> HIDE DEF gs
<1>7. Replaced(fs, gs, f)
  BY <1>1, <1>3, <1>5, <1>6 DEF Replaced
<1> QED  BY <1>7 DEF gs

Pushed(fs, gs, f) ==
  /\ Framed(gs) /\ Len(gs) = Len(fs) + 1 /\ gs # <<>> /\ gs[Len(gs)] = f
  /\ \A i \in 1..Len(fs) : gs[i] = fs[i]

LEMMA Pushing ==
  ASSUME NEW fs, Framed(fs), NEW f, IsFrame(f)
  PROVE  Pushed(fs, Append(fs, f), f)
<1> DEFINE gs == Append(fs, f)
           T  == {fs[i] : i \in DOMAIN fs} \cup {f}
<1>1. fs \in Seq({fs[i] : i \in DOMAIN fs}) /\ DOMAIN fs = 1..Len(fs) /\ Len(fs) \in Nat
  BY FramedFacts
<1>2. fs \in Seq(T)
  BY <1>1
<1>3. gs \in Seq(T) /\ Len(gs) = Len(fs) + 1 /\ gs[Len(fs) + 1] = f /\ \A i \in 1..Len(fs) : gs[i] = fs[i]
  BY <1>2
<1>4. \A i \in 1..Len(gs) : IsFrame(gs[i])
  BY <1>1, <1>3, FramedFacts
<1>5. Framed(gs)
  BY <1>3, <1>4, FramedIntro
<1> QED  BY <1>1, <1>3, <1>5 DEF Pushed

LEMMA Popping ==
  ASSUME NEW fs, Framed(fs), fs # <<>>, NEW gs, gs = SubSeq(fs, 1, Len(fs) - 1)
  PROVE  /\ Framed(gs) /\ Len(gs) = Len(fs) - 1
         /\ \A i \in 1..Len(gs) : gs[i] = fs[i]
<1> DEFINE T == {fs[i] : i \in DOMAIN fs}
<1>1. fs \in Seq(T) /\ DOMAIN fs = 1..Len(fs) /\ Len(fs) \in Nat /\ Len(fs) \in 1..Len(fs)
  BY FramedFacts
<1> HIDE DEF T
<1>2. gs \in Seq(T) /\ Len(gs) = Len(fs) - 1 /\ \A i \in 1..Len(gs) : gs[i] = fs[i]
  BY <1>1, SubSeqProperties
<1>3. \A i \in 1..Len(fs) : IsFrame(fs[i])
  BY FramedFacts
<1>4. \A i \in 1..Len(gs) : i \in 1..Len(fs)
  BY <1>1, <1>2
<1>5. \A i \in 1..Len(gs) : IsFrame(gs[i])
  BY <1>2, <1>3, <1>4
<1> QED  BY <1>2, <1>5, FramedIntro
(* Asked(fs) marks the innermost frame. *)
LEMMA Marking ==
  ASSUME NEW fs, Framed(fs), pump.depth = Len(fs), fs # <<>>
  PROVE  Replaced(fs, Asked(fs), [fs[Len(fs)] EXCEPT !.asked = TRUE])
<1>1. fs \in Seq({fs[i] : i \in DOMAIN fs}) /\ Len(fs) \in 1..Len(fs) /\ DOMAIN fs = 1..Len(fs) /\ Len(fs) \in Nat
  BY FramedFacts
<1>2. PICK f : f = [fs[Len(fs)] EXCEPT !.asked = TRUE]
  OBVIOUS
<1>3. IsFrame(fs[Len(fs)])
  BY <1>1, FramedFacts
<1>4. IsFrame(f)
  BY <1>2, <1>3 DEF IsFrame
<1>5. Asked(fs) = [fs EXCEPT ![Len(fs)] = f]
  BY <1>1, <1>2 DEF Asked
<1>6. Replaced(fs, [fs EXCEPT ![Len(fs)] = f], f)
  BY <1>4, Replacing
<1> QED  BY <1>2, <1>5, <1>6

LEMMA MarkingNone ==
  ASSUME NEW fs, pump.depth = Len(fs), fs = <<>>
  PROVE  Asked(fs) = fs
BY DEF Asked

-----------------------------------------------------------------------------
(* Steps of the pump thread that replace the innermost frame. *)
LEMMA GotoStep ==
  ASSUME ManagerInv, frames # <<>>, NEW f, IsFrame(f), Goto(f),
         f.asked = Top.asked, f.todo # <<>> => InTask(f),
         pump' \in Pumps, pump'.depth = pump.depth, pump'.quit = pump.quit
  PROVE  Framed(frames)' /\ Nesting' /\ frames' # <<>> /\ Top' = f
<1>1. Framed(frames) /\ Nesting /\ pump \in Pumps
  BY DEF ManagerInv, Types
<1>2. Replaced(frames, frames', f)
  BY <1>1, Replacing DEF Goto
<1>3. Len(frames) \in Nat /\ Len(frames) \in 1..Len(frames)
  BY <1>1, FramedFacts
<1>4. Framed(frames') /\ Len(frames') = Len(frames) /\ frames' # <<>> /\ frames'[Len(frames)] = f
  BY <1>2 DEF Replaced
<1>5. \A i \in 1..Len(frames) : i # Len(frames) => frames'[i] = frames[i]
  BY <1>2 DEF Replaced
<1>6. pump'.quit > 0 => frames'[pump'.quit].asked = TRUE
  BY <1>1, <1>3, <1>4, <1>5 DEF Nesting, Top, Pumps
<1>7. Nesting'
  BY <1>1, <1>3, <1>4, <1>5, <1>6 DEF Nesting
<1> QED  BY <1>4, <1>7 DEF Top

LEMMA PopNesting ==
  ASSUME ManagerInv, frames # <<>>, frames' = SubSeq(frames, 1, Len(frames) - 1),
         pump' = [pump EXCEPT !.depth = @ - 1, !.quit = QuitDepthAfterExit]
  PROVE  Framed(frames)' /\ Nesting' /\ pump' \in Pumps /\ (frames' # <<>> => InTask(Top'))
<1>1. Framed(frames) /\ Nesting /\ pump \in Pumps
  BY DEF ManagerInv, Types
<1>2. Framed(frames') /\ Len(frames') = Len(frames) - 1 /\ \A i \in 1..Len(frames') : frames'[i] = frames[i]
  BY <1>1, Popping
<1>3. Len(frames) \in Nat /\ Len(frames) \in 1..Len(frames)
  BY <1>1, FramedFacts
<1>4. QuitDepthAfterExit \in Nat /\ pump.depth = Len(frames) /\ pump.depth - 1 \in Nat
  BY <1>1, <1>3 DEF Pumps, Nesting, QuitDepthAfterExit
<1>5. pump' \in Pumps /\ pump'.depth = Len(frames')
  BY <1>4, <1>1, <1>2 DEF Pumps
<1>6. pump'.quit <= Len(frames') /\ (pump'.quit > 0 => pump'.quit = pump.quit)
  BY <1>1, <1>2, <1>3 DEF Pumps, Nesting, QuitDepthAfterExit
<1>7. pump'.quit > 0 => frames'[pump'.quit].asked = TRUE
  BY <1>1, <1>2, <1>5, <1>6 DEF Nesting, Pumps
<1>8. \A i \in 1..Len(frames') : i \in 1..Len(frames) /\ i < Len(frames)
  BY <1>2, <1>3
<1>9. Nesting'
  BY <1>1, <1>2, <1>5, <1>6, <1>7, <1>8 DEF Nesting
<1>10. frames' # <<>> => Len(frames') \in 1..Len(frames')
  BY <1>2, FramedFacts
<1>11. frames' # <<>> => InTask(Top')
  BY <1>1, <1>2, <1>8, <1>10 DEF Nesting, Top, InTask
<1> QED  BY <1>2, <1>5, <1>9, <1>11

(* A nested Run: the frame below has run a task. *)
LEMMA PushNesting ==
  ASSUME ManagerInv, NEW fs, Framed(fs), Len(fs) = Len(frames),
         \A i \in 1..Len(fs) : fs[i].asked = frames[i].asked /\ InTask(fs[i]),
         EnterRunLoop(fs)
  PROVE  Framed(frames)' /\ Nesting' /\ pump' \in Pumps /\ frames' # <<>> /\ Top' = NewFrame
<1>1. Framed(frames) /\ Nesting /\ pump \in Pumps
  BY DEF ManagerInv, Types
<1>2. IsFrame(NewFrame)
  BY DEF IsFrame, NewFrame
<1>3. Pushed(fs, frames', NewFrame)
  BY <1>2, Pushing DEF EnterRunLoop
<1>4. Len(fs) \in Nat
  BY FramedFacts
<1>5. /\ Framed(frames') /\ Len(frames') = Len(fs) + 1 /\ frames' # <<>> /\ frames'[Len(frames')] = NewFrame
      /\ \A i \in 1..Len(fs) : frames'[i] = fs[i]
  BY <1>3 DEF Pushed
<1>6. pump' \in Pumps /\ pump'.depth = Len(frames') /\ pump'.quit = pump.quit
  BY <1>1, <1>4, <1>5 DEF Pumps, Nesting, EnterRunLoop
<1>7. pump'.quit <= Len(frames') /\ (pump'.quit > 0 => frames'[pump'.quit].asked = TRUE)
  BY <1>1, <1>4, <1>5, <1>6 DEF Nesting, Pumps
<1>8. frames'[Len(frames')].todo = <<>>
  BY <1>5 DEF NewFrame
<1>9. \A i \in 1..Len(frames') : i = Len(frames') \/ i \in 1..Len(fs)
  BY <1>4, <1>5
<1>10. Nesting'
  BY <1>4, <1>5, <1>6, <1>7, <1>8, <1>9 DEF Nesting
<1> QED  BY <1>5, <1>6, <1>10 DEF Top

(* RequestQuitInnermostRun: what it does to frames |fs| that differ from the   *)
(* present ones in the innermost at most.                                      *)
LEMMA QuitNesting ==
  ASSUME ManagerInv, NEW fs, Framed(fs), Len(fs) = Len(frames), (fs = <<>>) <=> (frames = <<>>),
         \A i \in 1..Len(fs) : i # Len(fs) => fs[i] = frames[i],
         fs # <<>> /\ fs[Len(fs)].todo # <<>> => InTask(fs[Len(fs)]),
         frames' = Asked(fs),
         pump' = QuitRequested \/ pump' = [QuitRequested EXCEPT !.signalled = TRUE]
  PROVE  /\ Framed(frames)' /\ Nesting' /\ pump' \in Pumps
         /\ (fs = <<>>) <=> (frames' = <<>>)
         /\ fs # <<>> => Top' = [fs[Len(fs)] EXCEPT !.asked = TRUE]
<1>1. Framed(frames) /\ Nesting /\ pump \in Pumps
  BY DEF ManagerInv, Types
<1>2. pump' \in Pumps /\ pump'.depth = pump.depth /\ pump'.quit = IF pump.depth > 0 THEN pump.depth ELSE pump.quit
  BY <1>1 DEF Pumps, QuitRequested
<1>3. CASE fs = <<>>
  <2>1. frames' = frames
    BY <1>1, <1>3, MarkingNone DEF Nesting
  <2>2. Nesting'
    BY <1>1, <1>2, <1>3, <2>1 DEF Nesting
  <2> QED  BY <1>1, <1>2, <1>3, <2>1, <2>2
<1>4. CASE fs # <<>>
  <2>1. PICK f : f = [fs[Len(fs)] EXCEPT !.asked = TRUE]
    OBVIOUS
  <2>2. Replaced(fs, frames', f)
    BY <1>1, <1>4, <2>1, Marking DEF Nesting
  <2>3. Len(fs) \in Nat /\ Len(fs) \in 1..Len(fs) /\ IsFrame(fs[Len(fs)])
    BY <1>4, FramedFacts
  <2>4. f.asked = TRUE /\ f.todo = fs[Len(fs)].todo /\ (InTask(fs[Len(fs)]) => InTask(f))
    BY <2>1, <2>3 DEF IsFrame, InTask
  <2>5. /\ Framed(frames') /\ Len(frames') = Len(fs) /\ frames' # <<>> /\ frames'[Len(fs)] = f
        /\ \A i \in 1..Len(fs) : i # Len(fs) => frames'[i] = frames[i]
    BY <2>2 DEF Replaced
  <2>6. pump'.quit = Len(frames') /\ pump'.depth = Len(frames')
    BY <1>1, <1>2, <2>3, <2>5 DEF Nesting
  <2>7. Nesting'
    BY <1>1, <1>4, <2>3, <2>4, <2>5, <2>6 DEF Nesting
  <2> QED  BY <1>2, <1>4, <2>1, <2>5, <2>7 DEF Top
<1> QED  BY <1>3, <1>4

LEMMA KeptNesting ==
  ASSUME ManagerInv, UNCHANGED frames, pump'.depth = pump.depth, pump'.quit = pump.quit,
         clock' = clock \/ clock' = clock + 1
  PROVE  Framed(frames)' /\ Nesting' /\ Top' = Top /\ Clocked' /\ clock' \in Nat
<1>1. Framed(frames) /\ Nesting /\ clock \in Nat /\ Clocked
  BY DEF ManagerInv, Types
<1>2. Top' = Top
  BY DEF Top
<1>3. Framed(frames)' /\ Nesting'
  BY <1>1 DEF Nesting
<1> HIDE DEF Top
<1>4. Clocked'
  BY <1>1, <1>2 DEF Clocked
<1> QED  BY <1>1, <1>2, <1>3, <1>4
-----------------------------------------------------------------------------
(* At the top of its loop and inside a task the pump relies on nothing. *)
LEMMA QuietTop ==
  ASSUME frames' = <<>> \/ Top'.pc = "top" \/ InTask(Top')
  PROVE  PendingSeen' /\ DueSeen' /\ Clocked'
BY DEF PendingSeen, DueSeen, DueSeenFor, InTask, Fresh, Clocked

LEMMA TopFrame ==
  ASSUME ManagerInv, frames # <<>>
  PROVE  IsFrame(Top) /\ (Top.todo # <<>> => InTask(Top))
<1>1. Framed(frames) /\ Nesting
  BY DEF ManagerInv, Types
<1>2. Len(frames) \in 1..Len(frames) /\ IsFrame(frames[Len(frames)])
  BY <1>1, FramedFacts
<1> QED  BY <1>1, <1>2 DEF Nesting, Top

LEMMA AtTopFrame ==
  /\ IsFrame(AtTop) /\ AtTop.asked = Top.asked /\ AtTop.todo = <<>> /\ AtTop.pc = "top" /\ AtTop.ran = FALSE
  /\ \A x, f : f = [AtTop EXCEPT !.pc = x] =>
       IsFrame(f) /\ f.asked = Top.asked /\ f.todo = <<>> /\ f.pc = x /\ f.until = 0
<1>1. PICK n : n = NewFrame
  OBVIOUS
<1>2. IsFrame(n) /\ n.todo = <<>> /\ n.pc = "top" /\ n.ran = FALSE /\ n.until = 0
  BY <1>1 DEF IsFrame, NewFrame
<1>3. PICK t : t = AtTop
  OBVIOUS
<1>4. t = [n EXCEPT !.asked = Top.asked]
  BY <1>1, <1>3 DEF AtTop
<1>5. IsFrame(t) /\ t.asked = Top.asked /\ t.todo = <<>> /\ t.pc = "top" /\ t.ran = FALSE /\ t.until = 0
  BY <1>2, <1>4 DEF IsFrame
<1>6. ASSUME NEW x, NEW f, f = [t EXCEPT !.pc = x]
      PROVE  IsFrame(f) /\ f.asked = Top.asked /\ f.todo = <<>> /\ f.pc = x /\ f.until = 0
  BY <1>5, <1>6 DEF IsFrame
<1> QED  BY <1>3, <1>5, <1>6

-----------------------------------------------------------------------------
(* One lemma per operation of the pump thread. *)

LEMMA ExitKeeps ==
  ASSUME ManagerInv, ExitRunLoop
  PROVE  ManagerInv'
<1>1. Framed(frames)' /\ Nesting' /\ pump' \in Pumps /\ (frames' # <<>> => InTask(Top'))
  BY PopNesting DEF ExitRunLoop
<1>2. PendingSeen' /\ DueSeen' /\ Clocked'
  BY <1>1, QuietTop
<1>3. Types' /\ Unused'
  BY <1>1 DEF ManagerInv, Types, Unused, ExitRunLoop
<1> QED  BY <1>1, <1>2, <1>3 DEF ManagerInv

LEMMA BeginWorkKeeps ==
  ASSUME ManagerInv, BeginWork
  PROVE  ManagerInv'
<1>1. frames # <<>> /\ Top.pc = "top" /\ pending' = FALSE /\ pump' = pump
  BY DEF BeginWork
<1>2. PICK x, y : Goto([Top EXCEPT !.pc = x, !.count = 0, !.ran = FALSE, !.fast = y]) /\ x \in {"fast", "general"}
  BY DEF BeginWork
<1>3. PICK f : f = [Top EXCEPT !.pc = x, !.count = 0, !.ran = FALSE, !.fast = y]
  OBVIOUS
<1>4. IsFrame(Top) /\ Top.todo = <<>>
  BY <1>1, TopFrame DEF InTask
<1>5. IsFrame(f) /\ f.asked = Top.asked /\ f.todo = <<>> /\ f.pc = x
  BY <1>3, <1>4 DEF IsFrame
<1>6. pump' \in Pumps
  BY <1>1 DEF ManagerInv, Types
<1>7. Framed(frames)' /\ Nesting' /\ frames' # <<>> /\ Top' = f
  BY <1>1, <1>2, <1>3, <1>5, <1>6, GotoStep
<1>8. PendingSeen' /\ DueSeen' /\ Clocked'
  BY <1>1, <1>2, <1>5, <1>7 DEF PendingSeen, DueSeen, DueSeenFor, Clocked
<1>9. Types' /\ Unused'
  BY <1>1, <1>6, <1>7 DEF ManagerInv, Types, Unused, BeginWork
<1> QED  BY <1>7, <1>8, <1>9 DEF ManagerInv

(* The pump goes on with its batch, or from a look that found nothing to the   *)
(* next one, or back to the top.                                               *)
LEMMA WorkKeeps ==
  ASSUME ManagerInv, frames # <<>>, Top.pc \in {"fast", "general"}, NEW f, Goto(f), IsFrame(f), f.asked = Top.asked,
         \/ f.pc = "top" /\ f.todo = <<>>
         \/ InTask(f)
         \/ f.pc \in {"general", "delayed"} /\ f.todo = <<>> /\ Top.ran = FALSE,
         UNCHANGED <<clock, queues, shut, delayed, pending, pump, poster>>
  PROVE  ManagerInv'
<1>1. pump' \in Pumps
  BY DEF ManagerInv, Types
<1>2. Framed(frames)' /\ Nesting' /\ frames' # <<>> /\ Top' = f
  BY <1>1, GotoStep
<1>3. Types' /\ Unused'
  BY <1>1, <1>2 DEF ManagerInv, Types, Unused
<1>4. CASE f.pc = "top" \/ InTask(f)
  BY <1>2, <1>3, <1>4, QuietTop DEF ManagerInv
<1>5. CASE f.pc \in {"general", "delayed"} /\ f.todo = <<>> /\ Top.ran = FALSE
  <2>1. Fresh(Top)
    BY <1>5 DEF Fresh
  <2>2. PendingSeen'
    BY <1>2, <1>5, <2>1 DEF ManagerInv, PendingSeen, Scheduling
  <2>3. DueSeen' /\ Clocked'
    BY <1>2, <1>5 DEF DueSeen, DueSeenFor, Clocked
  <2> QED  BY <1>2, <1>3, <2>2, <2>3 DEF ManagerInv
<1> QED  BY <1>4, <1>5

LEMMA TakeBatchKeeps ==
  ASSUME ManagerInv, TakeBatch
  PROVE  ManagerInv'
<1>1. /\ frames # <<>> /\ Top.pc = "fast" /\ Top.todo = <<>>
      /\ UNCHANGED <<clock, queues, shut, delayed, pending, pump, poster>>
  BY DEF TakeBatch
<1>2. IsFrame(Top)
  BY <1>1, TopFrame
<1>3. PICK f : /\ Goto(f)
               /\ \/ \E t, c : f = [Top EXCEPT !.todo = t, !.count = c, !.ran = TRUE]
                  \/ f = AtTop
                  \/ Top.ran = FALSE /\ f = [Top EXCEPT !.pc = "general", !.count = 0, !.fast = <<>>]
  <2>1. \/ \E t, c : Goto([Top EXCEPT !.todo = t, !.count = c, !.ran = TRUE])
        \/ Goto(IF Top.ran THEN AtTop ELSE [Top EXCEPT !.pc = "general", !.count = 0, !.fast = <<>>])
    BY DEF TakeBatch
  <2>2. Top.ran = TRUE \/ Top.ran = FALSE
    BY <1>2 DEF IsFrame
  <2> QED  BY <2>1, <2>2
<1>4. CASE \E t, c : f = [Top EXCEPT !.todo = t, !.count = c, !.ran = TRUE]
  <2>1. PICK t, c : f = [Top EXCEPT !.todo = t, !.count = c, !.ran = TRUE]
    BY <1>4
  <2>2. IsFrame(f) /\ f.asked = Top.asked /\ InTask(f)
    BY <1>1, <1>2, <2>1 DEF IsFrame, InTask
  <2> QED  BY <1>1, <1>3, <2>2, WorkKeeps
<1>5. CASE f = AtTop
  BY <1>1, <1>3, <1>5, AtTopFrame, WorkKeeps
<1>6. CASE Top.ran = FALSE /\ f = [Top EXCEPT !.pc = "general", !.count = 0, !.fast = <<>>]
  <2>1. IsFrame(f) /\ f.asked = Top.asked /\ f.pc = "general" /\ f.todo = <<>>
    BY <1>1, <1>2, <1>6 DEF IsFrame
  <2> QED  BY <1>1, <1>3, <1>6, <2>1, WorkKeeps
<1> QED  BY <1>3, <1>4, <1>5, <1>6

LEMMA SelectTaskKeeps ==
  ASSUME ManagerInv, SelectTask
  PROVE  ManagerInv'
<1>1. /\ frames # <<>> /\ Top.pc = "general" /\ Top.todo = <<>>
      /\ UNCHANGED <<clock, queues, shut, delayed, pending, pump, poster>>
  BY DEF SelectTask
<1>2. IsFrame(Top)
  BY <1>1, TopFrame
<1>3. PICK f : /\ Goto(f)
               /\ \/ \E t, c : f = [Top EXCEPT !.todo = t, !.count = c, !.ran = TRUE]
                  \/ f = AtTop
                  \/ Top.ran = FALSE /\ f = [AtTop EXCEPT !.pc = "delayed"]
                  \/ \E c : f = [Top EXCEPT !.count = c]
  <2>1. \/ \E t, c : Goto([Top EXCEPT !.todo = t, !.count = c, !.ran = TRUE])
        \/ Goto(IF Top.ran THEN AtTop ELSE [AtTop EXCEPT !.pc = "delayed"])
        \/ \E c : Goto([Top EXCEPT !.count = c])
    BY DEF SelectTask
  <2>2. Top.ran = TRUE \/ Top.ran = FALSE
    BY <1>2 DEF IsFrame
  <2> QED  BY <2>1, <2>2
<1>4. CASE \E t, c : f = [Top EXCEPT !.todo = t, !.count = c, !.ran = TRUE]
  <2>1. PICK t, c : f = [Top EXCEPT !.todo = t, !.count = c, !.ran = TRUE]
    BY <1>4
  <2>2. IsFrame(f) /\ f.asked = Top.asked /\ InTask(f)
    BY <1>1, <1>2, <2>1 DEF IsFrame, InTask
  <2> QED  BY <1>1, <1>3, <2>2, WorkKeeps
<1>5. CASE f = AtTop
  BY <1>1, <1>3, <1>5, AtTopFrame, WorkKeeps
<1>6. CASE Top.ran = FALSE /\ f = [AtTop EXCEPT !.pc = "delayed"]
  <2>1. IsFrame(f) /\ f.asked = Top.asked /\ f.pc = "delayed" /\ f.todo = <<>>
    BY <1>6, AtTopFrame
  <2> QED  BY <1>1, <1>3, <1>6, <2>1, WorkKeeps
<1>7. CASE \E c : f = [Top EXCEPT !.count = c]
  <2>1. PICK c : f = [Top EXCEPT !.count = c]
    BY <1>7
  <2>2. IsFrame(f) /\ f.asked = Top.asked /\ f.pc = "general" /\ f.todo = <<>> /\ f.ran = Top.ran /\ Top.ran \in BOOLEAN
    BY <1>1, <1>2, <2>1 DEF IsFrame
  <2>3. InTask(f) \/ Top.ran = FALSE
    BY <2>2 DEF InTask
  <2> QED  BY <1>1, <1>3, <2>2, <2>3, WorkKeeps
<1> QED  BY <1>3, <1>4, <1>5, <1>6, <1>7
LEMMA RunTaskKeeps ==
  ASSUME ManagerInv, RunTask
  PROVE  ManagerInv'
<1>1. /\ frames # <<>> /\ Top.pc \in {"fast", "general"} /\ Top.todo # <<>>
      /\ UNCHANGED <<clock, queues, shut, delayed, pending, poster>>
  BY DEF RunTask
<1>2. IsFrame(Top) /\ InTask(Top)
  BY <1>1, TopFrame
<1>3. PICK f : f = [Top EXCEPT !.todo = Tail(Top.todo)]
  OBVIOUS
<1>4. IsFrame(f) /\ f.asked = Top.asked /\ InTask(f)
  BY <1>2, <1>3 DEF IsFrame, InTask
<1>5. Framed(frames) /\ Nesting /\ pump \in Pumps
  BY DEF ManagerInv, Types
<1>6. Len(frames) \in Nat /\ Len(frames) \in 1..Len(frames) /\ DOMAIN frames = 1..Len(frames)
  BY <1>1, <1>5, FramedFacts
<1>7. PICK fs : fs = [frames EXCEPT ![Len(frames)] = f]
  OBVIOUS
<1>8. fs = [frames EXCEPT ![Len(frames)].todo = Tail(@)]
  BY <1>3, <1>6, <1>7 DEF Top
<1>9. Replaced(frames, fs, f)
  BY <1>1, <1>4, <1>5, <1>7, Replacing
<1>10. /\ Framed(fs) /\ Len(fs) = Len(frames) /\ fs # <<>> /\ fs[Len(fs)] = f
       /\ \A i \in 1..Len(fs) : i # Len(fs) => fs[i] = frames[i]
  BY <1>9 DEF Replaced
<1>11. CASE frames' = fs /\ UNCHANGED pump
  <2>1. Goto(f)
    BY <1>7, <1>11 DEF Goto
  <2> QED  BY <1>1, <1>4, <1>11, <2>1, WorkKeeps
<1>12. CASE pump' = [QuitRequested EXCEPT !.signalled = TRUE] /\ frames' = Asked(fs)
  <2>1. /\ Framed(frames)' /\ Nesting' /\ pump' \in Pumps /\ frames' # <<>>
        /\ Top' = [f EXCEPT !.asked = TRUE]
    BY <1>1, <1>4, <1>10, <1>12, QuitNesting
  <2>2. InTask(Top')
    BY <1>4, <2>1 DEF IsFrame, InTask
  <2>3. Types' /\ Unused'
    BY <1>1, <2>1 DEF ManagerInv, Types, Unused
  <2> QED  BY <2>1, <2>2, <2>3, QuietTop DEF ManagerInv
<1>13. CASE EnterRunLoop(fs)
  <2>1. ASSUME NEW i \in 1..Len(fs)  PROVE fs[i].asked = frames[i].asked /\ InTask(fs[i])
    <3>1. CASE i = Len(fs)
      BY <3>1, <1>4, <1>10 DEF Top
    <3>2. CASE i # Len(fs)
      <4>1. fs[i] = frames[i] /\ Len(fs) = Len(frames)
        BY <3>2, <1>10
      <4>2. i \in 1..Len(frames) /\ i < Len(frames)
        BY <3>2, <4>1, <1>6
      <4> QED  BY <4>1, <4>2, <1>5 DEF Nesting
    <3> QED  BY <3>1, <3>2
  <2>2. Framed(frames)' /\ Nesting' /\ pump' \in Pumps /\ Top' = NewFrame
    BY <1>10, <1>13, <2>1, PushNesting
  <2>3. Top'.pc = "top"
    BY <2>2 DEF NewFrame
  <2>4. Types' /\ Unused'
    BY <1>1, <2>2 DEF ManagerInv, Types, Unused
  <2> QED  BY <2>2, <2>3, <2>4, QuietTop DEF ManagerInv
<1> QED  BY <1>8, <1>11, <1>12, <1>13 DEF RunTask

LEMMA DoDelayedWorkKeeps ==
  ASSUME ManagerInv, DoDelayedWork
  PROVE  ManagerInv'
<1> DEFINE ready == {q \in queues : DueBy(q, clock) # {}}
           next  == UNION {delayed[q] \ DueBy(q, clock) : q \in queues}
<1>1. /\ frames # <<>> /\ Top.pc = "delayed"
      /\ delayed' = [q \in Queues |-> IF q \in ready THEN delayed[q] \ DueBy(q, clock) ELSE delayed[q]]
      /\ pump' = [pump EXCEPT !.deadline = Earlier(@, next)]
      /\ Goto(IF ready # {} THEN AtTop ELSE [AtTop EXCEPT !.pc = "idle", !.now = clock])
      /\ UNCHANGED <<clock, queues, shut, pending, poster>>
  BY DEF DoDelayedWork
<1>2. pump \in Pumps /\ delayed \in [Queues -> SUBSET RunTimes] /\ queues \subseteq Queues /\ clock \in Nat
  BY DEF ManagerInv, Types
<1>3. next \in SUBSET RunTimes
  BY <1>2
<1>4. ready = {} => \A q \in queues : delayed'[q] = delayed[q] /\ \A d \in delayed[q] : d \in next
  <2>1. ready = {} => \A q \in queues : DueBy(q, clock) = {}
    OBVIOUS
  <2> QED  BY <1>1, <1>2, <2>1
<1>5. delayed' \in [Queues -> SUBSET RunTimes] /\ \A q \in Queues : delayed'[q] \subseteq delayed[q]
  BY <1>1, <1>2
<1> HIDE DEF ready, next
<1>6. /\ Earlier(pump.deadline, next) \in Nat
      /\ \A d \in RunTimes : d \in next => Covers(Earlier(pump.deadline, next), d)
  BY <1>2, <1>3, EarlierIs DEF Pumps
<1>7. /\ pump' \in Pumps /\ pump'.depth = pump.depth /\ pump'.quit = pump.quit /\ pump'.scheduled = pump.scheduled
      /\ pump'.deadline = Earlier(pump.deadline, next)
  BY <1>1, <1>2, <1>6 DEF Pumps
<1>8. Unused'
  BY <1>1, <1>5 DEF ManagerInv, Unused
<1>9. CASE ready # {}
  <2>1. Framed(frames)' /\ Nesting' /\ frames' # <<>> /\ Top' = AtTop
    BY <1>1, <1>7, <1>9, AtTopFrame, GotoStep
  <2>2. PendingSeen' /\ DueSeen' /\ Clocked'
    BY <2>1, AtTopFrame, QuietTop
  <2>3. Types'
    BY <1>1, <1>5, <1>7, <2>1 DEF ManagerInv, Types
  <2> QED  BY <1>8, <2>1, <2>2, <2>3 DEF ManagerInv
<1>10. CASE ready = {}
  <2>1. PICK t, f : t = AtTop /\ f = [t EXCEPT !.pc = "idle", !.now = clock]
    OBVIOUS
  <2>2. IsFrame(t) /\ t.asked = Top.asked /\ t.todo = <<>>
    BY <2>1, AtTopFrame
  <2>3. IsFrame(f) /\ f.asked = Top.asked /\ f.todo = <<>> /\ f.pc = "idle" /\ f.now = clock
    BY <2>1, <2>2 DEF IsFrame
  <2>4. Goto(f)
    BY <1>1, <1>10, <2>1
  <2>5. Framed(frames)' /\ Nesting' /\ frames' # <<>> /\ Top' = f
    BY <1>1, <1>7, <2>3, <2>4, GotoStep
  <2>6. Types'
    BY <1>1, <1>5, <1>7, <2>5 DEF ManagerInv, Types
  <2>7. PendingSeen'
    BY <1>1, <1>7, <2>3, <2>5 DEF ManagerInv, PendingSeen, Scheduling, Fresh
  <2>8. ASSUME NEW q \in queues', NEW d \in delayed'[q]  PROVE Covers(pump'.deadline, d)
    BY <1>1, <1>2, <1>4, <1>6, <1>7, <1>10
  <2>9. DueSeen'
    BY <2>3, <2>5, <2>8 DEF DueSeen, DueSeenFor
  <2>10. Clocked'
    BY <1>1, <1>2, <2>3, <2>5 DEF Clocked
  <2> QED  BY <1>8, <2>5, <2>6, <2>7, <2>9, <2>10 DEF ManagerInv
<1> QED  BY <1>9, <1>10
(* The steps from the idle work to the wait.  The time of the wait is read     *)
(* from the pump's deadline.                                                   *)
LEMMA ConsumeKeeps ==
  ASSUME ManagerInv, ConsumeWorkScheduled
  PROVE  ManagerInv'
<1>1. /\ frames # <<>> /\ Top.pc = "idle"
      /\ pump' = [pump EXCEPT !.scheduled = FALSE]
      /\ Goto(IF pump.scheduled THEN AtTop ELSE [Top EXCEPT !.pc = "deadline"])
      /\ UNCHANGED <<clock, queues, shut, delayed, pending, poster>>
  BY DEF ConsumeWorkScheduled
<1>2. pump \in Pumps /\ PendingSeen /\ DueSeen
  BY DEF ManagerInv, Types
<1>3. /\ pump' \in Pumps /\ pump'.depth = pump.depth /\ pump'.quit = pump.quit /\ pump'.deadline = pump.deadline
      /\ pump.scheduled \in BOOLEAN
  BY <1>1, <1>2 DEF Pumps
<1>4. Unused'
  BY <1>1 DEF ManagerInv, Unused
<1>5. IsFrame(Top) /\ Top.todo = <<>>
  BY <1>1, TopFrame DEF InTask
<1>6. CASE pump.scheduled = TRUE
  <2>1. Framed(frames)' /\ Nesting' /\ frames' # <<>> /\ Top' = AtTop
    BY <1>1, <1>3, <1>6, AtTopFrame, GotoStep
  <2>2. Types'
    BY <1>1, <1>3, <2>1 DEF ManagerInv, Types
  <2> QED  BY <1>4, <2>1, <2>2, AtTopFrame, QuietTop DEF ManagerInv
<1>7. CASE pump.scheduled = FALSE
  <2>1. PICK f : f = [Top EXCEPT !.pc = "deadline"]
    OBVIOUS
  <2>2. IsFrame(f) /\ f.asked = Top.asked /\ f.todo = <<>> /\ f.pc = "deadline" /\ f.now = Top.now
    BY <1>5, <2>1 DEF IsFrame
  <2>3. Framed(frames)' /\ Nesting' /\ frames' # <<>> /\ Top' = f
    BY <1>1, <1>3, <1>7, <2>1, <2>2, GotoStep
  <2>4. Types'
    BY <1>1, <1>3, <2>3 DEF ManagerInv, Types
  <2>5. PendingSeen'
    BY <1>1, <1>2, <1>7, <2>2, <2>3 DEF PendingSeen, Scheduling, Fresh
  <2>6. DueSeen'
    BY <1>1, <1>2, <1>3, <2>2, <2>3 DEF DueSeen, DueSeenFor, SchedulingFor, Posting
  <2>7. Clocked'
    BY <1>1, <2>2, <2>3 DEF ManagerInv, Clocked
  <2> QED  BY <1>4, <2>3, <2>4, <2>5, <2>6, <2>7 DEF ManagerInv
<1> QED  BY <1>3, <1>6, <1>7

LEMMA GetDelayedRunTimeKeeps ==
  ASSUME ManagerInv, GetDelayedRunTime
  PROVE  ManagerInv'
<1> DEFINE expired == pump.deadline # 0 /\ pump.deadline <= Top.now
<1>1. /\ frames # <<>> /\ Top.pc = "deadline"
      /\ pump' = IF expired THEN [pump EXCEPT !.deadline = 0] ELSE pump
      /\ Goto(IF expired THEN AtTop ELSE [Top EXCEPT !.pc = "reset", !.until = pump.deadline])
      /\ UNCHANGED <<clock, queues, shut, delayed, pending, poster>>
  BY DEF GetDelayedRunTime
<1> HIDE DEF expired
<1>2. pump \in Pumps /\ PendingSeen /\ DueSeen
  BY DEF ManagerInv, Types
<1>3. /\ pump' \in Pumps /\ pump'.depth = pump.depth /\ pump'.quit = pump.quit
  BY <1>1, <1>2 DEF Pumps
<1>4. Unused'
  BY <1>1 DEF ManagerInv, Unused
<1>5. CASE expired
  <2>1. Framed(frames)' /\ Nesting' /\ frames' # <<>> /\ Top' = AtTop
    BY <1>1, <1>3, <1>5, AtTopFrame, GotoStep
  <2>2. Types'
    BY <1>1, <1>3, <2>1 DEF ManagerInv, Types
  <2> QED  BY <1>4, <2>1, <2>2, AtTopFrame, QuietTop DEF ManagerInv
<1>6. CASE ~expired
  <2>1. PICK f : f = [Top EXCEPT !.pc = "reset", !.until = pump.deadline]
    OBVIOUS
  <2>2. IsFrame(Top) /\ Top.todo = <<>>
    BY <1>1, TopFrame DEF InTask
  <2>3. /\ IsFrame(f) /\ f.asked = Top.asked /\ f.todo = <<>> /\ f.pc = "reset" /\ f.until = pump.deadline
        /\ f.now = Top.now
    BY <2>1, <2>2 DEF IsFrame
  <2>4. Goto(f) /\ pump' = pump
    BY <1>1, <1>6, <2>1
  <2>5. Framed(frames)' /\ Nesting' /\ frames' # <<>> /\ Top' = f
    BY <1>1, <1>3, <2>3, <2>4, GotoStep
  <2>6. Types'
    BY <1>1, <1>3, <2>5 DEF ManagerInv, Types
  <2>7. PendingSeen'
    BY <1>1, <1>2, <2>3, <2>4, <2>5 DEF PendingSeen, Scheduling, Fresh
  <2>8. DueSeen'
    BY <1>1, <1>2, <2>3, <2>4, <2>5 DEF DueSeen, DueSeenFor, SchedulingFor, Scheduling, Posting
  <2>9. Top.now \in Nat /\ Top.now <= clock /\ pump.deadline \in Nat
    BY <1>1, <1>2 DEF ManagerInv, Clocked, Pumps
  <2>10. pump.deadline = 0 \/ Top.now < pump.deadline
    BY <1>6, <2>9 DEF expired
  <2>11. Clocked'
    BY <1>1, <2>3, <2>5, <2>9, <2>10 DEF Clocked
  <2> QED  BY <1>4, <2>5, <2>6, <2>7, <2>8, <2>11 DEF ManagerInv
<1> QED  BY <1>5, <1>6

LEMMA ResetKeeps ==
  ASSUME ManagerInv, ResetWakeUpEvent
  PROVE  ManagerInv'
<1>1. /\ frames # <<>> /\ Top.pc = "reset"
      /\ pump' = [pump EXCEPT !.signalled = FALSE]
      /\ Goto([Top EXCEPT !.pc = "recheck"])
      /\ UNCHANGED <<clock, queues, shut, delayed, pending, poster>>
  BY DEF ResetWakeUpEvent
<1>2. pump \in Pumps /\ PendingSeen /\ DueSeen
  BY DEF ManagerInv, Types
<1>3. pump' \in Pumps /\ pump'.depth = pump.depth /\ pump'.quit = pump.quit /\ pump'.scheduled = pump.scheduled
  BY <1>1, <1>2 DEF Pumps
<1>4. Unused'
  BY <1>1 DEF ManagerInv, Unused
<1>5. IsFrame(Top) /\ Top.todo = <<>>
  BY <1>1, TopFrame DEF InTask
<1>6. PICK f : f = [Top EXCEPT !.pc = "recheck"]
  OBVIOUS
<1>7. IsFrame(f) /\ f.asked = Top.asked /\ f.todo = <<>> /\ f.pc = "recheck" /\ f.until = Top.until /\ f.now = Top.now
  BY <1>5, <1>6 DEF IsFrame
<1>8. Framed(frames)' /\ Nesting' /\ frames' # <<>> /\ Top' = f
  BY <1>1, <1>3, <1>6, <1>7, GotoStep
<1>9. Types'
  BY <1>1, <1>3, <1>8 DEF ManagerInv, Types
<1>10. PendingSeen'
  BY <1>1, <1>2, <1>3, <1>7, <1>8 DEF PendingSeen, Scheduling, Fresh
<1>11. DueSeen'
  BY <1>1, <1>2, <1>3, <1>7, <1>8 DEF DueSeen, DueSeenFor, Scheduling, Posting
<1>12. Clocked'
  BY <1>1, <1>7, <1>8 DEF ManagerInv, Clocked
<1> QED  BY <1>4, <1>8, <1>9, <1>10, <1>11, <1>12 DEF ManagerInv

LEMMA RecheckKeeps ==
  ASSUME ManagerInv, Recheck
  PROVE  ManagerInv'
<1>1. /\ frames # <<>> /\ Top.pc = "recheck"
      /\ pump' = [pump EXCEPT !.scheduled = FALSE]
      /\ Goto(IF pump.scheduled THEN AtTop ELSE Waiting)
      /\ UNCHANGED <<clock, queues, shut, delayed, pending, poster>>
  BY DEF Recheck
<1>2. pump \in Pumps /\ PendingSeen /\ DueSeen
  BY DEF ManagerInv, Types
<1>3. pump' \in Pumps /\ pump'.depth = pump.depth /\ pump'.quit = pump.quit /\ pump.scheduled \in BOOLEAN
  BY <1>1, <1>2 DEF Pumps
<1>4. Unused'
  BY <1>1 DEF ManagerInv, Unused
<1>5. IsFrame(Top) /\ Top.todo = <<>>
  BY <1>1, TopFrame DEF InTask
<1>6. CASE pump.scheduled = TRUE
  <2>1. Framed(frames)' /\ Nesting' /\ frames' # <<>> /\ Top' = AtTop
    BY <1>1, <1>3, <1>6, AtTopFrame, GotoStep
  <2>2. Types'
    BY <1>1, <1>3, <2>1 DEF ManagerInv, Types
  <2> QED  BY <1>4, <2>1, <2>2, AtTopFrame, QuietTop DEF ManagerInv
<1>7. CASE pump.scheduled = FALSE
  <2>1. PICK f : f = Waiting
    OBVIOUS
  <2>2. /\ IsFrame(f) /\ f.asked = Top.asked /\ f.todo = <<>> /\ f.pc = "wait"
        /\ f.late = clock - Top.now
        /\ f.until = IF Top.until = 0 THEN 0 ELSE clock + (Top.until - Top.now)
    BY <1>5, <2>1 DEF IsFrame, Waiting
  <2>7. /\ clock \in Nat /\ Top.now \in Nat /\ Top.now <= clock /\ Top.until \in Nat
        /\ Top.until = 0 \/ Top.now < Top.until
    BY <1>1 DEF ManagerInv, Types, Clocked
  <2>8. f.late \in Nat /\ f.until \in Nat
    BY <2>2, <2>7
  <2>9. ASSUME NEW d \in Nat, Covers(Top.until, d)  PROVE Covers(f.until, d + f.late)
    BY <2>2, <2>7, <2>9 DEF Covers
  <2>3. Framed(frames)' /\ Nesting' /\ frames' # <<>> /\ Top' = f
    BY <1>1, <1>3, <1>7, <2>1, <2>2, GotoStep
  <2>4. Types'
    BY <1>1, <1>3, <2>3 DEF ManagerInv, Types
  <2>5. PendingSeen'
    BY <1>1, <1>2, <1>7, <2>2, <2>3 DEF PendingSeen, Scheduling, Fresh
  <2>6. DueSeen'
    <3> SUFFICES ASSUME NEW q \in queues, NEW d \in delayed[q]  PROVE DueSeenFor(q, d)'
      BY <1>1 DEF DueSeen
    <3>1. DueSeenFor(q, d) /\ d \in Nat
      BY <1>1, <1>2 DEF ManagerInv, Types, RunTimes, DueSeen
    <3>2. pending \/ Posting(q) \/ Scheduling \/ Covers(f.until, d + f.late)
      BY <1>1, <1>7, <2>9, <3>1 DEF DueSeenFor
    <3> QED  BY <1>1, <2>2, <2>3, <3>2 DEF DueSeenFor, Scheduling, Posting
  <2>10. Clocked'
    BY <2>2, <2>3, <2>8 DEF Clocked
  <2> QED  BY <1>4, <2>3, <2>4, <2>5, <2>6, <2>10 DEF ManagerInv
<1> QED  BY <1>3, <1>6, <1>7

LEMMA WakeUpKeeps ==
  ASSUME ManagerInv, WakeUp
  PROVE  ManagerInv'
<1>1. /\ frames # <<>> /\ Goto(AtTop) /\ UNCHANGED <<clock, queues, shut, delayed, pending, poster>>
      /\ pump' = pump \/ pump' = [pump EXCEPT !.deadline = 0]
  BY DEF WakeUp
<1>2. pump' \in Pumps /\ pump'.depth = pump.depth /\ pump'.quit = pump.quit
  BY <1>1 DEF ManagerInv, Types, Pumps
<1>3. Framed(frames)' /\ Nesting' /\ frames' # <<>> /\ Top' = AtTop
  BY <1>1, <1>2, AtTopFrame, GotoStep
<1>4. Types' /\ Unused'
  BY <1>1, <1>2, <1>3 DEF ManagerInv, Types, Unused
<1> QED  BY <1>3, <1>4, AtTopFrame, QuietTop DEF ManagerInv

LEMMA RunKeeps ==
  ASSUME ManagerInv, Run
  PROVE  ManagerInv'
<1>1. frames = <<>> /\ EnterRunLoop(<<>>) /\ UNCHANGED <<clock, queues, shut, delayed, pending, poster>>
  BY DEF Run
<1>2. Framed(<<>>) /\ Len(<<>>) = Len(frames) /\ 1..Len(<<>>) = {}
  BY <1>1 DEF ManagerInv, Types
<1>3. Framed(frames)' /\ Nesting' /\ pump' \in Pumps /\ Top' = NewFrame
  BY <1>1, <1>2, PushNesting
<1>4. Top'.pc = "top"
  BY <1>3 DEF NewFrame
<1>5. Types' /\ Unused'
  BY <1>1, <1>3 DEF ManagerInv, Types, Unused
<1> QED  BY <1>3, <1>4, <1>5, QuietTop DEF ManagerInv
-----------------------------------------------------------------------------
(* One lemma per operation of the other threads. *)

(* What is under way stays so when an idle thread begins a call. *)
LEMMA IdleBegins ==
  ASSUME poster \in [Posters -> Posts], NEW p \in Posters, NEW x, poster[p].pc = "idle",
         poster' = [poster EXCEPT ![p] = x]
  PROVE  /\ Scheduling => Scheduling'
         /\ \A d : SchedulingFor(d) => SchedulingFor(d)'
         /\ \A q : Posting(q) => Posting(q)'
         /\ (\E r \in Posters : poster[r].pc = "signal") => \E r \in Posters : poster'[r].pc = "signal"
         /\ poster'[p] = x
<1>1. \A r \in Posters : r # p => poster'[r] = poster[r]
  OBVIOUS
<1>2. poster'[p] = x
  OBVIOUS
<1>3. \A r \in Posters : poster[r].pc \in {"posted", "exchange", "peek", "schedule", "signal"} => poster'[r] = poster[r]
  BY <1>1
<1> QED  BY <1>2, <1>3 DEF Scheduling, SchedulingFor, Posting

(* What covers an earlier run time of a queue covers a later one. *)
LEMMA LaterIsSeen ==
  ASSUME ManagerInv, frames # <<>>, NEW q, NEW e \in Nat, NEW d \in Nat, e <= d, DueSeenFor(q, e)
  PROVE  DueSeenFor(q, d)
<1>1. pump.deadline \in Nat /\ poster \in [Posters -> Posts] /\ Clocked
  BY DEF ManagerInv, Types, Pumps
<1>2. SchedulingFor(e) => SchedulingFor(d)
  <2> SUFFICES ASSUME NEW p \in Posters, poster[p].pc = "schedule", NEW x \in poster[p].due, x <= e
               PROVE  SchedulingFor(d)
    BY DEF SchedulingFor
  <2>1. x \in Nat
    BY <1>1 DEF Posts, RunTimes
  <2>2. x <= d
    BY <2>1
  <2> QED  BY <2>2 DEF SchedulingFor
<1>3. Covers(pump.deadline, e) => Covers(pump.deadline, d)
  BY <1>1 DEF Covers
<1>4. Top.pc \in {"reset", "recheck"} /\ Covers(Top.until, e) => Covers(Top.until, d)
  BY <1>1 DEF Covers, Clocked
<1>5. Top.pc = "wait" /\ Covers(Top.until, e + Top.late) => Covers(Top.until, d + Top.late)
  BY <1>1 DEF Covers, Clocked
<1> QED  BY <1>2, <1>3, <1>4, <1>5 DEF DueSeenFor

LEMMA CreateKeeps ==
  ASSUME ManagerInv, NEW q \in Queues, CreateTaskQueueLocked(q)
  PROVE  ManagerInv'
<1>1. /\ q \notin queues /\ ~shut.done /\ queues' = queues \cup {q}
      /\ UNCHANGED <<clock, shut, delayed, pending, pump, frames, poster>>
  BY DEF CreateTaskQueueLocked
<1>2. Framed(frames)' /\ Nesting' /\ Top' = Top /\ Clocked'
  BY <1>1, KeptNesting
<1>3. delayed[q] = {}
  BY <1>1 DEF ManagerInv, Unused
<1>4. Types' /\ Unused'
  BY <1>1, <1>2 DEF ManagerInv, Types, Unused
<1>5. PendingSeen'
  BY <1>1, <1>2 DEF ManagerInv, PendingSeen, Scheduling, Signalling
<1>6. ASSUME frames' # <<>>, NEW x \in queues', NEW d \in delayed'[x]  PROVE DueSeenFor(x, d)'
  <2>1. x \in queues /\ d \in delayed[x] /\ frames # <<>>
    BY <1>1, <1>3, <1>6
  <2>2. DueSeenFor(x, d)
    BY <2>1 DEF ManagerInv, DueSeen
  <2> QED  BY <1>1, <1>2, <2>2 DEF DueSeenFor, Scheduling, SchedulingFor, Signalling, Posting
<1>7. DueSeen'
  BY <1>6 DEF DueSeen
<1> QED  BY <1>2, <1>4, <1>5, <1>7 DEF ManagerInv

LEMMA ThenIs ==
  ASSUME NEW p \in Posters, NEW q \in Queues, NEW notify
  PROVE  \E v \in Posts : /\ Then(p, notify, q) = [poster EXCEPT ![p] = v]
                          /\ notify => v = [pc |-> "posted", queue |-> q]
<1>1. [pc |-> "posted", queue |-> q] \in Posts /\ [pc |-> "idle"] \in Posts
  BY DEF Posts
<1>2. CASE notify
  BY <1>1, <1>2 DEF Then
<1>3. CASE ~notify
  BY <1>1, <1>3 DEF Then
<1> QED  BY <1>2, <1>3

LEMMA PushImmediateKeeps ==
  ASSUME ManagerInv, NEW p \in Posters, NEW q \in Queues, NEW k, PushImmediateTask(p, q, k)
  PROVE  ManagerInv'
<1>1. /\ poster[p].pc = "idle" /\ poster' = Then(p, incoming[q] = <<>>, q)
      /\ UNCHANGED <<clock, queues, shut, delayed, pending, pump, frames>>
  BY DEF PushImmediateTask
<1>8. PICK v \in Posts : poster' = [poster EXCEPT ![p] = v]
  BY <1>1, ThenIs
<1>2. Framed(frames)' /\ Nesting' /\ Top' = Top /\ Clocked'
  BY <1>1, KeptNesting
<1>3. poster \in [Posters -> Posts] /\ PendingSeen /\ DueSeen
  BY DEF ManagerInv, Types
<1>4. Types' /\ Unused'
  BY <1>1, <1>2, <1>8 DEF ManagerInv, Types, Unused
<1>5. /\ Scheduling => Scheduling'
      /\ \A d : SchedulingFor(d) => SchedulingFor(d)'
      /\ \A x : Posting(x) => Posting(x)'
      /\ (\E r \in Posters : poster[r].pc = "signal") => \E r \in Posters : poster'[r].pc = "signal"
  BY <1>1, <1>3, <1>8, IdleBegins
<1>6. PendingSeen'
  BY <1>1, <1>2, <1>3, <1>5 DEF PendingSeen, Signalling
<1>7. DueSeen'
  BY <1>1, <1>2, <1>3, <1>5 DEF DueSeen, DueSeenFor, Signalling
<1> QED  BY <1>2, <1>4, <1>6, <1>7 DEF ManagerInv

LEMMA PushDelayedKeeps ==
  ASSUME MaxDue \in Nat, ManagerInv, NEW p \in Posters, NEW q \in Queues, NEW d \in 1..(MaxDue + 1), PushDelayedTask(p, q, d)
  PROVE  ManagerInv'
<1>1. /\ poster[p].pc = "idle" /\ poster' = Then(p, IsEarliest(d, delayed[q]), q)
      /\ delayed' = [delayed EXCEPT ![q] = @ \cup {d}] /\ Accepts(q)
      /\ UNCHANGED <<clock, queues, shut, pending, pump, frames>>
  BY DEF PushDelayedTask
<1>2. Framed(frames)' /\ Nesting' /\ Top' = Top /\ Clocked'
  BY <1>1, KeptNesting
<1>3. /\ poster \in [Posters -> Posts] /\ PendingSeen /\ DueSeen /\ delayed \in [Queues -> SUBSET RunTimes]
      /\ queues \subseteq Queues
  BY DEF ManagerInv, Types
<1>4. delayed' \in [Queues -> SUBSET RunTimes]
  BY <1>1, <1>3 DEF RunTimes
<1>11. PICK v \in Posts : /\ poster' = [poster EXCEPT ![p] = v]
                          /\ IsEarliest(d, delayed[q]) => v = [pc |-> "posted", queue |-> q]
  BY <1>1, ThenIs
<1>5. poster' \in [Posters -> Posts]
  BY <1>3, <1>11
<1>12. ~shut.done => q \in queues
  BY <1>1 DEF ManagerInv, Unused, Accepts, ToSet
<1>6. Types' /\ Unused'
  BY <1>1, <1>2, <1>3, <1>4, <1>5, <1>12 DEF ManagerInv, Types, Unused
<1>7. /\ Scheduling => Scheduling'
      /\ \A e : SchedulingFor(e) => SchedulingFor(e)'
      /\ \A x : Posting(x) => Posting(x)'
      /\ (\E r \in Posters : poster[r].pc = "signal") => \E r \in Posters : poster'[r].pc = "signal"
      /\ poster'[p] = v
  BY <1>1, <1>3, <1>11, IdleBegins
<1>8. PendingSeen'
  BY <1>1, <1>2, <1>3, <1>7 DEF PendingSeen, Signalling
<1>9. ASSUME frames' # <<>>, NEW x \in queues', NEW e \in delayed'[x]  PROVE DueSeenFor(x, e)'
  <2>1. CASE e \in delayed[x]
    <3>1. DueSeenFor(x, e)
      BY <1>1, <1>3, <1>9, <2>1 DEF DueSeen
    <3> QED  BY <1>1, <1>2, <1>7, <3>1 DEF DueSeenFor, Signalling
  <2>2. CASE e \notin delayed[x]
    <3>1. x = q
      BY <1>1, <1>3, <1>9, <2>2
    <3>2. e = d /\ d \in Nat
      BY <1>1, <1>3, <1>9, <2>2
    <3>3. CASE IsEarliest(d, delayed[q])
      <4>1. Posting(x)'
        BY <1>7, <1>11, <3>1, <3>3 DEF Posting
      <4> QED  BY <4>1 DEF DueSeenFor
    <3>4. CASE ~IsEarliest(d, delayed[q])
      <4>1. PICK y \in delayed[q] : ~(d < y)
        BY <3>4 DEF IsEarliest
      <4>2. y \in Nat /\ y <= d
        BY <1>3, <3>2, <4>1 DEF RunTimes
      <4>3. DueSeenFor(x, y)
        BY <1>1, <1>3, <1>9, <3>1 DEF DueSeen
      <4>4. DueSeenFor(x, d)
        BY <1>1, <1>9, <3>2, <4>2, <4>3, LaterIsSeen
      <4> QED  BY <1>1, <1>2, <1>7, <3>2, <4>4 DEF DueSeenFor, Signalling
    <3> QED  BY <3>3, <3>4
  <2> QED  BY <2>1, <2>2
<1>10. DueSeen'
  BY <1>9 DEF DueSeen
<1> QED  BY <1>2, <1>6, <1>8, <1>10 DEF ManagerInv

LEMMA OnTaskPostedKeeps ==
  ASSUME ManagerInv, NEW p \in Posters, OnTaskPosted(p)
  PROVE  ManagerInv'
<1>1. PICK y : y \in {"exchange", "peek"} /\ poster' = [poster EXCEPT ![p].pc = y]
  BY DEF OnTaskPosted
<1>2. /\ poster[p].pc = "posted"
      /\ UNCHANGED <<clock, queues, shut, delayed, pending, pump, frames>>
  BY DEF OnTaskPosted
<1>3. Framed(frames)' /\ Nesting' /\ Top' = Top /\ Clocked'
  BY <1>2, KeptNesting
<1>4. poster \in [Posters -> Posts] /\ PendingSeen /\ DueSeen
  BY DEF ManagerInv, Types
<1>5. PICK q \in Queues : poster[p] = [pc |-> "posted", queue |-> q]
  BY <1>2, <1>4 DEF Posts
<1>6. PICK v : v = [pc |-> y, queue |-> q]
  OBVIOUS
<1>18. v = [poster[p] EXCEPT !.pc = y]
  BY <1>5, <1>6
<1>7. poster' = [poster EXCEPT ![p] = v]
  BY <1>1, <1>18
<1>8. v \in Posts /\ v.pc = y /\ v.queue = q
  BY <1>1, <1>6 DEF Posts
<1>9. poster' \in [Posters -> Posts] /\ poster'[p] = v /\ \A r \in Posters : r # p => poster'[r] = poster[r]
  BY <1>4, <1>7, <1>8
<1>10. Types' /\ Unused'
  BY <1>2, <1>3, <1>9 DEF ManagerInv, Types, Unused
<1>11. \A r \in Posters : poster[r].pc \in {"exchange", "peek", "schedule", "signal"} => poster'[r] = poster[r]
  BY <1>2, <1>9
<1>12. \A x : Posting(x) => Posting(x)'
  <2> SUFFICES ASSUME NEW x, NEW r \in Posters, poster[r].pc \in {"posted", "exchange", "peek"}, poster[r].queue = x
               PROVE  Posting(x)'
    BY DEF Posting
  <2>1. CASE r = p
    BY <1>1, <1>5, <1>8, <1>9, <2>1 DEF Posting
  <2>2. CASE r # p
    BY <1>9, <2>2 DEF Posting
  <2> QED  BY <2>1, <2>2
<1>13. Scheduling => Scheduling'
  BY <1>11 DEF Scheduling
<1>14. \A d : SchedulingFor(d) => SchedulingFor(d)'
  BY <1>11 DEF SchedulingFor
<1>15. Signalling => Signalling'
  BY <1>2, <1>11 DEF Signalling
<1>16. PendingSeen'
  BY <1>2, <1>3, <1>4, <1>13, <1>15 DEF PendingSeen
<1>17. DueSeen'
  BY <1>2, <1>3, <1>4, <1>12, <1>13, <1>14, <1>15 DEF DueSeen, DueSeenFor
<1> QED  BY <1>3, <1>10, <1>16, <1>17 DEF ManagerInv

(* The post that sets the flag goes on to the pump. *)
LEMMA ExchangeKeeps ==
  ASSUME ManagerInv, NEW p \in Posters, ExchangePending(p)
  PROVE  ManagerInv'
<1>1. /\ poster[p].pc = "exchange" /\ pending' = TRUE
      /\ poster' = [poster EXCEPT ![p] = IF pending THEN [pc |-> "idle"] ELSE [@ EXCEPT !.pc = "peek"]]
      /\ UNCHANGED <<clock, queues, shut, delayed, pump, frames>>
  BY DEF ExchangePending
<1>2. Framed(frames)' /\ Nesting' /\ Top' = Top /\ Clocked'
  BY <1>1, KeptNesting
<1>3. poster \in [Posters -> Posts] /\ PendingSeen /\ pending \in BOOLEAN
  BY DEF ManagerInv, Types
<1>4. PICK q \in Queues : poster[p] = [pc |-> "exchange", queue |-> q]
  BY <1>1, <1>3 DEF Posts
<1>5. PICK v : v = IF pending THEN [pc |-> "idle"] ELSE [pc |-> "peek", queue |-> q]
  OBVIOUS
<1>15. v = IF pending THEN [pc |-> "idle"] ELSE [poster[p] EXCEPT !.pc = "peek"]
  BY <1>4, <1>5
<1>6. poster' = [poster EXCEPT ![p] = v]
  BY <1>1, <1>15
<1>7. v \in Posts /\ (~pending => v.pc = "peek")
  BY <1>5 DEF Posts
<1>8. poster' \in [Posters -> Posts] /\ poster'[p] = v /\ \A r \in Posters : r # p => poster'[r] = poster[r]
  BY <1>3, <1>6, <1>7
<1>9. Types' /\ Unused'
  BY <1>1, <1>2, <1>8 DEF ManagerInv, Types, Unused
<1>10. \A r \in Posters : poster[r].pc \in {"peek", "schedule", "signal"} => poster'[r] = poster[r]
  BY <1>1, <1>8
<1>11. (Scheduling => Scheduling') /\ (Signalling => Signalling')
  BY <1>1, <1>10 DEF Scheduling, Signalling
<1>12. ~pending => Scheduling'
  BY <1>7, <1>8 DEF Scheduling
<1>13. PendingSeen'
  BY <1>1, <1>2, <1>3, <1>11, <1>12 DEF PendingSeen
<1>14. DueSeen'
  BY <1>1 DEF DueSeen, DueSeenFor
<1> QED  BY <1>2, <1>9, <1>13, <1>14 DEF ManagerInv

LEMMA PeekKeeps ==
  ASSUME ManagerInv, NEW p \in Posters, PeekNextDelayedRunTime(p)
  PROVE  ManagerInv'
<1>1. PICK q : q = poster[p].queue
  OBVIOUS
<1>2. /\ poster[p].pc = "peek"
      /\ poster' = [poster EXCEPT ![p] = [pc |-> "schedule", due |-> delayed[q]]]
      /\ UNCHANGED <<clock, queues, shut, delayed, pending, pump, frames>>
  BY <1>1 DEF PeekNextDelayedRunTime
<1>3. Framed(frames)' /\ Nesting' /\ Top' = Top /\ Clocked'
  BY <1>2, KeptNesting
<1>4. /\ poster \in [Posters -> Posts] /\ PendingSeen /\ DueSeen /\ delayed \in [Queues -> SUBSET RunTimes]
      /\ queues \subseteq Queues
  BY DEF ManagerInv, Types
<1>5. q \in Queues
  BY <1>1, <1>2, <1>4 DEF Posts
<1>6. delayed[q] \in SUBSET RunTimes
  BY <1>4, <1>5
<1>7. [pc |-> "schedule", due |-> delayed[q]] \in Posts
  BY <1>6 DEF Posts
<1>8. poster' \in [Posters -> Posts] /\ poster'[p] = [pc |-> "schedule", due |-> delayed[q]]
  BY <1>2, <1>4, <1>7
<1>9. Types' /\ Unused'
  BY <1>2, <1>3, <1>8 DEF ManagerInv, Types, Unused
<1>10. \A r \in Posters : r # p => poster'[r] = poster[r]
  BY <1>2, <1>4
<1>11. \A r \in Posters : poster[r].pc \in {"posted", "exchange", "schedule", "signal"} => poster'[r] = poster[r]
  BY <1>2, <1>10
<1>12. Scheduling'
  BY <1>8 DEF Scheduling
<1>13. PendingSeen'
  BY <1>12 DEF PendingSeen
<1>14. ASSUME frames' # <<>>, NEW x \in queues', NEW d \in delayed'[x]  PROVE DueSeenFor(x, d)'
  <2>1. DueSeenFor(x, d) /\ d \in Nat
    BY <1>2, <1>4, <1>14 DEF DueSeen, RunTimes
  <2>2. ASSUME Posting(x)  PROVE Posting(x)' \/ SchedulingFor(d)'
    <3>1. PICK r \in Posters : poster[r].pc \in {"posted", "exchange", "peek"} /\ poster[r].queue = x
      BY <2>2 DEF Posting
    <3>2. CASE r = p
      <4>1. d \in delayed[q] /\ d <= d
        BY <1>1, <1>2, <1>14, <2>1, <3>1, <3>2
      <4> QED  BY <1>8, <4>1 DEF SchedulingFor
    <3>3. CASE r # p
      <4>1. poster'[r] = poster[r]
        BY <1>10, <3>3
      <4> QED  BY <3>1, <4>1 DEF Posting
    <3> QED  BY <3>2, <3>3
  <2>3. SchedulingFor(d) => SchedulingFor(d)'
    BY <1>11 DEF SchedulingFor
  <2> QED  BY <1>2, <1>3, <1>12, <2>1, <2>2, <2>3 DEF DueSeenFor
<1>15. DueSeen'
  BY <1>14 DEF DueSeen
<1> QED  BY <1>3, <1>9, <1>13, <1>15 DEF ManagerInv

LEMMA ScheduleKeeps ==
  ASSUME ManagerInv, NEW p \in Posters, ScheduleWorkAndDelayedWork(p)
  PROVE  ManagerInv'
<1>1. /\ poster[p].pc = "schedule" /\ pump' = [pump EXCEPT !.scheduled = TRUE, !.deadline = Earlier(@, poster[p].due)]
      /\ poster' = [poster EXCEPT ![p] = [pc |-> "signal"]]
      /\ UNCHANGED <<clock, queues, shut, delayed, pending, frames>>
  BY DEF ScheduleWorkAndDelayedWork
<1>2. /\ poster \in [Posters -> Posts] /\ DueSeen /\ delayed \in [Queues -> SUBSET RunTimes] /\ pump \in Pumps
      /\ queues \subseteq Queues
  BY DEF ManagerInv, Types
<1>3. poster[p].due \in SUBSET RunTimes
  BY <1>1, <1>2 DEF Posts
<1>4. PICK t : t = Earlier(pump.deadline, poster[p].due)
  OBVIOUS
<1>5. t \in Nat /\ \A d \in RunTimes : d \in poster[p].due \/ Covers(pump.deadline, d) => Covers(t, d)
  BY <1>2, <1>3, <1>4, EarlierIs DEF Pumps
<1>6. /\ pump' \in Pumps /\ pump'.depth = pump.depth /\ pump'.quit = pump.quit
      /\ pump'.scheduled = TRUE /\ pump'.deadline = t
  BY <1>1, <1>2, <1>4, <1>5 DEF Pumps
<1>7. Framed(frames)' /\ Nesting' /\ Top' = Top /\ Clocked'
  BY <1>1, <1>6, KeptNesting
<1>8. [pc |-> "signal"] \in Posts
  BY DEF Posts
<1>9. Types' /\ Unused'
  BY <1>1, <1>2, <1>6, <1>7, <1>8 DEF ManagerInv, Types, Unused
<1>10. poster'[p].pc = "signal" /\ \A r \in Posters : r # p => poster'[r] = poster[r]
  BY <1>1, <1>2
<1>11. Signalling'
  BY <1>10 DEF Signalling
<1>12. PendingSeen'
  BY <1>6, <1>11 DEF PendingSeen
<1>13. ASSUME frames' # <<>>, NEW x \in queues', NEW d \in delayed'[x]  PROVE DueSeenFor(x, d)'
  <2>1. DueSeenFor(x, d) /\ d \in RunTimes
    BY <1>1, <1>2, <1>13 DEF DueSeen
  <2>2. Posting(x) => Posting(x)'
    BY <1>1, <1>10 DEF Posting
  <2>3. SchedulingFor(d) => SchedulingFor(d)' \/ Covers(t, d)
    <3> SUFFICES ASSUME NEW r \in Posters, poster[r].pc = "schedule", NEW y \in poster[r].due, y <= d
                 PROVE  SchedulingFor(d)' \/ Covers(t, d)
      BY DEF SchedulingFor
    <3>1. CASE r = p
      <4>1. y \in RunTimes /\ Covers(t, y)
        BY <1>3, <1>5, <3>1
      <4> QED  BY <1>5, <2>1, <4>1 DEF Covers, RunTimes
    <3>2. CASE r # p
      BY <1>10, <3>2 DEF SchedulingFor
    <3> QED  BY <3>1, <3>2
  <2>4. Covers(pump.deadline, d) => Covers(t, d)
    BY <1>5, <2>1
  <2> QED  BY <1>1, <1>6, <1>7, <1>11, <2>1, <2>2, <2>3, <2>4 DEF DueSeenFor
<1>14. DueSeen'
  BY <1>13 DEF DueSeen
<1> QED  BY <1>7, <1>9, <1>12, <1>14 DEF ManagerInv

LEMMA SignalKeeps ==
  ASSUME ManagerInv, NEW p \in Posters, Signal(p)
  PROVE  ManagerInv'
<1>1. /\ poster[p].pc = "signal" /\ pump' = [pump EXCEPT !.signalled = TRUE]
      /\ poster' = [poster EXCEPT ![p] = [pc |-> "idle"]]
      /\ UNCHANGED <<clock, queues, shut, delayed, pending, frames>>
  BY DEF Signal
<1>2. poster \in [Posters -> Posts] /\ PendingSeen /\ DueSeen /\ pump \in Pumps
  BY DEF ManagerInv, Types
<1>3. /\ pump' \in Pumps /\ pump'.depth = pump.depth /\ pump'.quit = pump.quit
      /\ pump'.scheduled = pump.scheduled /\ pump'.deadline = pump.deadline /\ pump'.signalled = TRUE
  BY <1>1, <1>2 DEF Pumps
<1>4. Framed(frames)' /\ Nesting' /\ Top' = Top /\ Clocked'
  BY <1>1, <1>3, KeptNesting
<1>5. [pc |-> "idle"] \in Posts
  BY DEF Posts
<1>6. Types' /\ Unused'
  BY <1>1, <1>2, <1>3, <1>4, <1>5 DEF ManagerInv, Types, Unused
<1>7. \A r \in Posters : poster[r].pc \in {"posted", "exchange", "peek", "schedule"} => poster'[r] = poster[r]
  BY <1>1, <1>2
<1>8. /\ Scheduling => Scheduling'
      /\ \A d : SchedulingFor(d) => SchedulingFor(d)'
      /\ \A x : Posting(x) => Posting(x)'
  BY <1>7 DEF Scheduling, SchedulingFor, Posting
<1>9. PendingSeen'
  BY <1>1, <1>2, <1>3, <1>4, <1>8 DEF PendingSeen, Signalling
<1>10. DueSeen'
  BY <1>1, <1>2, <1>3, <1>4, <1>8 DEF DueSeen, DueSeenFor, Signalling
<1> QED  BY <1>4, <1>6, <1>9, <1>10 DEF ManagerInv

(* The frames and the pump after RequestQuitInnermostRun. *)
LEMMA QuitStep ==
  ASSUME ManagerInv, frames' = Asked(frames), UNCHANGED clock,
         pump' = QuitRequested \/ pump' = [QuitRequested EXCEPT !.signalled = TRUE]
  PROVE  /\ Framed(frames)' /\ Nesting' /\ pump' \in Pumps /\ Clocked'
         /\ pump'.scheduled = TRUE /\ pump'.deadline = pump.deadline
         /\ frames' # <<>> => frames # <<>> /\ Top'.pc = Top.pc /\ Top'.ran = Top.ran /\ Top'.until = Top.until /\ Top'.late = Top.late
<1>1. Framed(frames) /\ Nesting /\ pump \in Pumps
  BY DEF ManagerInv, Types
<1>2. frames # <<>> /\ Top.todo # <<>> => InTask(Top)
  BY TopFrame
<1>3. /\ Framed(frames)' /\ Nesting' /\ pump' \in Pumps
      /\ (frames = <<>>) <=> (frames' = <<>>)
      /\ frames # <<>> => Top' = [Top EXCEPT !.asked = TRUE]
  BY <1>1, <1>2, QuitNesting DEF Top
<1>4. pump'.scheduled = TRUE /\ pump'.deadline = pump.deadline
  BY <1>1 DEF Pumps, QuitRequested
<1>5. frames # <<>> => /\ Top'.pc = Top.pc /\ Top'.ran = Top.ran /\ Top'.until = Top.until /\ Top'.late = Top.late
                       /\ Top'.now = Top.now
  BY <1>3, TopFrame DEF IsFrame
<1>6. Clocked'
  BY <1>3, <1>5 DEF ManagerInv, Clocked
<1> QED  BY <1>3, <1>4, <1>5, <1>6

LEMMA RequestQuitKeeps ==
  ASSUME ManagerInv, NEW p \in Posters, RequestQuitInnermostRun(p)
  PROVE  ManagerInv'
<1>1. /\ poster[p].pc = "idle" /\ pump' = QuitRequested /\ frames' = Asked(frames)
      /\ poster' = [poster EXCEPT ![p] = [pc |-> "signal"]]
      /\ UNCHANGED <<clock, queues, shut, delayed, pending>>
  BY DEF RequestQuitInnermostRun
<1>2. poster \in [Posters -> Posts] /\ DueSeen
  BY DEF ManagerInv, Types
<1>3. /\ Framed(frames)' /\ Nesting' /\ pump' \in Pumps /\ Clocked'
      /\ pump'.scheduled = TRUE /\ pump'.deadline = pump.deadline
      /\ frames' # <<>> => frames # <<>> /\ Top'.pc = Top.pc /\ Top'.ran = Top.ran /\ Top'.until = Top.until /\ Top'.late = Top.late
  BY <1>1, QuitStep
<1>4. [pc |-> "signal"] \in Posts
  BY DEF Posts
<1>5. Types' /\ Unused'
  BY <1>1, <1>2, <1>3, <1>4 DEF ManagerInv, Types, Unused
<1>6. /\ \A d : SchedulingFor(d) => SchedulingFor(d)'
      /\ \A x : Posting(x) => Posting(x)'
      /\ poster'[p] = [pc |-> "signal"]
  BY <1>1, <1>2, IdleBegins
<1>7. Signalling'
  BY <1>6 DEF Signalling
<1>8. PendingSeen'
  BY <1>3, <1>7 DEF PendingSeen
<1>9. DueSeen'
  BY <1>1, <1>2, <1>3, <1>6, <1>7 DEF DueSeen, DueSeenFor
<1> QED  BY <1>3, <1>5, <1>8, <1>9 DEF ManagerInv
LEMMA QuitAfterStep ==
  ASSUME ManagerInv, NEW left, QuitAfter(left), UNCHANGED <<clock, pending, poster>>
  PROVE  /\ Framed(frames)' /\ Nesting' /\ pump' \in Pumps /\ PendingSeen' /\ Clocked'
         /\ frames' # <<>> => \A q, d : DueSeenFor(q, d) => DueSeenFor(q, d)'
         /\ frames' # <<>> => frames # <<>>
<1>1. CASE UNCHANGED <<pump, frames>>
  <2>1. Framed(frames)' /\ Nesting' /\ Top' = Top /\ Clocked'
    BY <1>1, KeptNesting
  <2>2. PendingSeen'
    BY <1>1, <2>1 DEF ManagerInv, PendingSeen, Scheduling, Signalling
  <2>3. ASSUME NEW q, NEW d, DueSeenFor(q, d)  PROVE DueSeenFor(q, d)'
    BY <1>1, <2>1, <2>3 DEF DueSeenFor, Scheduling, SchedulingFor, Signalling, Posting
  <2>4. pump' \in Pumps
    BY <1>1 DEF ManagerInv, Types
  <2> QED  BY <1>1, <2>1, <2>2, <2>3, <2>4
<1>2. CASE pump' = [QuitRequested EXCEPT !.signalled = TRUE] /\ frames' = Asked(frames)
  <2>1. /\ Framed(frames)' /\ Nesting' /\ pump' \in Pumps /\ Clocked'
        /\ pump'.scheduled = TRUE /\ pump'.deadline = pump.deadline
        /\ frames' # <<>> => frames # <<>> /\ Top'.pc = Top.pc /\ Top'.ran = Top.ran /\ Top'.until = Top.until /\ Top'.late = Top.late
    BY <1>2, QuitStep
  <2>2. pump'.signalled = TRUE
    BY <1>2 DEF ManagerInv, Types, Pumps, QuitRequested
  <2>3. PendingSeen'
    BY <2>1, <2>2 DEF PendingSeen, Signalling
  <2>4. ASSUME frames' # <<>>, NEW q, NEW d, DueSeenFor(q, d)  PROVE DueSeenFor(q, d)'
    BY <2>1, <2>2, <2>4 DEF DueSeenFor, Signalling, SchedulingFor, Posting
  <2> QED  BY <2>1, <2>3, <2>4
<1> QED  BY <1>1, <1>2 DEF QuitAfter

LEMMA ShutdownKeeps ==
  ASSUME ManagerInv, Shutdown
  PROVE  ManagerInv'
<1>1. /\ shut' = [done |-> TRUE, left |-> FlattenSeq(sel.queues)] /\ queues' = {}
      /\ QuitAfter(shut'.left) /\ UNCHANGED <<clock, delayed, pending, poster>>
  BY DEF Shutdown
<1>2. Framed(frames)' /\ Nesting' /\ pump' \in Pumps /\ PendingSeen' /\ Clocked'
  BY <1>1, QuitAfterStep
<1>3. shut' = [done |-> shut'.done, left |-> shut'.left] /\ shut'.done = TRUE
  BY <1>1
<1>4. Types' /\ Unused'
  BY <1>1, <1>2, <1>3 DEF ManagerInv, Types, Unused
<1>5. DueSeen'
  BY <1>1 DEF DueSeen
<1> QED  BY <1>2, <1>4, <1>5 DEF ManagerInv

LEMMA ShutdownQueueKeeps ==
  ASSUME ManagerInv, ShutdownQueue
  PROVE  ManagerInv'
<1>1. /\ shut' = [shut EXCEPT !.left = Tail(@)] /\ delayed' = [delayed EXCEPT ![Head(shut.left)] = {}]
      /\ QuitAfter(Tail(shut.left)) /\ UNCHANGED <<clock, queues, pending, poster>>
  BY DEF ShutdownQueue
<1>2. /\ Framed(frames)' /\ Nesting' /\ pump' \in Pumps /\ PendingSeen' /\ Clocked'
      /\ frames' # <<>> => \A q, d : DueSeenFor(q, d) => DueSeenFor(q, d)'
      /\ frames' # <<>> => frames # <<>>
  BY <1>1, QuitAfterStep
<1>3. /\ shut = [done |-> shut.done, left |-> shut.left] /\ delayed \in [Queues -> SUBSET RunTimes]
      /\ queues \subseteq Queues
  BY DEF ManagerInv, Types
<1>8. shut.left # <<>>
  BY DEF ShutdownQueue
<1>4. shut' = [done |-> shut'.done, left |-> shut'.left] /\ shut'.done = shut.done
  BY <1>1, <1>3
<1>5. delayed' \in [Queues -> SUBSET RunTimes] /\ \A q \in Queues : delayed'[q] \subseteq delayed[q]
  BY <1>1, <1>3
<1>6. Types' /\ Unused'
  BY <1>1, <1>2, <1>4, <1>5, <1>8 DEF ManagerInv, Types, Unused
<1>7. DueSeen'
  BY <1>1, <1>2, <1>3, <1>5 DEF ManagerInv, DueSeen
<1> QED  BY <1>2, <1>6, <1>7 DEF ManagerInv

LEMMA IdleStep ==
  ASSUME ManagerInv, UNCHANGED <<queues, shut, delayed, pending, pump, frames, poster>>,
         clock' = clock \/ clock' = clock + 1
  PROVE  ManagerInv'
<1>1. Framed(frames)' /\ Nesting' /\ Top' = Top /\ Clocked' /\ clock' \in Nat
  BY KeptNesting
<1>2. Types' /\ Unused'
  BY <1>1 DEF ManagerInv, Types, Unused
<1>3. PendingSeen' /\ DueSeen'
  BY <1>1 DEF ManagerInv, PendingSeen, DueSeen, DueSeenFor, Scheduling, SchedulingFor, Signalling, Posting
<1> QED  BY <1>1, <1>2, <1>3 DEF ManagerInv

-----------------------------------------------------------------------------
LEMMA ManagerInvInit ==
  Init => ManagerInv
<1> SUFFICES ASSUME Init  PROVE ManagerInv
  OBVIOUS
<1>1. Framed(frames) /\ Len(frames) = 0
  <2>1. <<>> \in Seq({}) /\ Len(<<>>) = 0 /\ DOMAIN <<>> = {} /\ {<<>>[i] : i \in DOMAIN <<>>} = {}
    OBVIOUS
  <2>2. Framed(<<>>)
    BY <2>1 DEF Framed
  <2> QED  BY <2>1, <2>2 DEF Init
<1>2. pump \in Pumps /\ poster \in [Posters -> Posts]
  BY DEF Init, Pumps, Posts
<1>3. Types
  BY <1>1, <1>2 DEF Init, Types
<1>4. Nesting /\ Unused /\ PendingSeen /\ DueSeen /\ Clocked
  BY <1>1 DEF Init, Nesting, Unused, PendingSeen, DueSeen, Clocked
<1> QED  BY <1>3, <1>4 DEF ManagerInv

LEMMA ManagerInvNext ==
  ASSUME MaxDue \in Nat, ManagerInv, [Next]_managerVars
  PROVE  ManagerInv'
<1>1. CASE PumpStep
  BY <1>1, ExitKeeps, BeginWorkKeeps, TakeBatchKeeps, SelectTaskKeeps, RunTaskKeeps, DoDelayedWorkKeeps, ConsumeKeeps,
     GetDelayedRunTimeKeeps, ResetKeeps, RecheckKeeps, WakeUpKeeps
  DEF PumpStep
<1>2. CASE Run \/ Shutdown \/ ShutdownQueue
  BY <1>2, RunKeeps, ShutdownKeeps, ShutdownQueueKeeps
<1>3. CASE Tick \/ UNCHANGED managerVars
  BY <1>3, IdleStep DEF Tick, managerVars
<1>4. ASSUME NEW q \in Queues, CreateTaskQueueLocked(q)  PROVE ManagerInv'
  BY <1>4, CreateKeeps
<1>5. ASSUME NEW p \in Posters, NEW q \in Queues, NEW k \in Kinds, PushImmediateTask(p, q, k)  PROVE ManagerInv'
  BY <1>5, PushImmediateKeeps
<1>6. ASSUME NEW p \in Posters, NEW q \in Queues, NEW d \in 1..(MaxDue + 1), PushDelayedTask(p, q, d)
      PROVE  ManagerInv'
  BY <1>6, PushDelayedKeeps
<1>7. ASSUME NEW p \in Posters,
             \/ OnTaskPosted(p) \/ ExchangePending(p) \/ PeekNextDelayedRunTime(p)
             \/ ScheduleWorkAndDelayedWork(p) \/ RequestQuitInnermostRun(p) \/ Signal(p)
      PROVE  ManagerInv'
  BY <1>7, OnTaskPostedKeeps, ExchangeKeeps, PeekKeeps, ScheduleKeeps, RequestQuitKeeps, SignalKeeps
<1> QED  BY <1>1, <1>2, <1>3, <1>4, <1>5, <1>6, <1>7 DEF Next

(* The invariant behind the theorems about the manager and its pump. *)
THEOREM ManagerInvariant ==
  ASSUME MaxDue \in Nat
  PROVE  Spec => []ManagerInv
<1>1. Init => ManagerInv
  BY ManagerInvInit
<1>2. ManagerInv /\ [Next]_managerVars => ManagerInv'
  BY ManagerInvNext
<1> QED  BY <1>1, <1>2, PTL DEF Spec

(* However posts, quits from other threads, Shutdown and nested RunLoops       *)
(* interleave, a Run of MessagePumpDefault leaves its loop only when           *)
(* RequestQuitInnermostRun found it innermost: quit_run_depth_ never ends a    *)
(* loop that nobody asked to end.                                              *)
THEOREM LoopsEndWhenAsked ==
  ASSUME MaxDue \in Nat
  PROVE  Spec => []OnlyAskedLoopsEnd
<1>1. ManagerInv => OnlyAskedLoopsEnd
  <2> SUFFICES ASSUME ManagerInv, frames # <<>>, ~IsRunLoopActive  PROVE Top.asked
    BY DEF OnlyAskedLoopsEnd
  <2>1. Framed(frames) /\ Nesting /\ pump \in Pumps
    BY DEF ManagerInv, Types
  <2>2. Len(frames) \in Nat /\ Len(frames) \in 1..Len(frames)
    BY <2>1, FramedFacts
  <2>3. pump.quit = Len(frames) /\ pump.quit > 0
    BY <2>1, <2>2 DEF IsRunLoopActive, Nesting, Pumps
  <2> QED  BY <2>1, <2>3 DEF Nesting, Top
<1> QED  BY <1>1, ManagerInvariant, PTL

(* When the pump is in its wait and no thread is about to wake it, the wait    *)
(* ends no later than the run time of any delayed task of any queue, plus the  *)
(* time that passed from the pump's look at the clock to the wait: the         *)
(* notifications that a queue with an earlier task or with fetched tasks and   *)
(* OnTaskPosted leave out, the deadline that DoDelayedWork reads and the       *)
(* recheck after Reset lose none.                                              *)
THEOREM WaitsEndInTime ==
  ASSUME MaxDue \in Nat
  PROVE  Spec => []SleepsUntilDue
<1>1. ManagerInv => SleepsUntilDue
  <2> SUFFICES ASSUME ManagerInv, Asleep, NEW q \in queues, NEW d \in delayed[q]
               PROVE  Top.until # 0 /\ Top.until <= d + Top.late
    BY DEF SleepsUntilDue
  <2>1. frames # <<>> /\ Top.pc = "wait" /\ ~pump.signalled /\ \A p \in Posters : poster[p].pc = "idle"
    BY DEF Asleep
  <2>2. ~Scheduling /\ ~Signalling /\ ~Posting(q)
    BY <2>1 DEF Scheduling, Signalling, Posting
  <2>3. ~pending
    BY <2>1, <2>2 DEF ManagerInv, PendingSeen
  <2>4. DueSeenFor(q, d)
    BY <2>1 DEF ManagerInv, DueSeen
  <2> QED  BY <2>1, <2>2, <2>3, <2>4 DEF DueSeenFor, Covers
<1> QED  BY <1>1, ManagerInvariant, PTL
=============================================================================
