-------------------------- MODULE SequenceManager --------------------------
(***************************************************************************)
(* SequenceManager and MessagePumpDefault (src/neixx/task): one thread     *)
(* runs the tasks of several queues; other threads post, wake the pump and *)
(* quit it.  The pump thread has a frame for every nested Run: a task may  *)
(* run a RunLoop of its own, and the rest of its batch waits below.        *)
(* A queue is its immediate tasks, in incoming_queue_ under its lock and   *)
(* in work_queue_ of the pump thread, and the set of run times of its      *)
(* delayed ones (TaskQueue has the order of tasks in a queue, and those    *)
(* that a shutdown keeps).  The unit of time is the pump's millisecond.    *)
(***************************************************************************)
EXTENDS Integers, Sequences, SequencesExt, FiniteSetsExt

CONSTANTS
  Quota,      \* level -> selections per round
  WordBits    \* width of work_mask, and of the rotation in SelectNextQueue

CONSTANTS
  Queues,         \* queues that can be created
  Level,          \* queue -> its priority level
  Kinds,          \* what a posted task does: "plain", "quit" or "nest"
  Posters,        \* posting threads
  FastBatch,      \* kSingleQueueTakeBatchSize, and kSingleQueueMaxTasksPerDoWork
  GeneralMax,     \* kMaxTasksPerDoWork
  MaxPosts,       \* bound: posts of all threads
  MaxDue,         \* bound: the clock; run times go to MaxDue + 1
  MaxDepth        \* bound: nested loops

VARIABLES
  sel,        \* selector_
  queues,     \* queues_: the registered queues
  shut,       \* is_shutdown_ and the queues Shutdown has still to take down
  incoming,   \* queue -> incoming_queue_: immediate tasks the pump thread has not fetched
  work,       \* queue -> work_queue_: those it has
  delayed,    \* queue -> run times of its delayed tasks
  pending,    \* pending_work_notification_
  pump,       \* the fields state_lock_ protects, and wake_up_event_
  frames,     \* the pump thread: one frame per nested Run
  poster,     \* posting thread -> where its post is
  posts, clock

managerVars == <<sel, queues, shut, incoming, work, delayed, pending, pump, frames, poster, posts, clock>>

NewFrame == [pc |-> "top", todo |-> <<>>, fast |-> <<>>, count |-> 0, ran |-> FALSE, now |-> 0, until |-> 0, late |-> 0,
             asked |-> FALSE]
Top == frames[Len(frames)]
Goto(f) == frames' = [frames EXCEPT ![Len(frames)] = f]
AtTop == [NewFrame EXCEPT !.asked = Top.asked]

-----------------------------------------------------------------------------
(***************************************************************************)
(* TaskQueueSelector (src/neixx/task/internal): which queue a              *)
(* SequenceManager serves next.  Every priority level has its queues in    *)
(* order of registration, a mask of those with work, a round-robin index   *)
(* and a share of the current round (4:2:1).  The operators return the     *)
(* selector after the call.                                                *)
(***************************************************************************)
Levels == DOMAIN Quota

NoSelector == [queues |-> [l \in Levels |-> <<>>], mask |-> [l \in Levels |-> {}], active |-> {},
               index  |-> [l \in Levels |-> 0],    used |-> [l \in Levels |-> 0]]

AddQueue(s, q, l) == [s EXCEPT !.queues[l] = Append(@, q)]

LevelOf(s, q) == {l \in Levels : q \in ToSet(s.queues[l])}
Bit(s, q, l) == (CHOOSE i \in DOMAIN s.queues[l] : s.queues[l][i] = q) - 1

(* The queue leaves its level, and the queues behind it move down one place:   *)
(* the bits of the mask stay where they are.                                   *)
RemoveQueue(s, q) ==
  LET l    == CHOOSE x \in Levels : x \in LevelOf(s, q)
      mask == s.mask[l] \ {Bit(s, q, l)}
      rest == RemoveAt(s.queues[l], Bit(s, q, l) + 1)
  IN  IF LevelOf(s, q) = {} THEN s
      ELSE [s EXCEPT !.mask[l] = mask, !.active = IF mask = {} THEN @ \ {l} ELSE @,
                     !.queues[l] = rest,
                     !.index[l] = IF @ >= Len(rest) /\ rest # <<>> THEN 0 ELSE @]

(* SetQueueHasWork. *)

SetQueueHasWork(s, q, has_work) ==
  LET l    == CHOOSE x \in Levels : x \in LevelOf(s, q)
      mask == IF has_work THEN s.mask[l] \cup {Bit(s, q, l)} ELSE s.mask[l] \ {Bit(s, q, l)}
  IN  IF LevelOf(s, q) = {} THEN s
      ELSE [s EXCEPT !.mask[l] = mask, !.active = IF mask = {} THEN @ \ {l} ELSE @ \cup {l}]

(* A new round begins when every level with work has used up its share. *)
MaybeResetScheduleRound(s) ==
  IF \A l \in s.active : s.used[l] >= Quota[l] THEN [s EXCEPT !.used = [l \in Levels |-> 0]] ELSE s

(* The mask rotated right by |start| within the 64-bit word: bits below start  *)
(* go to the top of the word, not behind the last queue.                       *)
Rotated(s, l) == {(b - (s.index[l] % Len(s.queues[l]))) % WordBits : b \in s.mask[l]}

Eligible(s, l) ==
  /\ l \in s.active /\ s.used[l] < Quota[l] /\ s.mask[l] # {} /\ s.queues[l] # <<>>
  /\ Min(Rotated(s, l)) < Len(s.queues[l])

(* [queue, selector after the call]; the queue is <<>> for nullptr. *)
SelectNextQueue(s) ==
  LET r == MaybeResetScheduleRound(s)
      E == {l \in Levels : Eligible(r, l)}
      l == Min(E)
      n == Len(r.queues[l])
      i == ((r.index[l] % n) + Min(Rotated(r, l))) % n
  IN  IF E = {} THEN [queue |-> <<>>, sel |-> r]
      ELSE [queue |-> <<r.queues[l][i + 1]>>,
            sel |-> [r EXCEPT !.index[l] = (i + 1) % n, !.used[l] = @ + 1]]

(* A level whose only work is at queues before the round-robin index: the      *)
(* rotation hides it from SelectNextQueue.                                     *)
Hidden(s, l) == s.mask[l] # {} /\ \A b \in s.mask[l] : b < s.index[l]

-----------------------------------------------------------------------------
Init ==
  /\ sel = NoSelector /\ queues = {} /\ shut = [done |-> FALSE, left |-> <<>>]
  /\ incoming = [q \in Queues |-> <<>>] /\ work = incoming /\ delayed = [q \in Queues |-> {}]
  /\ pending = FALSE
  /\ pump = [scheduled |-> FALSE, deadline |-> 0, signalled |-> FALSE, depth |-> 0, quit |-> 0]
  /\ frames = <<>>
  /\ poster = [p \in Posters |-> [pc |-> "idle"]]
  /\ posts = 0 /\ clock = 0

----------------------------------------------------------------------------
(* Any thread: CreateTaskRunner, posts and the OnTaskPostedCallback.          *)

CreateTaskQueueLocked(q) ==
  /\ q \notin queues /\ ~shut.done
  /\ queues' = queues \cup {q}
  /\ sel' = AddQueue(sel, q, Level[q])
  /\ UNCHANGED <<shut, incoming, work, delayed, pending, pump, frames, poster, posts, clock>>

(* A runner posts until its queue is shut down.  The callback is called when   *)
(* incoming_queue_ was empty, and for a delayed task when no earlier one is    *)
(* queued.                                                                     *)
Accepts(q) == q \in queues \/ q \in ToSet(shut.left)
Then(p, notify, q) == [poster EXCEPT ![p] = IF notify THEN [pc |-> "posted", queue |-> q] ELSE [pc |-> "idle"]]
IsEarliest(due, D) == \A d \in D : due < d

PushImmediateTask(p, q, kind) ==
  /\ poster[p].pc = "idle" /\ Accepts(q) /\ posts < MaxPosts
  /\ posts' = posts + 1
  /\ incoming' = [incoming EXCEPT ![q] = Append(@, kind)]
  /\ poster' = Then(p, incoming[q] = <<>>, q)
  /\ UNCHANGED <<sel, queues, shut, work, delayed, pending, pump, frames, clock>>

PushDelayedTask(p, q, due) ==
  /\ poster[p].pc = "idle" /\ Accepts(q) /\ posts < MaxPosts /\ due \notin delayed[q]
  /\ posts' = posts + 1
  /\ delayed' = [delayed EXCEPT ![q] = @ \cup {due}]
  /\ poster' = Then(p, IsEarliest(due, delayed[q]), q)
  /\ UNCHANGED <<sel, queues, shut, incoming, work, pending, pump, frames, clock>>

(* HasImmediateWork sees incoming_queue_ only. *)
OnTaskPosted(p) ==
  /\ poster[p].pc = "posted"
  /\ poster' = [poster EXCEPT ![p].pc = IF incoming[poster[p].queue] # <<>> THEN "exchange" ELSE "peek"]
  /\ UNCHANGED <<sel, queues, shut, incoming, work, delayed, pending, pump, frames, posts, clock>>

(* A post that finds the flag set leaves the waking to the one that set it.    *)
ExchangePending(p) ==
  /\ poster[p].pc = "exchange"
  /\ pending' = TRUE
  /\ poster' = [poster EXCEPT ![p] = IF pending THEN [pc |-> "idle"] ELSE [@ EXCEPT !.pc = "peek"]]
  /\ UNCHANGED <<sel, queues, shut, incoming, work, delayed, pump, frames, posts, clock>>

PeekNextDelayedRunTime(p) ==
  /\ poster[p].pc = "peek"
  /\ poster' = [poster EXCEPT ![p] = [pc |-> "schedule", due |-> delayed[poster[p].queue]]]
  /\ UNCHANGED <<sel, queues, shut, incoming, work, delayed, pending, pump, frames, posts, clock>>

(* The earlier of the pump's deadline and the run times in D; 0 is none. *)
Earlier(deadline, D) == IF D = {} THEN deadline ELSE IF deadline = 0 THEN Min(D) ELSE Min(D \cup {deadline})

ScheduleWorkAndDelayedWork(p) ==
  /\ poster[p].pc = "schedule"
  /\ pump' = [pump EXCEPT !.scheduled = TRUE, !.deadline = Earlier(@, poster[p].due)]
  /\ poster' = [poster EXCEPT ![p] = [pc |-> "signal"]]
  /\ UNCHANGED <<sel, queues, shut, incoming, work, delayed, pending, frames, posts, clock>>

(* The pump after RequestQuitInnermostRun, whose Signal is a later step. *)
QuitRequested == [pump EXCEPT !.scheduled = TRUE, !.quit = IF pump.depth > 0 THEN pump.depth ELSE @]
Asked(fs) == IF pump.depth > 0 THEN [fs EXCEPT ![pump.depth].asked = TRUE] ELSE fs

RequestQuitInnermostRun(p) ==
  /\ poster[p].pc = "idle" /\ posts < MaxPosts
  /\ posts' = posts + 1
  /\ pump' = QuitRequested /\ frames' = Asked(frames)
  /\ poster' = [poster EXCEPT ![p] = [pc |-> "signal"]]
  /\ UNCHANGED <<sel, queues, shut, incoming, work, delayed, pending, clock>>

Signal(p) ==
  /\ poster[p].pc = "signal"
  /\ pump' = [pump EXCEPT !.signalled = TRUE]
  /\ poster' = [poster EXCEPT ![p] = [pc |-> "idle"]]
  /\ UNCHANGED <<sel, queues, shut, incoming, work, delayed, pending, frames, posts, clock>>

(* Shutdown: the queues are taken out under lock_, then one by one removed     *)
(* from the selector and emptied, but for what the pump thread has fetched,    *)
(* and the innermost Run is quit.                                              *)
QuitAfter(left) ==
  IF left = <<>> THEN pump' = [QuitRequested EXCEPT !.signalled = TRUE] /\ frames' = Asked(frames)
                 ELSE UNCHANGED <<pump, frames>>

Shutdown ==
  /\ ~shut.done
  /\ shut' = [done |-> TRUE, left |-> FlattenSeq(sel.queues)]
  /\ queues' = {}
  /\ QuitAfter(shut'.left)
  /\ UNCHANGED <<sel, incoming, work, delayed, pending, poster, posts, clock>>

ShutdownQueue ==
  /\ shut.left # <<>>
  /\ shut' = [shut EXCEPT !.left = Tail(@)]
  /\ LET q == Head(shut.left)
     IN  /\ sel' = RemoveQueue(sel, q)
         /\ incoming' = [incoming EXCEPT ![q] = <<>>] /\ delayed' = [delayed EXCEPT ![q] = {}]
  /\ QuitAfter(Tail(shut.left))
  /\ UNCHANGED <<queues, work, pending, poster, posts, clock>>

----------------------------------------------------------------------------
(* The pump thread. *)

(* SequenceManager::Run, EnterRunLoopAndGetDepth: on the bare thread, or from  *)
(* a task.                                                                     *)
EnterRunLoop(below) ==
  /\ frames' = Append(below, NewFrame)
  /\ pump' = [pump EXCEPT !.depth = @ + 1]

Run ==
  /\ frames = <<>> /\ pump.depth = 0 /\ ~shut.done
  /\ EnterRunLoop(<<>>)
  /\ UNCHANGED <<sel, queues, shut, incoming, work, delayed, pending, poster, posts, clock>>

IsRunLoopActive == pump.quit < Len(frames)

(* ExitRunLoop. *)
QuitDepthAfterExit == IF pump.quit > pump.depth - 1 THEN 0 ELSE pump.quit

ExitRunLoop ==
  /\ frames # <<>> /\ Top.pc \in {"top", "idle"} /\ ~IsRunLoopActive
  /\ pump' = [pump EXCEPT !.depth = @ - 1, !.quit = QuitDepthAfterExit]
  /\ frames' = SubSeq(frames, 1, Len(frames) - 1)
  /\ UNCHANGED <<sel, queues, shut, incoming, work, delayed, pending, poster, posts, clock>>

(* FlushPendingWorkNotificationLocked, folded over the queues. *)
Flushed ==
  IF ~pending THEN sel
  ELSE FoldSet(LAMBDA q, s : IF incoming[q] # <<>> THEN SetQueueHasWork(s, q, TRUE) ELSE s, sel, queues)

(* The beginning of DoWork: flush, and choose between the two paths. *)
BeginWork ==
  /\ frames # <<>> /\ Top.pc = "top" /\ IsRunLoopActive
  /\ pending' = FALSE
  /\ LET one  == FoldFunction(+, 0, [l \in Levels |-> Len(Flushed.queues[l])]) = 1
         pick == SelectNextQueue(Flushed)
         fast == one /\ pick.queue # <<>>
     IN  /\ sel' = IF one THEN pick.sel ELSE Flushed
         /\ Goto([Top EXCEPT !.pc = IF fast THEN "fast" ELSE "general", !.count = 0, !.ran = FALSE,
                             !.fast = IF fast THEN pick.queue ELSE <<>>])
  /\ UNCHANGED <<queues, shut, incoming, work, delayed, pump, poster, posts, clock>>

(* Take: ReloadWorkQueueIfEmpty, and the first n tasks leave work_queue_.      *)
Fetched(q) == IF work[q] = <<>> THEN incoming[q] ELSE work[q]
Take(q, n) ==
  /\ work' = [work EXCEPT ![q] = SubSeq(Fetched(q), n + 1, Len(Fetched(q)))]
  /\ incoming' = IF work[q] = <<>> THEN [incoming EXCEPT ![q] = <<>>] ELSE incoming

(* Fast path: a batch of tasks of the only queue, or its work bit is cleared.  *)
TakeBatch ==
  /\ frames # <<>> /\ Top.pc = "fast" /\ Top.todo = <<>>
  /\ LET q == Top.fast[1]
         n == Min({FastBatch - Top.count, Len(Fetched(q))})
     IN  IF n > 0
         THEN /\ Take(q, n)
              /\ Goto([Top EXCEPT !.todo = SubSeq(Fetched(q), 1, n), !.count = @ + n, !.ran = TRUE])
              /\ UNCHANGED sel
         ELSE /\ sel' = IF Top.count < FastBatch THEN SetQueueHasWork(sel, q, FALSE) ELSE sel
              /\ Goto(IF Top.ran THEN AtTop ELSE [Top EXCEPT !.pc = "general", !.count = 0, !.fast = <<>>])
              /\ UNCHANGED <<incoming, work>>
  /\ UNCHANGED <<queues, shut, delayed, pending, pump, poster, posts, clock>>

(* General path: one task of the queue the selector names. *)
SelectTask ==
  /\ frames # <<>> /\ Top.pc = "general" /\ Top.todo = <<>>
  /\ LET pick == SelectNextQueue(sel)
         q    == pick.queue[1]
     IN  CASE Top.count = GeneralMax \/ pick.queue = <<>> ->
                /\ sel' = IF Top.count = GeneralMax THEN sel ELSE pick.sel
                /\ Goto(IF Top.ran THEN AtTop ELSE [AtTop EXCEPT !.pc = "delayed"])
                /\ UNCHANGED <<incoming, work>>
           [] Top.count < GeneralMax /\ pick.queue # <<>> /\ Fetched(q) = <<>> ->
                /\ sel' = SetQueueHasWork(pick.sel, q, FALSE)
                /\ Goto([Top EXCEPT !.count = @ + 1])
                /\ UNCHANGED <<incoming, work>>
           [] OTHER ->
                /\ sel' = pick.sel
                /\ Take(q, 1)
                /\ Goto([Top EXCEPT !.todo = <<Head(Fetched(q))>>, !.count = @ + 1, !.ran = TRUE])
  /\ UNCHANGED <<queues, shut, delayed, pending, pump, poster, posts, clock>>

(* std::move(task.task).Run(). *)
RunTask ==
  /\ frames # <<>> /\ Top.pc \in {"fast", "general"} /\ Top.todo # <<>>
  /\ LET rest == [frames EXCEPT ![Len(frames)].todo = Tail(@)]
     IN  \/ Head(Top.todo) = "plain" /\ frames' = rest /\ UNCHANGED pump
         \/ /\ Head(Top.todo) = "quit"
            /\ pump' = [QuitRequested EXCEPT !.signalled = TRUE] /\ frames' = Asked(rest)
         \/ Head(Top.todo) = "nest" /\ Len(frames) < MaxDepth /\ EnterRunLoop(rest)
         \/ Head(Top.todo) = "nest" /\ Len(frames) = MaxDepth /\ frames' = rest /\ UNCHANGED pump
  /\ UNCHANGED <<sel, queues, shut, incoming, work, delayed, pending, poster, posts, clock>>

(* DoDelayedWork and UpdateDelayedWorkFromDelegate. *)
DueBy(q, t) == {d \in delayed[q] : d <= t}
DoDelayedWork ==
  /\ frames # <<>> /\ Top.pc = "delayed"
  /\ LET ready == {q \in queues : DueBy(q, clock) # {}}
         next  == UNION {delayed[q] \ DueBy(q, clock) : q \in queues}
     IN  /\ incoming' = [q \in Queues |-> IF q \in ready THEN incoming[q] \o [i \in 1..Cardinality(DueBy(q, clock)) |-> "plain"]
                                          ELSE incoming[q]]
         /\ delayed' = [q \in Queues |-> IF q \in ready THEN delayed[q] \ DueBy(q, clock) ELSE delayed[q]]
         /\ sel' = FoldSet(LAMBDA q, s : SetQueueHasWork(s, q, TRUE), sel, ready)
         /\ pump' = [pump EXCEPT !.deadline = Earlier(@, next)]
         /\ Goto(IF ready # {} THEN AtTop ELSE [AtTop EXCEPT !.pc = "idle", !.now = clock])
  /\ UNCHANGED <<queues, shut, work, pending, poster, posts, clock>>

(* DoIdleWork does nothing.  Then: quit, more work, or a wait. *)
ConsumeWorkScheduled ==
  /\ frames # <<>> /\ Top.pc = "idle" /\ IsRunLoopActive
  /\ pump' = [pump EXCEPT !.scheduled = FALSE]
  /\ Goto(IF pump.scheduled THEN AtTop ELSE [Top EXCEPT !.pc = "deadline"])
  /\ UNCHANGED <<sel, queues, shut, incoming, work, delayed, pending, poster, posts, clock>>

GetDelayedRunTime ==
  /\ frames # <<>> /\ Top.pc = "deadline"
  /\ LET expired == pump.deadline # 0 /\ pump.deadline <= Top.now
     IN  /\ pump' = IF expired THEN [pump EXCEPT !.deadline = 0] ELSE pump
         /\ Goto(IF expired THEN AtTop ELSE [Top EXCEPT !.pc = "reset", !.until = pump.deadline])
  /\ UNCHANGED <<sel, queues, shut, incoming, work, delayed, pending, poster, posts, clock>>

ResetWakeUpEvent ==
  /\ frames # <<>> /\ Top.pc = "reset"
  /\ pump' = [pump EXCEPT !.signalled = FALSE]
  /\ Goto([Top EXCEPT !.pc = "recheck"])
  /\ UNCHANGED <<sel, queues, shut, incoming, work, delayed, pending, poster, posts, clock>>

(* The wait is as long as the deadline was ahead of the clock when             *)
(* DoDelayedWork looked at it (recent_now), so it ends later than the deadline *)
(* by the time that has passed since.                                          *)
Waiting ==
  [Top EXCEPT !.pc = "wait", !.late = clock - Top.now, !.until = IF @ = 0 THEN 0 ELSE clock + (@ - Top.now)]

(* The check between Reset and the wait; the mutant leaves it out. *)
RecheckNothing ==
  /\ frames # <<>> /\ Top.pc = "recheck"
  /\ Goto(Waiting)
  /\ UNCHANGED <<sel, queues, shut, incoming, work, delayed, pending, pump, poster, posts, clock>>

Recheck ==
  /\ frames # <<>> /\ Top.pc = "recheck"
  /\ pump' = [pump EXCEPT !.scheduled = FALSE]
  /\ Goto(IF pump.scheduled THEN AtTop ELSE Waiting)
  /\ UNCHANGED <<sel, queues, shut, incoming, work, delayed, pending, poster, posts, clock>>

(* Wait or TimedWait: woken, or timed out. *)
WakeUp ==
  /\ frames # <<>> /\ Top.pc = "wait"
  /\ \/ pump.signalled /\ UNCHANGED pump
     \/ /\ ~pump.signalled /\ Top.until # 0 /\ clock >= Top.until
        /\ pump' = IF pump.deadline # 0 /\ pump.deadline <= clock THEN [pump EXCEPT !.deadline = 0] ELSE pump
  /\ Goto(AtTop)
  /\ UNCHANGED <<sel, queues, shut, incoming, work, delayed, pending, poster, posts, clock>>

Tick ==
  /\ clock < MaxDue /\ clock' = clock + 1
  /\ UNCHANGED <<sel, queues, shut, incoming, work, delayed, pending, pump, frames, poster, posts>>

PumpStep ==
  \/ ExitRunLoop \/ BeginWork \/ TakeBatch \/ SelectTask \/ RunTask \/ DoDelayedWork
  \/ ConsumeWorkScheduled \/ GetDelayedRunTime \/ ResetWakeUpEvent \/ Recheck \/ WakeUp

Next ==
  \/ PumpStep \/ Run \/ Shutdown \/ ShutdownQueue \/ Tick
  \/ \E q \in Queues : CreateTaskQueueLocked(q)
  \/ \E p \in Posters :
       \/ \E q \in Queues, k \in Kinds : PushImmediateTask(p, q, k)
       \/ \E q \in Queues, d \in 1..(MaxDue + 1) : PushDelayedTask(p, q, d)
       \/ OnTaskPosted(p) \/ ExchangePending(p) \/ PeekNextDelayedRunTime(p) \/ ScheduleWorkAndDelayedWork(p)
       \/ RequestQuitInnermostRun(p) \/ Signal(p)

Spec == Init /\ [][Next]_managerVars

----------------------------------------------------------------------------
TypeOK ==
  /\ queues \subseteq Queues /\ sel.active \subseteq Levels
  /\ pump.depth = Len(frames) /\ pump.quit \in 0..MaxDepth
  /\ \A l \in Levels : sel.used[l] \in 0..Quota[l]

(* The pump sleeps and nobody is about to wake it. *)
Asleep ==
  /\ frames # <<>> /\ Top.pc = "wait" /\ ~pump.signalled
  /\ \A p \in Posters : poster[p].pc = "idle"

(* No lost wake-up: a sleeping pump has no immediate task to run, other than   *)
(* tasks the selector cannot see behind its round-robin index, and in the      *)
(* levels whose round cannot end because of those (NeverSleepsOnWork).         *)
NoWork == \A q \in queues : incoming[q] \o work[q] = <<>>
SleepsWithoutWork == Asleep /\ ~shut.done => NoWork \/ (\E l \in Levels : Hidden(sel, l))

(* Without the exception: "No ready queue found (should not happen if          *)
(* work_mask != 0)" (task_queue_selector.cpp:205).  It happens when all the    *)
(* queues with work are before the round-robin index: the mask is rotated in   *)
(* its word of 64 bits, so their bits go to the top of the word and not behind *)
(* the last queue, and the pump goes to sleep beside their tasks.              *)
NeverSleepsOnWork == Asleep /\ ~shut.done => NoWork

(* The pump's wait ends no later than the run time of any delayed task and the *)
(* time it took from its look at the clock to the wait.                        *)
SleepsUntilDue ==
  Asleep /\ ~shut.done => \A q \in queues : \A d \in delayed[q] : Top.until # 0 /\ Top.until <= d + Top.late

(* A loop ends only when a Quit found it innermost: quitting a nested loop     *)
(* leaves the outer ones running (run_loop.h).                                 *)
OnlyAskedLoopsEnd == frames # <<>> /\ ~IsRunLoopActive => Top.asked

(* The selector's masks agree with each other: a level is active exactly when  *)
(* one of its queues has work.                                                 *)
ActiveLevels == sel.active = {l \in Levels : sel.mask[l] # {}}
=============================================================================
