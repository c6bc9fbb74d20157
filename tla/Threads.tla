------------------------------- MODULE Threads -------------------------------
(***************************************************************************)
(* Threads (src/neixx/threading and common): a thread with a run loop,     *)
(* thread-local slots, and the callbacks of the process's exit.            *)
(***************************************************************************)
EXTENDS Sequences, Integers, FiniteSets, SequencesExt

-----------------------------------------------------------------------------
(***************************************************************************)
(* nei::Thread (thread.cpp): an OS thread with a task loop, started and    *)
(* stopped by callers of another thread.  Start waits on an event of its   *)
(* own stack for the new thread's first steps; Stop gives up started_,     *)
(* posts the task that quits the loop, joins, and only then clears the     *)
(* rest.  Every locked section is one step; between them the other callers *)
(* and the OS thread run.                                                  *)
(***************************************************************************)
CONSTANTS Callers,      \* threads that post tasks
          Owners,       \* those of them that call Start and Stop
          MaxStarts,    \* bound on the OS threads created
          MaxTasks      \* bound on the tasks posted

VARIABLES object,       \* the members of the Thread object
          os,           \* the OS threads, with the queue of each one's loop
          call,         \* where each caller is inside Start or Stop
          signalled,    \* callers whose start_event was signalled
          created, posted, \* how many OS threads and tasks there were
          ran           \* the tasks that ran

threadVars == <<object, os, call, signalled, created, posted, ran>>

OsThreads == 1..MaxStarts
Quit == 0                       \* the task that Stop posts
Outside == [pc |-> "outside", runner |-> 0, owed |-> {}]

Init == /\ object = [started |-> FALSE, running |-> FALSE, start_succeeded |-> FALSE,
                     start_event |-> 0, task_runner |-> 0, handle |-> 0]
        /\ os = [g \in OsThreads |-> [pc |-> "none", event |-> 0, queue |-> <<>>]]
        /\ call = [c \in Callers |-> Outside]
        /\ signalled = {} /\ created = 0 /\ posted = 0 /\ ran = {}

Goes(c, pc) == call' = [call EXCEPT ![c].pc = pc]

(* A second Start finds started_ and returns false. *)
Start(c) ==
    /\ c \in Owners /\ call[c] = Outside /\ ~object.started /\ created < MaxStarts
    /\ object' = [object EXCEPT !.started = TRUE, !.running = FALSE,
                                !.start_succeeded = FALSE, !.start_event = c]
    /\ signalled' = signalled \ {c}
    /\ Goes(c, "create")
    /\ UNCHANGED <<os, created, posted, ran>>

CreateWithType(c) ==
    /\ call[c].pc = "create" /\ created < MaxStarts
    /\ created' = created + 1
    /\ os' = [os EXCEPT ![created'].pc = "created"]
    /\ object' = [object EXCEPT !.handle = created']
    /\ Goes(c, "wait")
    /\ UNCHANGED <<signalled, posted, ran>>

CreateFails(c) ==
    /\ call[c].pc = "create"
    /\ object' = [object EXCEPT !.start_event = 0, !.started = FALSE]
    /\ call' = [call EXCEPT ![c] = Outside]
    /\ UNCHANGED <<os, signalled, created, posted, ran>>

(* The pump and the sequence manager are built before the lock is taken. *)
ThreadMain(g) ==
    /\ os[g].pc = "created"
    /\ object' = [object EXCEPT !.task_runner = g, !.start_succeeded = TRUE, !.running = TRUE]
    /\ os' = [os EXCEPT ![g].pc = "ready", ![g].event = object.start_event]
    /\ UNCHANGED <<call, signalled, created, posted, ran>>

Signal(g) ==
    /\ os[g].pc = "ready"
    /\ signalled' = IF os[g].event = 0 THEN signalled ELSE signalled \cup {os[g].event}
    /\ os' = [os EXCEPT ![g].pc = "loop"]
    /\ UNCHANGED <<object, call, created, posted, ran>>

Started(c) ==
    /\ call[c].pc = "wait" /\ c \in signalled
    /\ object' = [object EXCEPT !.start_event = 0]
    /\ IF object.start_succeeded THEN call' = [call EXCEPT ![c] = Outside]
                                 ELSE Goes(c, "undo")
    /\ UNCHANGED <<os, signalled, created, posted, ran>>

Joined(g) == g = 0 \/ os[g].pc = "ended"

(* GetTaskRunner and PostTask: the loop takes tasks until it has gone. *)
PostTask(c) ==
    /\ call[c] = Outside /\ posted < MaxTasks /\ object.task_runner # 0
    /\ posted' = posted + 1
    /\ os' = [os EXCEPT ![object.task_runner].queue = Append(@, posted')]
    /\ UNCHANGED <<object, call, signalled, created, ran>>

Queued == {t \in 1..MaxTasks : \E g \in OsThreads : \E i \in DOMAIN os[g].queue :
                                   os[g].queue[i] = t}

(* A Stop without a Start returns at once. *)
Stop(c) ==
    /\ c \in Owners /\ call[c] = Outside /\ object.started
    /\ object' = [object EXCEPT !.started = FALSE]
    /\ call' = [call EXCEPT ![c] = [pc |-> "post", runner |-> object.task_runner,
                                    owed |-> Queued]]
    /\ UNCHANGED <<os, signalled, created, posted, ran>>

Posts(queue) == Append(queue, Quit)

PostQuit(c) ==
    /\ call[c].pc = "post"
    /\ os' = IF call[c].runner = 0 THEN os
             ELSE [os EXCEPT ![call[c].runner].queue = Posts(@)]
    /\ Goes(c, "join")
    /\ UNCHANGED <<object, signalled, created, posted, ran>>

(* Stop's join, and that of a Start whose thread did not succeed. *)
Join(c) ==
    /\ call[c].pc \in {"join", "undo"} /\ Joined(object.handle)
    /\ object' = [object EXCEPT !.handle = 0, !.started = @ /\ call[c].pc = "join"]
    /\ call' = [call EXCEPT ![c] = IF @.pc = "undo" THEN Outside ELSE [@ EXCEPT !.pc = "clear"]]
    /\ UNCHANGED <<os, signalled, created, posted, ran>>

StopReturns(c) ==
    /\ call[c].pc = "clear"
    /\ object' = [object EXCEPT !.task_runner = 0, !.running = FALSE,
                                !.start_succeeded = FALSE, !.start_event = 0]
    /\ call' = [call EXCEPT ![c] = Outside]
    /\ UNCHANGED <<os, signalled, created, posted, ran>>

RunTask(g) ==
    /\ os[g].pc = "loop" /\ os[g].queue # <<>>
    /\ os' = [os EXCEPT ![g].queue = Tail(@),
                        ![g].pc = IF Head(os[g].queue) = Quit THEN "quit" ELSE "loop"]
    /\ ran' = ran \cup ({Head(os[g].queue)} \ {Quit})
    /\ UNCHANGED <<object, call, signalled, created, posted>>

(* What is still queued goes with the sequence manager. *)
LoopEnds(g) ==
    /\ os[g].pc = "quit"
    /\ object' = [object EXCEPT !.task_runner = 0, !.running = FALSE]
    /\ os' = [os EXCEPT ![g].pc = "ended", ![g].queue = <<>>]
    /\ UNCHANGED <<call, signalled, created, posted, ran>>

Next == \/ \E c \in Callers :
              \/ Start(c) \/ CreateWithType(c) \/ CreateFails(c) \/ Started(c)
              \/ PostTask(c) \/ Stop(c) \/ PostQuit(c) \/ Join(c)
              \/ StopReturns(c)
        \/ \E g \in OsThreads : ThreadMain(g) \/ Signal(g) \/ RunTask(g) \/ LoopEnds(g)

Spec == Init /\ [][Next]_threadVars

TypeOK ==
    /\ object \in [started : BOOLEAN, running : BOOLEAN, start_succeeded : BOOLEAN,
                   start_event : Callers \cup {0}, task_runner : 0..MaxStarts,
                   handle : 0..MaxStarts]
    /\ \A g \in OsThreads :
          /\ os[g].pc \in {"none", "created", "ready", "loop", "quit", "ended"}
          /\ os[g].queue \in Seq(0..MaxTasks)
    /\ \A c \in Callers : call[c].pc \in {"outside", "create", "wait", "undo", "post",
                                          "join", "clear"}
    /\ signalled \subseteq Callers /\ ran \subseteq 1..MaxTasks

Live(g) == os[g].pc \notin {"none", "ended"}

(***************************************************************************)
(* thread.cpp, StartWithOptions, Stop and ThreadMain with one owner: while *)
(* no call is under way an OS thread lives exactly when started_ says so   *)
(* and IsRunning agrees; a Stop that waits is waiting for a thread that    *)
(* will quit; and when Stop returns, every task queued when it was called  *)
(* has run.                                                                *)
(***************************************************************************)
StopsCleanly ==
    /\ (\A c \in Callers : call[c] = Outside) =>
          /\ object.started <=> \E g \in OsThreads : Live(g)
          /\ object.running <=> object.started
    /\ \A c \in Callers : call[c].pc = "join" /\ object.handle # 0 =>
          LET g == os[object.handle]
          IN  g.pc \in {"quit", "ended"} \/ \E i \in DOMAIN g.queue : g.queue[i] = Quit
    /\ \A c \in Callers : call[c].pc = "clear" => call[c].owed \subseteq ran

-----------------------------------------------------------------------------
(***************************************************************************)
(* Thread-local slots (tls_slot.cpp): a table of slot states and           *)
(* destructors shared by all threads, claimed with a compare-and-swap and  *)
(* recycled, and one vector of values per thread behind one platform key.  *)
(* ThreadLocalPointer, ThreadLocalOwnedPointer, ThreadLocalBoolean and     *)
(* ThreadLocalStorage::Slot (thread_local.h, thread_local_storage.cpp) are *)
(* the owners of slots.  A value is <<owner, thread, round>>: what a       *)
(* thread stored through an owner, round 2 from a destructor at exit.      *)
(* Workers are the threads that may exit; LongLived the owners whose slots *)
(* are allocated as long-lived.                                            *)
(***************************************************************************)
CONSTANTS Threads, Workers, SlotOwners, LongLived, MaxSlots, Rounds

VARIABLES
  slot_states,       \* index -> "free", "used", "long"
  slot_destructors,  \* index -> the owner whose destructor function is stored, 0 none
  index,             \* owner -> its index; 0: not made or freed
  slotCall,              \* thread -> the AllocateSlot or FreeSlot it is in
  values,            \* thread -> index -> value
  exit,              \* thread -> its OnThreadExit
  made, freedBy,     \* history: owners created; owner -> the thread that freed it, 0 not freed
  seen,              \* history: <<owner, thread, value>> of the last Get
  destroyed          \* history: thread -> <<value, by, long>> in the order of destruction

Indices == 1..MaxSlots
None == <<>>

slotVars == <<slot_states, slot_destructors, index, slotCall, values, exit, made, freedBy, seen, destroyed>>

Idle == [op |-> "none", o |-> 0, i |-> 0, long |-> FALSE]
Alive == [round |-> 0, pass |-> 0, i |-> 0, left |-> None]

SlotInit ==
  /\ slot_states = [i \in Indices |-> "free"] /\ slot_destructors = [i \in Indices |-> 0]
  /\ index = [o \in SlotOwners |-> 0] /\ slotCall = [t \in Threads |-> Idle]
  /\ values = [t \in Threads |-> [i \in Indices |-> None]] /\ exit = [t \in Threads |-> Alive]
  /\ made = {} /\ freedBy = [o \in SlotOwners |-> 0] /\ seen = <<0, 0, None>> /\ destroyed = [t \in Threads |-> <<>>]

Runs(t) == slotCall[t].op = "none" /\ exit[t].round = 0

----------------------------------------------------------------------------
(* AllocateSlotInternal walks the table until a compare-and-swap succeeds.     *)
Allocate(t, o) ==
  /\ Runs(t) /\ o \notin made /\ made' = made \cup {o}
  /\ slotCall' = [slotCall EXCEPT ![t] = [op |-> "claims", o |-> o, i |-> 1, long |-> o \in LongLived]]
  /\ UNCHANGED <<slot_states, slot_destructors, index, values, exit, freedBy, seen, destroyed>>

Exchanges(t, i) == slot_states[i] = "free"
Claim(t) ==
  /\ slotCall[t].op = "claims"
  /\ LET i == slotCall[t].i IN
     IF i > MaxSlots THEN slotCall' = [slotCall EXCEPT ![t] = Idle] /\ UNCHANGED slot_states      \* -1
     ELSE IF Exchanges(t, i)
     THEN /\ slot_states' = [slot_states EXCEPT ![i] = IF slotCall[t].long THEN "long" ELSE "used"]
          /\ slotCall' = [slotCall EXCEPT ![t].op = "stores"]
     ELSE slotCall' = [slotCall EXCEPT ![t].i = i + 1] /\ UNCHANGED slot_states
  /\ UNCHANGED <<slot_destructors, index, values, exit, made, freedBy, seen, destroyed>>
StoreDestructor(t) ==
  /\ slotCall[t].op = "stores"
  /\ LET c == slotCall[t] IN
     /\ slot_destructors' = [slot_destructors EXCEPT ![c.i] = c.o] /\ index' = [index EXCEPT ![c.o] = c.i]
     /\ values' = [values EXCEPT ![t][c.i] = None]
  /\ slotCall' = [slotCall EXCEPT ![t] = Idle]
  /\ UNCHANGED <<slot_states, exit, made, freedBy, seen, destroyed>>

(* FreeSlot, called by the owner's destructor: nobody uses the owner any       *)
(* more. It clears the value of the calling thread only.                       *)
ClearsOwn(t, i) == [values EXCEPT ![t][i] = None]
FreeSlot(t, o) ==
  /\ Runs(t) /\ index[o] # 0 /\ index' = [index EXCEPT ![o] = 0] /\ freedBy' = [freedBy EXCEPT ![o] = t]
  /\ values' = ClearsOwn(t, index[o]) /\ slot_destructors' = [slot_destructors EXCEPT ![index[o]] = 0]
  /\ slotCall' = [slotCall EXCEPT ![t] = [Idle EXCEPT !.op = "frees", !.i = index[o]]]
  /\ UNCHANGED <<slot_states, exit, made, seen, destroyed>>
MarkFree(t) ==
  /\ slotCall[t].op = "frees" /\ slot_states' = [slot_states EXCEPT ![slotCall[t].i] = "free"] /\ slotCall' = [slotCall EXCEPT ![t] = Idle]
  /\ UNCHANGED <<slot_destructors, index, values, exit, made, freedBy, seen, destroyed>>

(* InternalSetSlotValue, InternalGetSlotValue. *)
Set(t, o) ==
  /\ Runs(t) /\ index[o] # 0 /\ values' = [values EXCEPT ![t][index[o]] = <<o, t, 1>>]
  /\ UNCHANGED <<slot_states, slot_destructors, index, slotCall, exit, made, freedBy, seen, destroyed>>
Get(t, o) ==
  /\ Runs(t) /\ index[o] # 0 /\ seen' = <<o, t, values[t][index[o]]>>
  /\ UNCHANGED <<slot_states, slot_destructors, index, slotCall, values, exit, made, freedBy, destroyed>>

----------------------------------------------------------------------------
(* The platform calls OnThreadExit with the storage, having cleared the key,   *)
(* and again while a destructor stores something into new storage.             *)
HasStorage(t) == \E i \in Indices : values[t][i] # None
ThreadExit(t) ==
  /\ t \in Workers /\ slotCall[t].op = "none" /\ exit[t].pass = 0 /\ exit[t].round < Rounds /\ (exit[t].round = 0 \/ HasStorage(t))
  /\ exit' = [exit EXCEPT ![t] = [round |-> @.round + 1, pass |-> 1, i |-> 1, left |-> values[t]]]
  /\ values' = [values EXCEPT ![t] = [i \in Indices |-> None]]
  /\ UNCHANGED <<slot_states, slot_destructors, index, slotCall, made, freedBy, seen, destroyed>>

(* One index of a pass: a destructor may Set another owner's slot. *)
Destroys(state, pass) == state = (IF pass = 1 THEN "used" ELSE "long")
TakesOut(t, i) == [exit[t].left EXCEPT ![i] = None]
OnThreadExit(t, sets) ==
  /\ exit[t].pass \in {1, 2}
  /\ LET e == exit[t]
         dies == Destroys(slot_states[e.i], e.pass) /\ e.left[e.i] # None
         left == IF dies THEN TakesOut(t, e.i) ELSE e.left
         calls == dies /\ slot_destructors[e.i] # 0
     IN /\ exit' = [exit EXCEPT ![t] =
              IF e.i < MaxSlots THEN [e EXCEPT !.i = e.i + 1, !.left = left]
              ELSE IF e.pass = 1 THEN [e EXCEPT !.pass = 2, !.i = 1, !.left = left]
              ELSE [e EXCEPT !.pass = 0, !.i = 0, !.left = None]]
        /\ destroyed' = IF calls THEN [destroyed EXCEPT ![t] = Append(@, <<e.left[e.i], slot_destructors[e.i], e.pass = 2>>)] ELSE destroyed
        /\ (sets # 0 => calls /\ index[sets] # 0 /\ e.round = 1)
        /\ values' = IF sets # 0 THEN [values EXCEPT ![t][index[sets]] = <<sets, t, 2>>] ELSE values
  /\ UNCHANGED <<slot_states, slot_destructors, index, slotCall, made, freedBy, seen>>

SlotNext ==
  \E t \in Threads :
    \/ Claim(t) \/ StoreDestructor(t) \/ MarkFree(t) \/ ThreadExit(t)
    \/ \E o \in SlotOwners : Allocate(t, o) \/ FreeSlot(t, o) \/ Set(t, o) \/ Get(t, o)
    \/ \E sets \in SlotOwners \cup {0} : OnThreadExit(t, sets)

SlotSpec == SlotInit /\ [][SlotNext]_slotVars

----------------------------------------------------------------------------
SlotTypeOK ==
  /\ slot_states \in [Indices -> {"free", "used", "long"}] /\ slot_destructors \in [Indices -> SlotOwners \cup {0}]
  /\ index \in [SlotOwners -> 0..MaxSlots] /\ freedBy \in [SlotOwners -> Threads \cup {0}]

(* However claims, frees and exits cross: two live owners never share a slot,  *)
(* so a thread reads through an owner what it stored through it, or, only      *)
(* where a recycled slot's last owner was freed by another thread, what it     *)
(* stored through that one; and no value is destroyed twice.                   *)
SlotsAreSeparate ==
  /\ seen[3] # None => seen[3][2] = seen[2] /\ (seen[3][1] = seen[1] \/ freedBy[seen[3][1]] \notin {0, seen[2]})
  /\ \A t \in Threads : \A j, k \in DOMAIN destroyed[t] : destroyed[t][j][1] = destroyed[t][k][1] => j = k

(* Violated: "a recycled slot index would observe stale data": it does on      *)
(* every thread but the one that freed and the one that allocated.             *)
NothingStale == seen[3] # None => seen[3][1] = seen[1]

(* Violated: a value left by a freed owner is destroyed by the next owner's    *)
(* destructor.                                                                 *)
DestroyedByItsOwner == \A t \in Threads : \A j \in DOMAIN destroyed[t] : destroyed[t][j][1][1] = destroyed[t][j][2]

(* Violated: "destroy long-lived slots (e.g. logging) last": what a destructor *)
(* stores is destroyed in a later round, after the long-lived values.          *)
LongLivedLast == \A t \in Threads : \A j, k \in DOMAIN destroyed[t] : j < k /\ destroyed[t][j][3] => destroyed[t][k][3]

-----------------------------------------------------------------------------
(***************************************************************************)
(* AtExitManager (at_exit.cpp) and the Singleton template (singleton.h)    *)
(* that registers with it: callbacks registered from any thread, drained   *)
(* last in first out by the destructor or by an explicit                   *)
(* ProcessCallbacksNow, a callback that registers another, and the         *)
(* double-checked creation of one singleton whose callback deletes it.     *)
(* Callback 0 is the singleton's; the others are numbered as registered.   *)
(***************************************************************************)
CONSTANTS ExitThreads, MaxCallbacks

VARIABLES
  manager,    \* g_top_manager_: "live" or "none"
  stack,      \* stack_
  local,      \* thread -> local_stack of its ProcessCallbacksNow
  closing,    \* the destructor: "no", "drains", "done"
  instance,   \* instance_: "null", "live", "deleted"
  getting,    \* thread -> "no", "waits" (saw null), "made" (holds lock_, not yet published), "has"
  exitMade,       \* history: calls of Traits::New
  drained,    \* history: the stacks that drains took
  exitRan,        \* history: callbacks in the order they ran
  got,        \* history: what GetInstance last returned
  processed   \* history: a ProcessCallbacksNow returned; and a callback was accepted after one: {"returned", "accepted"}

exitVars == <<manager, stack, local, closing, instance, getting, exitMade, drained, exitRan, got, processed>>

ExitInit ==
  /\ manager = "live" /\ stack = <<>> /\ local = [t \in ExitThreads |-> <<>>] /\ closing = "no"
  /\ instance = "null" /\ getting = [t \in ExitThreads |-> "no"] /\ exitMade = 0
  /\ drained = <<>> /\ exitRan = <<>> /\ got = "null" /\ processed = {}

Registered == Len(stack) + FoldSeq(LAMBDA s, n : n + Len(s), 0, drained)

----------------------------------------------------------------------------
(* RegisterCallback. *)
Push(id) ==
  /\ stack' = IF manager = "live" THEN Append(stack, id) ELSE stack
  /\ processed' = IF manager = "live" /\ "returned" \in processed THEN processed \cup {"accepted"} ELSE processed

RegisterCallback(t) ==
  /\ Registered < MaxCallbacks /\ local[t] = <<>> /\ getting[t] \in {"no", "has"} /\ Push(Registered + 1)
  /\ UNCHANGED <<manager, local, closing, instance, getting, exitMade, drained, exitRan, got>>

(* ProcessCallbacksNow: the stack is taken under the lock. *)
Emptied == <<>>
Take(t) ==
  /\ local[t] = <<>> /\ manager = "live" /\ local' = [local EXCEPT ![t] = stack] /\ stack' = Emptied /\ drained' = Append(drained, stack)
ProcessCallbacksNow(t) ==
  /\ stack # <<>> /\ Len(drained) < MaxCallbacks /\ getting[t] \in {"no", "has"} /\ Take(t)
  /\ UNCHANGED <<manager, closing, instance, getting, exitMade, exitRan, got, processed>>

(* ~AtExitManager, in main's thread. *)
Destroy(t) ==
  /\ t = 1 /\ closing = "no" /\ getting[t] \in {"no", "has"} /\ Take(t) /\ closing' = "drains"
  /\ UNCHANGED <<manager, instance, getting, exitMade, exitRan, got, processed>>
Unregister ==
  /\ closing = "drains" /\ local[1] = <<>> /\ closing' = "done" /\ manager' = "none"
  /\ UNCHANGED <<stack, local, instance, getting, exitMade, drained, exitRan, got, processed>>

(* The next callback of a drain, from the back; it may register another. *)
NextOf(s) == s[Len(s)]
RunCallback(t, registers) ==
  /\ local[t] # <<>> /\ (registers => Registered < MaxCallbacks)
  /\ LET id == NextOf(local[t])
         left == SelectSeq(local[t], LAMBDA x : x # id)
     IN /\ exitRan' = Append(exitRan, id) /\ local' = [local EXCEPT ![t] = left]
        /\ instance' = IF id = 0 /\ instance = "live" THEN "deleted" ELSE instance
        /\ IF registers THEN Push(Registered + 1)
           ELSE processed' = (IF left = <<>> /\ closing = "no" THEN processed \cup {"returned"} ELSE processed) /\ UNCHANGED stack
  /\ UNCHANGED <<manager, closing, getting, exitMade, drained, got>>

----------------------------------------------------------------------------
(* GetInstance. *)
GetInstance(t) ==
  /\ getting[t] \in {"no", "has"} /\ local[t] = <<>>
  /\ getting' = [getting EXCEPT ![t] = IF instance = "null" THEN "waits" ELSE "has"] /\ got' = instance
  /\ UNCHANGED <<manager, stack, local, closing, instance, exitMade, drained, exitRan, processed>>

(* Under lock_: look again, make it, register its callback - the process       *)
(* stops when no manager takes it - and publish.                               *)
Makes == instance = "null"
Create(t) ==
  /\ getting[t] = "waits" /\ (\A u \in ExitThreads : getting[u] # "made") /\ manager = "live"
  /\ IF Makes THEN exitMade' = exitMade + 1 /\ Push(0) /\ getting' = [getting EXCEPT ![t] = "made"] /\ UNCHANGED got
     ELSE getting' = [getting EXCEPT ![t] = "has"] /\ got' = instance /\ UNCHANGED <<exitMade, stack, processed>>
  /\ UNCHANGED <<manager, local, closing, instance, drained, exitRan>>
Publish(t) ==
  /\ getting[t] = "made" /\ instance' = "live" /\ got' = "live" /\ getting' = [getting EXCEPT ![t] = "has"]
  /\ UNCHANGED <<manager, stack, local, closing, exitMade, drained, exitRan, processed>>

ExitNext ==
  \/ \E t \in ExitThreads : \/ RegisterCallback(t) \/ ProcessCallbacksNow(t) \/ Destroy(t) \/ GetInstance(t) \/ Create(t) \/ Publish(t)
                        \/ \E registers \in BOOLEAN : RunCallback(t, registers)
  \/ Unregister

ExitSpec == ExitInit /\ [][ExitNext]_exitVars

----------------------------------------------------------------------------
ExitTypeOK == instance \in {"null", "live", "deleted"} /\ Len(stack) <= MaxCallbacks + 1

At(s, x) == CHOOSE i \in DOMAIN s : s[i] = x

(* However registrations, drains of two threads and the destructor cross: no   *)
(* callback runs twice, those taken together run in reverse order of their     *)
(* registration, and there is one instance.                                    *)
ExitInOrder ==
  /\ IsInjective(exitRan) /\ exitMade <= 1
  /\ \A d \in DOMAIN drained : \A i, j \in DOMAIN drained[d] :
       i < j /\ drained[d][i] \in Range(exitRan) => drained[d][j] \in Range(exitRan) /\ At(exitRan, drained[d][j]) < At(exitRan, drained[d][i])

(* Violated: "subsequent RegisterCallback() calls will fail until a new        *)
(* AtExitManager is created": they are accepted as before.                     *)
ClosedAfterProcess == "accepted" \notin processed

(* Violated: "guaranteed to execute": what a callback of the last drain        *)
(* registers, or another thread before the manager unregisters, is accepted    *)
(* and never runs.                                                             *)
AcceptedRuns == closing = "done" => stack = <<>>

(* Violated: after its callback ran GetInstance returns the deleted instance.  *)
GotIsAlive == got # "deleted"
=============================================================================
