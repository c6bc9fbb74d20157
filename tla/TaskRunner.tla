----------------------------- MODULE TaskRunner ------------------------------
(***************************************************************************)
(* Tasks on their way to a sequence (src/neixx/task): runners and bound    *)
(* replies, callbacks and cancellation, and the checker of sequences.      *)
(***************************************************************************)
EXTENDS Integers, Sequences, SequencesExt, FiniteSets

-----------------------------------------------------------------------------
(***************************************************************************)
(* Task runners seen from the caller (task_runner.cpp, bind_post_task.h,   *)
(* pooled_task_queue.cpp): a post through the weak pointer of a queue,     *)
(* PostTaskAndReply, PostTaskAndReplyWithResult and BindPostTask, whose    *)
(* trampoline brings a callback - or, when it is dropped, its destruction  *)
(* - back to the thread it belongs to.  "home" is the thread with a        *)
(* SequenceManager that asks; the pool's workers run the tasks; "other" is *)
(* any thread without a manager.  A callback is its number, and a closure  *)
(* is what it does with that callback when it runs or is destroyed.        *)
(***************************************************************************)
CONSTANTS Callbacks, Modes, Workers, MaxRuns   \* MaxRuns: calls of a repeating callback

VARIABLES
  runs,      \* how the pool's queue is run: "sequenced" or "parallel"
  up,        \* the queue is alive behind the runner's weak pointer
  rqueue,    \* closures posted to each runner
  later,     \* closures waiting for their time
  working,   \* the closure each worker runs
  flavour,   \* what was asked for each callback
  fate,      \* "unused", "live", "ran", or the thread that destroyed it
  again,     \* runs of a repeating callback
  posted, replied   \* history: order of the requests, and of the replies

runnerVars == <<runs, up, rqueue, later, working, flavour, fate, again, posted, replied>>

Runners == {"home", "pool"}
Flavours == {"reply", "result", "bound", "repeating"}
Threads == {"home", "other"} \cup Workers
Idle == [op |-> "idle", id |-> 0]
C(op, id) == [op |-> op, id |-> id]

Init ==
  /\ runs \in Modes /\ up = [r \in Runners |-> TRUE] /\ rqueue = [r \in Runners |-> <<>>] /\ later = {}
  /\ working = [w \in Workers |-> Idle]
  /\ flavour \in [Callbacks -> Flavours] /\ fate = [c \in Callbacks |-> "unused"] /\ again = 0
  /\ posted = <<>> /\ replied = <<>>

----------------------------------------------------------------------------
(* A post that finds the weak pointer expired destroys the closure where it    *)
(* is.  s: [q, fate].                                                          *)
Dies(s, id, t) == [s EXCEPT !.fate[id] = t]

PushTaskToSequencedQueue(s, c, t) ==
  IF up["home"] THEN [s EXCEPT !.q["home"] = Append(@, c)]
  ELSE IF c.op = "again" THEN s ELSE Dies(s, c.id, t)

(* ~BindPostTaskTrampoline. *)
Trampoline(s, id, t) == IF t = "home" THEN Dies(s, id, t) ELSE PushTaskToSequencedQueue(s, C("destroy", id), t)

(* BindPostTaskTrampoline::Run *)
Run(s, id, t) == PushTaskToSequencedQueue(s, C("reply", id), t)

PushPooledTaskToQueue(s, c, t) ==
  IF up["pool"] THEN [s EXCEPT !.q["pool"] = Append(@, c)] ELSE Trampoline(s, c.id, t)

S == [q |-> rqueue, fate |-> fate]
Becomes(s) == rqueue' = s.q /\ fate' = s.fate

----------------------------------------------------------------------------
(* PostTaskAndReply and PostTaskAndReplyWithResult, from home.                 *)
PostTaskAndReply(c) ==
  /\ fate[c] = "unused" /\ flavour[c] \in {"reply", "result"}
  /\ Becomes(PushPooledTaskToQueue([S EXCEPT !.fate[c] = "live"], C(flavour[c], c), "home"))
  /\ posted' = Append(posted, c) /\ UNCHANGED <<runs, up, later, working, flavour, again, replied>>

(* The same from a thread without a manager: nothing to reply to.              *)
PostWithoutHandle(c) ==
  /\ fate[c] = "unused" /\ flavour[c] \in {"reply", "result"} /\ fate' = [fate EXCEPT ![c] = "refused"]
  /\ UNCHANGED <<runs, up, rqueue, later, working, flavour, again, posted, replied>>

(* PostDelayedTask of such a closure; a delay past the end of time makes it an *)
(* immediate task.                                                             *)
PostDelayedTask(c, overflows) ==
  /\ fate[c] = "unused" /\ flavour[c] = "reply" /\ up["pool"]
  /\ posted' = posted /\ fate' = [fate EXCEPT ![c] = "live"]
  /\ IF overflows THEN rqueue' = [rqueue EXCEPT !["pool"] = Append(@, C("late", c))] /\ UNCHANGED later
     ELSE later' = later \cup {c} /\ UNCHANGED rqueue
  /\ UNCHANGED <<runs, up, working, flavour, again, replied>>

PromoteReadyDelayedTasks(c) ==
  /\ c \in later /\ up["pool"] /\ later' = later \ {c} /\ rqueue' = [rqueue EXCEPT !["pool"] = Append(@, C("late", c))]
  /\ UNCHANGED <<runs, up, working, flavour, fate, again, posted, replied>>

(* BindPostTask, and what a thread does with the callback it was given.        *)
BindPostTask(c) ==
  /\ fate[c] = "unused" /\ flavour[c] \in {"bound", "repeating"} /\ fate' = [fate EXCEPT ![c] = "held"]
  /\ UNCHANGED <<runs, up, rqueue, later, working, flavour, again, posted, replied>>

RunBound(c, t) ==
  /\ fate[c] = "held" /\ flavour[c] = "bound" /\ Becomes(Run([S EXCEPT !.fate[c] = "live"], c, t))
  /\ UNCHANGED <<runs, up, later, working, flavour, again, posted, replied>>

RunRepeating(c, t) ==
  /\ fate[c] = "held" /\ flavour[c] = "repeating" /\ again < MaxRuns /\ again' = again + 1
  /\ Becomes(PushTaskToSequencedQueue(S, C("again", c), t))
  /\ UNCHANGED <<runs, up, later, working, flavour, posted, replied>>

DropBound(c, t) ==
  /\ fate[c] = "held" /\ Becomes(Trampoline([S EXCEPT !.fate[c] = "live"], c, t))
  /\ UNCHANGED <<runs, up, later, working, flavour, again, posted, replied>>

----------------------------------------------------------------------------
(* The workers.  A sequenced queue is taken by one of them at a time; a        *)
(* ParallelTaskSequence by as many as there are.  The mutant claims a          *)
(* sequenced queue that is in flight.                                          *)
WillRunTaskAlways == TRUE
WillRunTask == runs = "parallel" \/ \A w \in Workers : working[w] = Idle

TakeTask(w) ==
  /\ working[w] = Idle /\ rqueue["pool"] # <<>> /\ WillRunTask
  /\ working' = [working EXCEPT ![w] = Head(rqueue["pool"])] /\ rqueue' = [rqueue EXCEPT !["pool"] = Tail(@)]
  /\ UNCHANGED <<runs, up, later, flavour, fate, again, posted, replied>>

(* The task has run; the wrapped closure sends the reply.  With a result the   *)
(* reply makes two hops: to home, and through the trampoline to home again.    *)
DidProcessTask(w) ==
  /\ working[w] # Idle /\ working' = [working EXCEPT ![w] = Idle]
  /\ Becomes(IF working[w].op = "result" THEN PushTaskToSequencedQueue(S, C("hop", working[w].id), w) ELSE Run(S, working[w].id, w))
  /\ UNCHANGED <<runs, up, later, flavour, again, posted, replied>>

(* Home runs its own queue. *)
RunHome ==
  /\ rqueue["home"] # <<>>
  /\ LET c == Head(rqueue["home"])
         s == [S EXCEPT !.q["home"] = Tail(@)]
     IN /\ Becomes(CASE c.op = "hop" -> Run(s, c.id, "home")
                     [] c.op = "reply" -> Dies(s, c.id, "ran")
                     [] c.op = "destroy" -> Dies(s, c.id, "home")
                     [] c.op = "again" -> s)
        /\ replied' = IF c.op = "reply" THEN Append(replied, c.id) ELSE replied
  /\ UNCHANGED <<runs, up, later, working, flavour, again, posted>>

(* The pool's queue is shut down by t: what waits in it is destroyed there.    *)
Shutdown(t) ==
  /\ up["pool"] /\ up' = [up EXCEPT !["pool"] = FALSE] /\ later' = {}
  /\ LET gone == rqueue["pool"] \o [i \in 1..Cardinality(later) |-> C("late", SetToSeq(later)[i])]
     IN Becomes(FoldSeq(LAMBDA c, s : Trampoline(s, c.id, t), [S EXCEPT !.q["pool"] = <<>>], gone))
  /\ UNCHANGED <<runs, working, flavour, again, posted, replied>>

(* The thread that asked leaves: its manager drops what waits, on the thread.  *)
LeaveHome ==
  /\ up["home"] /\ up' = [up EXCEPT !["home"] = FALSE]
  /\ Becomes(FoldSeq(LAMBDA c, s : IF c.op = "again" THEN s ELSE Dies(s, c.id, "home"), [S EXCEPT !.q["home"] = <<>>], rqueue["home"]))
  /\ UNCHANGED <<runs, later, working, flavour, again, posted, replied>>

Next ==
  \/ \E c \in Callbacks : PostTaskAndReply(c) \/ PostWithoutHandle(c) \/ PromoteReadyDelayedTasks(c) \/ BindPostTask(c)
  \/ \E c \in Callbacks, o \in BOOLEAN : PostDelayedTask(c, o)
  \/ \E c \in Callbacks, t \in {"home", "other"} : RunBound(c, t) \/ RunRepeating(c, t) \/ DropBound(c, t)
  \/ \E w \in Workers : TakeTask(w) \/ DidProcessTask(w)
  \/ RunHome \/ LeaveHome \/ \E t \in {"home", "other"} : Shutdown(t)

Spec == Init /\ [][Next]_runnerVars

----------------------------------------------------------------------------
TypeOK == /\ fate \in [Callbacks -> {"unused", "held", "live", "ran", "refused"} \cup Threads]
          /\ \A r \in Runners : \A i \in DOMAIN rqueue[r] : rqueue[r][i].id \in Callbacks

(* A reply - and what is bound to it - runs or is destroyed on the thread that *)
(* asked, whichever thread drops the closure on the way, for as long as that   *)
(* thread's runner takes tasks.                                                *)
DiesAtHome == \A c \in Callbacks : fate[c] \in Threads \ {"home"} => ~up["home"]

(* No reply is lost on the way: one that is neither run nor destroyed is in    *)
(* exactly one queue or in the hands of one worker.                            *)
Places(c) == {<<r, i>> \in Runners \X (1..Cardinality(Callbacks) + MaxRuns) :
                 i \in DOMAIN rqueue[r] /\ rqueue[r][i].id = c /\ rqueue[r][i].op # "again"}
             \cup {<<w, 0>> : w \in {v \in Workers : working[v].id = c /\ working[v] # Idle}}
             \cup {<<"later", 0>> : x \in later \cap {c}}
OnTheWay == \A c \in Callbacks : (fate[c] = "live") = (Cardinality(Places(c)) = 1) /\ (fate[c] # "live" => Places(c) = {})

(* Replies of one flavour from a sequenced runner come in the order the tasks  *)
(* were posted.                                                                *)
RepliesInOrder ==
  runs = "sequenced" =>
    \A i, j \in DOMAIN replied : \A k, l \in DOMAIN posted :
      i < j /\ replied[i] = posted[k] /\ replied[j] = posted[l] /\ flavour[posted[k]] = flavour[posted[l]] => k < l

(* Violated: "if the reply hop cannot be posted (calling thread gone / runner  *)
(* shutdown), the reply's bound resources are destroyed on the calling         *)
(* thread": then they are destroyed on the worker.                             *)
AlwaysDiesAtHome == \A c \in Callbacks : fate[c] \notin Workers

-----------------------------------------------------------------------------
(***************************************************************************)
(* Callbacks and what keeps their bound state alive: OnceCallback and      *)
(* RepeatingCallback over reference-counted BindStates (callback.h,        *)
(* callback_internal.h, ref_counted.h), bound WeakPtrs checked before the  *)
(* call (weak_ptr.h), and CancelableOnceClosure, whose control block is    *)
(* shared by the closure and the callbacks it gave out.  Every variable    *)
(* that holds a callback has one owner thread; callbacks are handed over   *)
(* by moving or copying them.  A functor may do anything its thread may.   *)
(***************************************************************************)
CONSTANTS CallbackThreads, Slots, Owner, MaxStates, MaxFlags, CallbackMaxRuns

VARIABLES
  heap,      \* [states, impl]: BindStates [st, refs, kind, flag] and the closure's Impl [refs, task, cancelled, open]
  slots,     \* variable -> BindState it holds, 0
  factory,   \* the target's WeakPtrFactory: [flag, alive]
  flags,     \* InternalFlag -> valid, for those made so far
  running,   \* thread -> [state, once, pc, task]
  calls,     \* history: BindState -> times its functor was called
  late       \* history: threads that called a dead target; 0: a task begun after Cancel

callbackVars == <<heap, slots, factory, flags, running, calls, late>>

States == 1..MaxStates
Blank == [st |-> "none", refs |-> 0, kind |-> "none", flag |-> 0]
CallbackIdle == [state |-> 0, once |-> FALSE, pc |-> "idle", task |-> 0]

CallbackInit ==
  /\ heap = [states |-> [i \in States |-> Blank], impl |-> [refs |-> 0, task |-> 0, cancelled |-> FALSE, open |-> FALSE]]
  /\ slots = [s \in Slots |-> 0] /\ factory = [flag |-> 0, alive |-> TRUE] /\ flags = [f \in 1..MaxFlags |-> TRUE]
  /\ running = [t \in CallbackThreads |-> CallbackIdle] /\ calls = [i \in States |-> 0] /\ late = {}

----------------------------------------------------------------------------
AddRef(w, i) == [w EXCEPT !.states[i].refs = @ + 1]
Freed(w, i) == [w EXCEPT !.states[i] = [@ EXCEPT !.st = "freed", !.refs = 0]]

(* Release of the Impl: the last one takes the task with it. *)
ReleaseImpl(w) ==
  IF w.impl.refs > 1 THEN [w EXCEPT !.impl.refs = @ - 1]
  ELSE [(IF w.impl.task = 0 THEN w ELSE Freed(w, w.impl.task)) EXCEPT !.impl = [@ EXCEPT !.refs = 0, !.task = 0]]

(* Release of a BindState; one made by callback() holds the Impl. *)
Release(w, i) ==
  IF w.states[i].refs > 1 THEN [w EXCEPT !.states[i].refs = @ - 1]
  ELSE IF w.states[i].kind = "wrapper" THEN ReleaseImpl(Freed(w, i)) ELSE Freed(w, i)

(* The owner of a variable, between two steps of a functor or outside any. *)
May(t, s) == Owner[s] = t /\ running[t].pc \in {"idle", "in"}
Unmade == {i \in States : heap.states[i].st = "none"}
NewState == CHOOSE i \in Unmade : \A j \in Unmade : i <= j

----------------------------------------------------------------------------
(* BindOnce, BindRepeating, with or without a WeakPtr of the target, which     *)
(* GetWeakPtr makes a new flag for when the last was invalidated.              *)
FlagsMade == {f \in 1..MaxFlags : \E i \in States : heap.states[i].flag = f} \cup (IF factory.flag = 0 THEN {} ELSE {factory.flag})
Bind(t, s, kind, weak) ==
  LET used == IF FlagsMade = {} THEN 0 ELSE CHOOSE f \in FlagsMade : \A g \in FlagsMade : g <= f
      flag == IF ~weak THEN 0 ELSE IF factory.flag # 0 THEN factory.flag ELSE used + 1
  IN /\ May(t, s) /\ slots[s] = 0 /\ Unmade # {} /\ flag <= MaxFlags /\ (weak => t = 1 /\ factory.alive)
     /\ heap' = [heap EXCEPT !.states[NewState] = [st |-> "live", refs |-> 1, kind |-> kind, flag |-> flag]]
     /\ slots' = [slots EXCEPT ![s] = NewState] /\ factory' = IF weak THEN [factory EXCEPT !.flag = flag] ELSE factory
     /\ UNCHANGED <<flags, running, calls, late>>

MovedFrom(i) == 0
Move(t, s, d) ==
  /\ May(t, s) /\ slots[s] # 0 /\ slots[d] = 0 /\ s # d
  /\ slots' = [slots EXCEPT ![d] = slots[s], ![s] = MovedFrom(slots[s])] /\ UNCHANGED <<heap, factory, flags, running, calls, late>>
Copy(t, s, d) ==
  /\ May(t, s) /\ slots[s] # 0 /\ slots[d] = 0 /\ heap.states[slots[s]].kind = "repeating"
  /\ slots' = [slots EXCEPT ![d] = slots[s]] /\ heap' = AddRef(heap, slots[s]) /\ UNCHANGED <<factory, flags, running, calls, late>>
Drop(t, s) ==
  /\ May(t, s) /\ slots[s] # 0 /\ slots' = [slots EXCEPT ![s] = 0] /\ heap' = Release(heap, slots[s])
  /\ UNCHANGED <<factory, flags, running, calls, late>>

(* InvalidateWeakPtrs, by the target's thread; its destruction does the same. *)
Invalidate(t, destroys) ==
  /\ t = 1 /\ running[t].pc \in {"idle", "in"} /\ factory.alive /\ (factory.flag # 0 \/ destroys)
  /\ flags' = IF factory.flag = 0 THEN flags ELSE [flags EXCEPT ![factory.flag] = FALSE]
  /\ factory' = [flag |-> 0, alive |-> ~destroys] /\ UNCHANGED <<heap, slots, running, calls, late>>

----------------------------------------------------------------------------
(* Run: a OnceCallback gives its state to the invoker first.  The invoker      *)
(* skips the call when a bound WeakPtr is dead.                                *)
AllBoundArgsValid(i) == heap.states[i].flag # 0 => flags[heap.states[i].flag]
CallbackRun(t, s) ==
  LET i == slots[s]  once == heap.states[i].kind # "repeating"
  IN /\ Owner[s] = t /\ running[t].pc = "idle" /\ i # 0 /\ calls[i] < CallbackMaxRuns
     /\ slots' = IF once THEN [slots EXCEPT ![s] = 0] ELSE slots
     /\ running' = [running EXCEPT ![t] = [state |-> i, once |-> once, pc |-> IF AllBoundArgsValid(i) THEN "checked" ELSE "out", task |-> 0]]
     /\ UNCHANGED <<heap, factory, flags, calls, late>>

(* The functor.  One made by callback() is Impl::Run, which takes the task     *)
(* unless it was cancelled or taken.                                           *)
MayTake == ~heap.impl.cancelled /\ heap.impl.task # 0
Taken == heap.impl.task
Call(t) ==
  LET r == running[t]  f == heap.states[r.state]
  IN /\ r.pc = "checked" /\ calls' = [calls EXCEPT ![r.state] = @ + 1]
     /\ late' = IF f.flag # 0 /\ ~factory.alive THEN late \cup {t} ELSE late
     /\ IF f.kind = "wrapper" /\ MayTake
        THEN running' = [running EXCEPT ![t].pc = "took", ![t].task = Taken] /\ heap' = [heap EXCEPT !.impl.task = 0]
        ELSE running' = [running EXCEPT ![t].pc = IF f.kind = "wrapper" THEN "out" ELSE "in"] /\ UNCHANGED heap
     /\ UNCHANGED <<slots, factory, flags>>

(* The task runs outside the lock, and its state goes. *)
RunTask(t) ==
  LET k == running[t].task
  IN /\ running[t].pc = "took" /\ k # 0 /\ calls' = [calls EXCEPT ![k] = @ + (IF AllBoundArgsValid(k) THEN 1 ELSE 0)]
     /\ late' = IF AllBoundArgsValid(k) /\ heap.impl.cancelled THEN late \cup {0} ELSE late
     /\ heap' = Release(heap, k) /\ running' = [running EXCEPT ![t].pc = "out", ![t].task = 0] /\ UNCHANGED <<slots, factory, flags>>

Returned(t) ==
  /\ running[t].pc \in {"in", "out"} /\ running' = [running EXCEPT ![t] = CallbackIdle]
  /\ heap' = IF running[t].once THEN Release(heap, running[t].state) ELSE heap
  /\ UNCHANGED <<slots, factory, flags, calls, late>>

----------------------------------------------------------------------------
(* CancelableOnceClosure. *)
MakeClosure(t, s) ==
  /\ May(t, s) /\ slots[s] # 0 /\ heap.states[slots[s]].kind = "once" /\ heap.impl.refs = 0 /\ ~heap.impl.cancelled /\ ~heap.impl.open
  /\ heap' = [heap EXCEPT !.impl = [refs |-> 1, task |-> slots[s], cancelled |-> FALSE, open |-> TRUE]]
  /\ slots' = [slots EXCEPT ![s] = 0] /\ UNCHANGED <<factory, flags, running, calls, late>>
AsCallback(t, s) ==
  /\ May(t, s) /\ slots[s] = 0 /\ heap.impl.open /\ Unmade # {}
  /\ heap' = [heap EXCEPT !.states[NewState] = [st |-> "live", refs |-> 1, kind |-> "wrapper", flag |-> 0], !.impl.refs = @ + 1]
  /\ slots' = [slots EXCEPT ![s] = NewState] /\ UNCHANGED <<factory, flags, running, calls, late>>

Cancelled(w) == [(IF w.impl.task = 0 THEN w ELSE Release(w, w.impl.task)) EXCEPT !.impl.cancelled = TRUE, !.impl.task = 0]
Cancel(t, destroys) ==
  /\ running[t].pc \in {"idle", "in"} /\ heap.impl.open /\ (heap.impl.cancelled => destroys)
  /\ heap' = IF destroys THEN ReleaseImpl([Cancelled(heap) EXCEPT !.impl.open = FALSE]) ELSE Cancelled(heap)
  /\ UNCHANGED <<slots, factory, flags, running, calls, late>>

CallbackNext ==
  \E t \in CallbackThreads :
    \/ \E s \in Slots : Drop(t, s) \/ CallbackRun(t, s) \/ MakeClosure(t, s) \/ AsCallback(t, s)
    \/ \E s \in Slots, kind \in {"once", "repeating"}, weak \in BOOLEAN : Bind(t, s, kind, weak)
    \/ \E s, d \in Slots : Move(t, s, d) \/ Copy(t, s, d)
    \/ \E destroys \in BOOLEAN : Invalidate(t, destroys) \/ Cancel(t, destroys)
    \/ Call(t) \/ RunTask(t) \/ Returned(t)

CallbackSpec == CallbackInit /\ [][CallbackNext]_callbackVars

----------------------------------------------------------------------------
CallbackTypeOK == \A i \in States : heap.states[i].st \in {"none", "live", "freed"} /\ heap.states[i].refs \in 0..4

Holders(i) == Cardinality({s \in Slots : slots[s] = i}) + Cardinality({t \in CallbackThreads : running[t].once /\ running[t].state = i})
              + Cardinality({t \in CallbackThreads : running[t].task = i}) + (IF heap.impl.task = i THEN 1 ELSE 0)

(* A bound state lives exactly as long as someone holds it, on whatever thread *)
(* it is released; the control block as long as the closure or a callback it   *)
(* gave out; what runs once runs at most once, however often it is moved; and  *)
(* a functor bound to a WeakPtr is not called on the target's own thread after *)
(* the target died.                                                            *)
HeldWhileUsed ==
  /\ \A i \in States : IF heap.states[i].st = "live" THEN heap.states[i].refs = Holders(i) /\ Holders(i) > 0 ELSE Holders(i) = 0
  /\ heap.impl.refs = (IF heap.impl.open THEN 1 ELSE 0) + Cardinality({i \in States : heap.states[i].st = "live" /\ heap.states[i].kind = "wrapper"})
  /\ \A i \in States : heap.states[i].kind # "repeating" => calls[i] <= 1
  /\ 1 \notin late

(* Violated: a RepeatingCallback that its own functor drops or assigns to goes *)
(* away under the call.  "args persist across calls".                          *)
RunningIsAlive == \A t \in CallbackThreads : running[t].state # 0 => heap.states[running[t].state].st = "live"

(* Violated for callbacks run on another thread than the target's: "A bound    *)
(* WeakPtr whose target has been destroyed must cancel the whole callback at   *)
(* Run() time, NOT be dereferenced": the target dies after the check.          *)
DeadIsNotCalled == late \cap CallbackThreads = {}

(* Violated: "Runs the underlying closure if not yet cancelled": the task that *)
(* Impl::Run took starts after Cancel returned.                                *)
CancelledDoesNotStart == 0 \notin late

-----------------------------------------------------------------------------
(***************************************************************************)
(* SequenceChecker and the ThreadChecker inside it (sequence_checker.h,    *)
(* thread_checker.h), the assertions most of the library's classes carry:  *)
(* one atomic word for the sequence, one for the thread, each bound by the *)
(* first call after a detach.  A step is one atomic access.  A context is  *)
(* a thread and the token of the task it runs, 0 when it runs none.        *)
(***************************************************************************)
CONSTANTS ThreadIds, Tokens, MaxDetaches, MaxChecks

VARIABLES
  sequence_state,   \* "detached", "thread" (kThreadFallbackState), or a token
  thread_id,        \* 0: detached
  call,             \* each thread's call: its step, its token, what it has read
  detaches,         \* detaches so far: the epoch
  checks,           \* calls so far
  accepted          \* history: contexts accepted in each epoch

checkerVars == <<sequence_state, thread_id, call, detaches, checks, accepted>>

CheckerIdle == [at |-> "idle", token |-> 0, read |-> 0, since |-> 0]
State(token) == IF token # 0 THEN token ELSE -1   \* -1: kThreadFallbackState
Detached == -2

(* The object is made on a thread, perhaps in a task. *)
CheckerInit ==
  /\ \E t \in ThreadIds, k \in Tokens : sequence_state = State(k) /\ thread_id = t
  /\ call = [t \in ThreadIds |-> CheckerIdle] /\ detaches = 0 /\ checks = 0 /\ accepted = [e \in 0..MaxDetaches |-> {}]

(* A call counts for the epoch in which it read, or bound, the sequence. *)
Accepts(t, e) == accepted' = [accepted EXCEPT ![e] = @ \cup {<<t, call[t].token>>}]
Returns(t, ok) ==
  /\ call' = [call EXCEPT ![t] = CheckerIdle]
  /\ IF ok THEN Accepts(t, call[t].since) ELSE UNCHANGED accepted

----------------------------------------------------------------------------
(* CalledOnValidSequence: the load. *)
CalledOnValidSequence(t, k) ==
  /\ call[t] = CheckerIdle /\ checks < MaxChecks /\ checks' = checks + 1
  /\ call' = [call EXCEPT ![t] = [at |-> IF sequence_state = Detached THEN "bind" ELSE "check", token |-> k, read |-> sequence_state, since |-> detaches]]
  /\ UNCHANGED <<sequence_state, thread_id, detaches, accepted>>

(* The compare-and-swap of a detached checker. *)
Bound(t) ==
  sequence_state' = State(call[t].token) /\ call' = [call EXCEPT ![t].at = "unthread"] /\ Accepts(t, detaches)
Binds(t) ==
  IF sequence_state = Detached THEN Bound(t)
  ELSE call' = [call EXCEPT ![t].at = "check", ![t].read = sequence_state, ![t].since = detaches] /\ UNCHANGED <<sequence_state, accepted>>

CheckerBind(t) == call[t].at = "bind" /\ Binds(t) /\ UNCHANGED <<thread_id, detaches, checks>>

(* The winner detaches the thread checker, and does not bind it.               *)
Unthread(t) ==
  /\ call[t].at = "unthread" /\ thread_id' = 0 /\ call' = [call EXCEPT ![t] = CheckerIdle]
  /\ UNCHANGED <<sequence_state, detaches, checks, accepted>>

(* With a token on both sides the tokens decide, else the threads. *)
Check(t) ==
  /\ call[t].at = "check"
  /\ IF call[t].read > 0 /\ call[t].token # 0 THEN Returns(t, call[t].read = call[t].token)
     ELSE call' = [call EXCEPT ![t].at = "load"] /\ UNCHANGED accepted
  /\ UNCHANGED <<sequence_state, thread_id, detaches, checks>>

(* ThreadChecker::CalledOnValidThread. *)
LoadThread(t) ==
  /\ call[t].at = "load"
  /\ IF thread_id = 0 THEN call' = [call EXCEPT ![t].at = "claim"] /\ UNCHANGED accepted ELSE Returns(t, thread_id = t)
  /\ UNCHANGED <<sequence_state, thread_id, detaches, checks>>

ClaimThread(t) ==
  /\ call[t].at = "claim"
  /\ IF thread_id = 0 THEN thread_id' = t /\ Returns(t, TRUE)
     ELSE Returns(t, thread_id = t) /\ UNCHANGED thread_id
  /\ UNCHANGED <<sequence_state, detaches, checks>>

(* DetachFromSequence, two stores: the epoch begins with the first. *)
DetachFromSequence(t) ==
  /\ call[t] = CheckerIdle /\ detaches < MaxDetaches /\ detaches' = detaches + 1
  /\ sequence_state' = Detached /\ call' = [call EXCEPT ![t].at = "detach"]
  /\ UNCHANGED <<thread_id, checks, accepted>>
DetachFromThread(t) ==
  /\ call[t].at = "detach" /\ thread_id' = 0 /\ call' = [call EXCEPT ![t] = CheckerIdle]
  /\ UNCHANGED <<sequence_state, detaches, checks, accepted>>

CheckerNext == \E t \in ThreadIds :
  \/ \E k \in Tokens : CalledOnValidSequence(t, k)
  \/ CheckerBind(t) \/ Unthread(t) \/ Check(t) \/ LoadThread(t) \/ ClaimThread(t) \/ DetachFromSequence(t) \/ DetachFromThread(t)

CheckerSpec == CheckerInit /\ [][CheckerNext]_checkerVars

----------------------------------------------------------------------------
CheckerTypeOK == thread_id \in ThreadIds \cup {0} /\ sequence_state \in Tokens \cup {-1, Detached}

(* Between two detaches the checker accepts tasks of one sequence only,        *)
(* however the first calls after the detach interleave - as long as nobody     *)
(* outside a task was accepted, for then the threads decide.                   *)
OneSequence ==
  \A e \in 1..MaxDetaches : (\A c \in accepted[e] : c[2] # 0) => Cardinality({c[2] : c \in accepted[e]}) <= 1

(* Violated: DetachFromSequence: the next call binds the caller's sequence or  *)
(* thread as the new legal context: outside tasks the first caller is accepted *)
(* but not bound, and so is the next one, on any thread.                       *)
OneThread ==
  \A e \in 1..MaxDetaches : (\A c \in accepted[e] : c[2] = 0) => Cardinality({c[1] : c \in accepted[e]}) <= 1
=============================================================================
