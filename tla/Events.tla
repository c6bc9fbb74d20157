------------------------------- MODULE Events --------------------------------
(***************************************************************************)
(* Events (src/neixx/synchronization): the futex event and the waitable    *)
(* event of POSIX, and the abstract event both implement.                  *)
(***************************************************************************)
EXTENDS Integers, FiniteSets

-----------------------------------------------------------------------------
(***************************************************************************)
(* AtomicEvent (src/neixx/synchronization/atomic_event.cpp): an automatic  *)
(* event in one 32-bit word (signalled bit, broadcast bit, count of        *)
(* waiters) and a futex.  A step is one access of the word or one futex    *)
(* call; a compare-exchange that fails only goes round its loop.           *)
(***************************************************************************)
CONSTANTS
  Waiters, Signallers,
  MaxWaits,      \* bound: waits of each waiter
  MaxSignals     \* bound: signals of each signaller

VARIABLES
  word,       \* state_: signalled, broadcast and the count of waiters
  waiter,     \* waiter -> pc, the call (timed or not), the word it parks on, waits made
  signaller,  \* signaller -> pc, how many it will wake, signals made
  outcome     \* waiter -> how its last wait ended

atomicVars == <<word, waiter, signaller, outcome>>

Init ==
  /\ word = [signalled |-> FALSE, broadcast |-> FALSE, count |-> 0]
  /\ waiter = [w \in Waiters |-> [pc |-> "out", timed |-> FALSE, expected |-> 0, calls |-> 0]]
  /\ signaller = [s \in Signallers |-> [pc |-> "out", wake |-> 0, calls |-> 0]]
  /\ outcome = [w \in Waiters |-> "none"]

At(w, pc) == waiter[w].pc = pc
Goto(w, pc) == waiter' = [waiter EXCEPT ![w].pc = pc]
Returns(w, how) ==
  /\ waiter' = [waiter EXCEPT ![w] = [@ EXCEPT !.pc = "out", !.expected = 0, !.timed = FALSE]]
  /\ outcome' = [outcome EXCEPT ![w] = how]

----------------------------------------------------------------------------
(* Signal: the compare-exchange, then the wake of one waiter if any is counted.*)
Signal(s) ==
  /\ signaller[s].pc = "out" /\ signaller[s].calls < MaxSignals
  /\ LET grants == ~word.signalled /\ ~word.broadcast
     IN  /\ word' = IF grants THEN [word EXCEPT !.signalled = TRUE] ELSE word
         /\ signaller' = [signaller EXCEPT ![s] =
              [pc |-> IF grants /\ word.count > 0 THEN "wake" ELSE "out", wake |-> 1, calls |-> @.calls + 1]]
  /\ UNCHANGED <<waiter, outcome>>

SignalAll(s) ==
  /\ signaller[s].pc = "out" /\ signaller[s].calls < MaxSignals
  /\ word' = [word EXCEPT !.broadcast = TRUE]
  /\ signaller' = [signaller EXCEPT ![s] =
       [pc |-> IF word.count > 0 THEN "wake" ELSE "out", wake |-> 2, calls |-> @.calls + 1]]
  /\ UNCHANGED <<waiter, outcome>>

(* FUTEX_WAKE of one parked waiter, or of all. *)
Parked == {w \in Waiters : At(w, "parked")}
WakeSome(s) ==
  /\ signaller[s].pc = "wake"
  /\ \E W \in SUBSET Parked :
       /\ IF signaller[s].wake = 2 THEN W = Parked
          ELSE Parked # {} => \E w \in Parked : W = {w}
       /\ (Parked = {} => W = {})
       /\ waiter' = [w \in Waiters |-> IF w \in W THEN [waiter[w] EXCEPT !.pc = "woken"] ELSE waiter[w]]
  /\ signaller' = [signaller EXCEPT ![s].pc = "out"]
  /\ UNCHANGED <<word, outcome>>

----------------------------------------------------------------------------
Wait(w, timed) ==
  /\ At(w, "out") /\ waiter[w].calls < MaxWaits
  /\ waiter' = [waiter EXCEPT ![w] = [pc |-> "check", timed |-> timed, expected |-> 0, calls |-> @.calls + 1]]
  /\ outcome' = [outcome EXCEPT ![w] = "waiting"]
  /\ UNCHANGED <<word, signaller>>

(* The top of the loop: an open gate, a token, or on to the registration; a    *)
(* timed wait whose time is over gives up.                                     *)
CheckWord(w) ==
  /\ At(w, "check")
  /\ \/ word.broadcast /\ Returns(w, "through") /\ UNCHANGED word
     \/ /\ word.signalled /\ ~word.broadcast
        /\ word' = [word EXCEPT !.signalled = FALSE] /\ Returns(w, "through")
     \/ ~word.signalled /\ ~word.broadcast /\ Goto(w, "register") /\ UNCHANGED <<word, outcome>>
     \/ ~word.signalled /\ ~word.broadcast /\ waiter[w].timed /\ Returns(w, "timeout") /\ UNCHANGED word
  /\ UNCHANGED signaller

(* SpinForToken saw a bit. *)
SpinSeesToken(w) ==
  /\ At(w, "register") /\ (word.signalled \/ word.broadcast)
  /\ Goto(w, "check")
  /\ UNCHANGED <<word, signaller, outcome>>

Register(w) ==
  /\ At(w, "register")
  /\ word' = [word EXCEPT !.count = @ + 1]
  /\ waiter' = [waiter EXCEPT ![w] = [@ EXCEPT !.pc = "park", !.expected = word.count + 1]]
  /\ UNCHANGED <<signaller, outcome>>

(* FUTEX_WAIT compares the whole word with the count the waiter saw and no     *)
(* bit set (kParkMask).                                                        *)
Matches(w) == word.count = waiter[w].expected /\ ~word.signalled /\ ~word.broadcast

Park(w) ==
  /\ At(w, "park")
  /\ Goto(w, IF Matches(w) THEN "parked" ELSE "woken")
  /\ UNCHANGED <<word, signaller, outcome>>

(* A signal interrupts the futex call, or a timed one expires. *)
Interrupted(w) ==
  /\ At(w, "parked") /\ Goto(w, "woken")
  /\ UNCHANGED <<word, signaller, outcome>>
Expired(w) ==
  /\ At(w, "parked") /\ waiter[w].timed /\ Goto(w, "expired")
  /\ UNCHANGED <<word, signaller, outcome>>

(* What follows the wake-up: another round, which may find the token gone.     *)
(* The mutant takes the wake-up for the token.                                 *)
ReturnsWoken(w) == Returns(w, "through")
GoesRound(w) == Goto(w, "check") /\ UNCHANGED outcome

Unregister(w) ==
  /\ waiter[w].pc \in {"woken", "expired"}
  /\ word' = [word EXCEPT !.count = @ - 1]
  /\ IF At(w, "expired") THEN Returns(w, "timeout") ELSE GoesRound(w)
  /\ UNCHANGED signaller

Next ==
  \/ \E s \in Signallers : Signal(s) \/ SignalAll(s) \/ WakeSome(s)
  \/ \E w \in Waiters :
       \/ \E timed \in BOOLEAN : Wait(w, timed)
       \/ CheckWord(w) \/ SpinSeesToken(w) \/ Register(w) \/ Park(w) \/ Interrupted(w) \/ Expired(w) \/ Unregister(w)

Spec == Init /\ [][Next]_atomicVars

----------------------------------------------------------------------------
WaiterPC == {"out", "check", "register", "park", "parked", "woken", "expired"}
TypeOK ==
  /\ word \in [signalled : BOOLEAN, broadcast : BOOLEAN, count : Nat]
  /\ waiter \in [Waiters -> [pc : WaiterPC, timed : BOOLEAN, expected : Nat, calls : Nat]]
  /\ signaller \in [Signallers -> [pc : {"out", "wake"}, wake : 0..2, calls : Nat]]
  /\ outcome \in [Waiters -> {"none", "waiting", "through", "timeout"}]

(* No lost wake-up: when the event is set and a waiter is parked, a wake-up is *)
(* on its way or a waiter is up that will look at the word.                    *)
TokenNotMissed ==
  (word.signalled \/ word.broadcast) /\ Parked # {} =>
    \/ \E s \in Signallers : signaller[s].pc = "wake"
    \/ \E w \in Waiters : waiter[w].pc \in {"check", "woken"}

Abstract == INSTANCE Event WITH policy <- "automatic", set <- word.signalled, gate <- word.broadcast, result <- outcome

(* The word and the futex implement an automatic event. *)
ImplementsEvent == Abstract!Spec

(* What makes these inductive: a call has no outcome while it lasts, the       *)
(* count is the number of waiters between registration and return, and who     *)
(* opens the gate beside a parked waiter is still to wake them all.            *)
Registered == {w \in Waiters : waiter[w].pc \in {"park", "parked", "woken", "expired"}}
AtomicInv ==
  /\ \A w \in Waiters : outcome[w] = "waiting" <=> waiter[w].pc # "out"
  /\ word.count = Cardinality(Registered)
  /\ word.broadcast /\ Parked # {} => \E s \in Signallers : signaller[s].pc = "wake" /\ signaller[s].wake = 2

-----------------------------------------------------------------------------
(***************************************************************************)
(* WaitableEvent on POSIX (src/neixx/synchronization/waitable_event.cpp):  *)
(* an automatic event is a flag and a condition variable, a manual one a   *)
(* flag under a mutex and an eventfd that wakes the waiters, which poll it *)
(* without the mutex.  (On Windows both are kernel events.)                *)
(***************************************************************************)
CONSTANTS
  EvWaiters,
  MaxEvWaits,    \* bound: waits of each waiter
  MaxChanges     \* bound: calls of Signal and Reset

VARIABLES
  reset_policy,   \* chosen when the event is made
  signaled,       \* signaled_ or manual_signaled_
  eventfd,        \* the counter of event_fd_
  waiting,        \* waiter -> pc, timed or not, waits made
  ended,          \* waiter -> how its last wait ended
  changes

waitableVars == <<reset_policy, signaled, eventfd, waiting, ended, changes>>

WaitableInit ==
  /\ reset_policy \in {"automatic", "manual"}
  /\ signaled = FALSE /\ eventfd = 0 /\ changes = 0
  /\ waiting = [w \in EvWaiters |-> [pc |-> "out", timed |-> FALSE, calls |-> 0]]
  /\ ended = [w \in EvWaiters |-> "none"]

WaitableGoto(w, pc) == waiting' = [waiting EXCEPT ![w].pc = pc]
Ends(w, how) == WaitableGoto(w, "out") /\ ended' = [ended EXCEPT ![w] = how]

(* Signal under the mutex.  Manual: the wake byte is written when the flag     *)
(* changes; automatic: notify_one moves one sleeper to its predicate.          *)
NotifyOne(W) == IF W = {} THEN {{}} ELSE {{w} : w \in W}

WaitableSignal ==
  /\ changes < MaxChanges /\ changes' = changes + 1
  /\ signaled' = TRUE
  /\ eventfd' = IF reset_policy = "manual" /\ ~signaled THEN eventfd + 1 ELSE eventfd
  /\ \E W \in NotifyOne({w \in EvWaiters : waiting[w].pc = "cv"}) :
       waiting' = [w \in EvWaiters |-> IF w \in W THEN [waiting[w] EXCEPT !.pc = "check"] ELSE waiting[w]]
  /\ UNCHANGED <<reset_policy, ended>>

(* Reset drains the eventfd under the same mutex. *)
DrainedOnReset == 0
Reset ==
  /\ changes < MaxChanges /\ changes' = changes + 1
  /\ signaled' = FALSE
  /\ eventfd' = IF reset_policy = "manual" THEN DrainedOnReset ELSE eventfd
  /\ UNCHANGED <<reset_policy, waiting, ended>>

WaitableWait(w, timed) ==
  /\ waiting[w].pc = "out" /\ waiting[w].calls < MaxEvWaits
  /\ waiting' = [waiting EXCEPT ![w] = [pc |-> "check", timed |-> timed, calls |-> @.calls + 1]]
  /\ ended' = [ended EXCEPT ![w] = "waiting"]
  /\ UNCHANGED <<reset_policy, signaled, eventfd, changes>>

(* The flag, under the mutex: a set automatic event is taken, a clear one is   *)
(* slept on (the condition variable gives the mutex up as it sleeps).          *)
CheckFlag(w) ==
  /\ waiting[w].pc = "check"
  /\ IF signaled THEN /\ Ends(w, "through")
                      /\ signaled' = (reset_policy = "manual")
     ELSE /\ WaitableGoto(w, IF reset_policy = "manual" THEN "poll" ELSE "cv")
          /\ UNCHANGED <<signaled, ended>>
  /\ UNCHANGED <<reset_policy, eventfd, changes>>

(* poll returns: Wait goes round, TimedWait looks once more. *)
PollReturns(w) ==
  /\ waiting[w].pc = "poll" /\ eventfd > 0
  /\ WaitableGoto(w, IF waiting[w].timed THEN "recheck" ELSE "check")
  /\ UNCHANGED <<reset_policy, signaled, eventfd, ended, changes>>

(* The second look of TimedWait. *)
AfterPoll == IF signaled THEN "through" ELSE "timeout"
Recheck(w) ==
  /\ waiting[w].pc = "recheck"
  /\ Ends(w, AfterPoll)
  /\ UNCHANGED <<reset_policy, signaled, eventfd, changes>>

TimesOut(w) ==
  /\ waiting[w].pc \in {"poll", "cv"} /\ waiting[w].timed
  /\ IF waiting[w].pc = "cv" /\ signaled THEN Ends(w, "through") /\ signaled' = FALSE
     ELSE Ends(w, "timeout") /\ UNCHANGED signaled
  /\ UNCHANGED <<reset_policy, eventfd, changes>>

SpuriousWakeup(w) ==
  /\ waiting[w].pc = "cv"
  /\ WaitableGoto(w, "check")
  /\ UNCHANGED <<reset_policy, signaled, eventfd, ended, changes>>

WaitableNext ==
  \/ WaitableSignal \/ Reset
  \/ \E w \in EvWaiters :
       \/ \E timed \in BOOLEAN : WaitableWait(w, timed)
       \/ CheckFlag(w) \/ PollReturns(w) \/ Recheck(w) \/ TimesOut(w) \/ SpuriousWakeup(w)

WaitableSpec == WaitableInit /\ [][WaitableNext]_waitableVars

----------------------------------------------------------------------------
WaitablePC == {"out", "check", "cv", "poll", "recheck"}
WaitableTypeOK ==
  /\ reset_policy \in {"automatic", "manual"} /\ signaled \in BOOLEAN
  /\ eventfd \in 0..1 /\ changes \in Nat
  /\ waiting \in [EvWaiters -> [pc : WaitablePC, timed : BOOLEAN, calls : Nat]]
  /\ ended \in [EvWaiters -> {"none", "waiting", "through", "timeout"}]

(* No waiter sleeps on a set event: a manual one is awake in poll exactly      *)
(* while the flag is set, an automatic one leaves no sleeper behind unless     *)
(* another waiter is up to take it.                                            *)
SetEventWakes ==
  /\ reset_policy = "manual" => ((eventfd > 0) <=> signaled)
  /\ reset_policy = "automatic" /\ signaled /\ (\E w \in EvWaiters : waiting[w].pc = "cv") =>
       \E w \in EvWaiters : waiting[w].pc = "check"

WaitableAbstract == INSTANCE Event WITH
  Waiters <- EvWaiters, policy <- reset_policy, set <- signaled, gate <- FALSE, result <- ended

(* Flag, mutex and eventfd implement the event of the chosen policy. *)
ImplementsWaitable == WaitableAbstract!Spec

(* What makes these inductive: a call has no outcome while it lasts, and only  *)
(* a manual event is polled, an automatic one slept on.                        *)
WaitableInv ==
  /\ \A w \in EvWaiters : ended[w] = "waiting" <=> waiting[w].pc # "out"
  /\ \A w \in EvWaiters : waiting[w].pc \in {"poll", "recheck"} => reset_policy = "manual"
  /\ \A w \in EvWaiters : waiting[w].pc = "cv" => reset_policy = "automatic"
=============================================================================
