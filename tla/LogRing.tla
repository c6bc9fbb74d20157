------------------------------ MODULE LogRing ------------------------------
(***************************************************************************)
(* The asynchronous log runtime of src/nei/log: client threads reserve a   *)
(* slot of a fixed ring with one fetch-add and publish a serialized event  *)
(* into it (_nei_log_enqueue_event), one consumer thread drains the slots  *)
(* in order, nei_log_flush waits for what has been published, and          *)
(* _nei_log_shutdown_runtime stops the consumer.  All sleepers share ONE   *)
(* mutex and ONE condition variable.  The POSIX build is modelled.         *)
(*                                                                         *)
(* Grain: one step per access to a shared atomic.  A critical section that *)
(* touches at most one word not protected by the mutex is one step; only   *)
(* the consumer holds the mutex across steps (locked).  An event is named  *)
(* by the position its reservation got; data is the set of events whose    *)
(* bytes may be in the slot, so a set with two members is a torn record.   *)
(***************************************************************************)
EXTENDS Integers, Sequences, FiniteSets

CONSTANTS
  Clients,     \* threads that call nei_llog and nei_log_flush
  Consumer,    \* the consumer thread
  Slots,       \* _NEI_LOG_RING_SLOTS
  MaxEvents,   \* bound: reservations taken in a behaviour
  Shutdown     \* whether some thread may call _nei_log_shutdown_runtime

ASSUME SlotsAssumption    == Slots \in Nat \ {0}
ASSUME ConsumerAssumption == Consumer \notin Clients
ASSUME BoundAssumption    == MaxEvents \in Nat
ASSUME SwitchAssumption   == Shutdown \in BOOLEAN

VARIABLES
  state,             \* slot -> 0 (empty) or 1 (committed)
  published_seq,     \* slot -> position + 1 of its last publication
  data,              \* slot -> events whose bytes may be in it
  write_pos,         \* next position to reserve
  committed_pos,     \* length of the contiguous published prefix
  consumer_pos,      \* next position to consume
  consumer_sleeping, \* hint that the consumer is, or is about to be, waiting
  stop_requested,
  initialized,       \* the runtime is up
  once,              \* the pthread_once has run
  locked,            \* the consumer holds s_runtime.mutex
  waiters,           \* threads blocked on s_runtime.cond
  pc,                \* client -> where it is in its call
  pos,               \* client -> position of its last reservation, or NoPos
  reg,               \* client -> the value it last loaded: committed (advance)
                     \* or flush_target (flush)
  cpc,               \* where the consumer is
  drained,           \* the current drain has consumed something
  emitted,           \* history: what _nei_log_process_events got, in order
  lapped,            \* history: see Reserve
  overtaken          \* history: see PublishSeq

ringVars == <<state, published_seq, data, write_pos, committed_pos, consumer_pos>>
rtVars   == <<consumer_sleeping, stop_requested, initialized, once, locked, waiters>>
clVars   == <<pc, pos, reg>>
coVars   == <<cpc, drained, emitted>>
histVars == <<lapped, overtaken>>
vars     == <<ringVars, rtVars, clVars, coVars, histVars>>

NoPos  == -1
Idx(p) == p % Slots
Free   == ~locked

(* The consumer's test for work: its next position is reserved and committed. *)
HasReadySlot == consumer_pos < write_pos /\ state[Idx(consumer_pos)] = 1

(* Calls between a reservation and its commit, and the ones that store to data. *)
UncommittedPC == {"spin", "plock", "pwait", "write", "commit"}
Uncommitted(t) == pc[t] \in UncommittedPC
Writing(t)     == pc[t] = "commit"

(* The call of a client ends; nothing of its locals survives but pos. *)
Return(t) == /\ pc'  = [pc EXCEPT ![t] = "idle"]
             /\ reg' = [reg EXCEPT ![t] = 0]

Goto(t, l) == pc' = [pc EXCEPT ![t] = l] /\ UNCHANGED reg

(* pthread_cond_signal: one waiter, any of them, is released. *)
Signal == IF waiters = {} THEN UNCHANGED waiters
          ELSE \E w \in waiters : waiters' = waiters \ {w}

(* pthread_cond_broadcast. *)
Broadcast == waiters' = {}

----------------------------------------------------------------------------
(* nei_llog and its siblings up to the enqueue: the runtime is brought up by *)
(* a pthread_once, which runs its callback at most once per process.         *)
LogCall(t) ==
  /\ pc[t] = "idle"
  /\ write_pos + Cardinality({q \in Clients : pc[q] = "enq"}) < MaxEvents
  /\ IF ~initialized /\ ~once
     THEN initialized' = TRUE /\ once' = TRUE /\ cpc' = "lock"
     ELSE UNCHANGED <<initialized, once, cpc>>
  /\ Goto(t, "enq")
  /\ UNCHANGED <<ringVars, pos, consumer_sleeping, stop_requested, locked, waiters,
                 drained, emitted, histVars>>

(* The runtime is down: the event is dropped. *)
Drop(t) ==
  /\ pc[t] = "enq" /\ ~initialized
  /\ Return(t)
  /\ UNCHANGED <<ringVars, rtVars, pos, coVars, histVars>>

(* The fetch-add on write_pos.  lapped records that this reservation falls on *)
(* a slot whose previous reservation is still uncommitted.                    *)
Reserve(t) ==
  /\ pc[t] = "enq" /\ initialized
  /\ pos' = [pos EXCEPT ![t] = write_pos]
  /\ write_pos' = write_pos + 1
  /\ lapped' = (lapped \/ \E q \in Clients : Uncommitted(q) /\ pos[q] + Slots <= write_pos)
  /\ Goto(t, "spin")
  /\ UNCHANGED <<state, published_seq, data, committed_pos, consumer_pos, rtVars, coVars, overtaken>>

(* Mutant of SlotFree: the reserved slot is taken to be empty. *)
SlotFreeUntested(t) ==
  /\ pc[t] = "spin"
  /\ Goto(t, "write")
  /\ UNCHANGED <<ringVars, rtVars, pos, coVars, histVars>>

(* The spin loop sees the slot empty and leaves. *)
SlotFree(t) ==
  /\ pc[t] = "spin"
  /\ state[Idx(pos[t])] = 0
  /\ Goto(t, "write")
  /\ UNCHANGED <<ringVars, rtVars, pos, coVars, histVars>>

(* The spin budget is used up with the slot still occupied. *)
SpinOut(t) ==
  /\ pc[t] = "spin"
  /\ state[Idx(pos[t])] # 0
  /\ Goto(t, "plock")
  /\ UNCHANGED <<ringVars, rtVars, pos, coVars, histVars>>

(* Under the mutex: wait while the slot is occupied and no stop is requested. *)
BlockOnSlot(t) ==
  /\ \/ pc[t] = "plock"
     \/ pc[t] = "pwait" /\ t \notin waiters
  /\ Free
  /\ IF state[Idx(pos[t])] # 0 /\ ~stop_requested
     THEN waiters' = waiters \cup {t} /\ Goto(t, "pwait")
     ELSE UNCHANGED waiters /\ Goto(t, "spin")
  /\ UNCHANGED <<ringVars, consumer_sleeping, stop_requested, initialized, once, locked,
                 pos, coVars, histVars>>

(* memcpy into the slot begins; bytes of a writer still in it may remain. *)
WriteSlot(t) ==
  /\ pc[t] = "write"
  /\ data' = [data EXCEPT ![Idx(pos[t])] =
                {pos[t]} \cup {pos[q] : q \in {r \in Clients : Writing(r) /\ Idx(pos[r]) = Idx(pos[t])}}]
  /\ Goto(t, "commit")
  /\ UNCHANGED <<state, published_seq, write_pos, committed_pos, consumer_pos, rtVars,
                 pos, coVars, histVars>>

(* Mutant of CommitSlot: an increment where the code stores 1. *)
CommitSlotAdds(t) ==
  /\ pc[t] = "commit"
  /\ state' = [state EXCEPT ![Idx(pos[t])] = @ + 1]
  /\ Goto(t, "publish")
  /\ UNCHANGED <<published_seq, data, write_pos, committed_pos, consumer_pos, rtVars,
                 pos, coVars, histVars>>

(* memcpy has ended; the store-release that commits the slot. *)
CommitSlot(t) ==
  /\ pc[t] = "commit"
  /\ state' = [state EXCEPT ![Idx(pos[t])] = 1]
  /\ Goto(t, "publish")
  /\ UNCHANGED <<published_seq, data, write_pos, committed_pos, consumer_pos, rtVars,
                 pos, coVars, histVars>>

(* The store of the slot's sequence number.  overtaken records that it hides  *)
(* one that _nei_log_advance_committed_pos has not counted yet.               *)
PublishSeq(t) ==
  /\ pc[t] = "publish"
  /\ published_seq' = [published_seq EXCEPT ![Idx(pos[t])] = pos[t] + 1]
  /\ overtaken' = (overtaken \/ committed_pos + Slots <= pos[t])
  /\ Goto(t, "advload")
  /\ UNCHANGED <<state, data, write_pos, committed_pos, consumer_pos, rtVars,
                 pos, coVars, lapped>>

(* _nei_log_advance_committed_pos: load, compare the slot's sequence, CAS. *)
AdvanceLoad(t) ==
  /\ pc[t] = "advload"
  /\ pc'  = [pc EXCEPT ![t] = "advcheck"]
  /\ reg' = [reg EXCEPT ![t] = committed_pos]
  /\ UNCHANGED <<ringVars, rtVars, pos, coVars, histVars>>

AdvanceCheck(t) ==
  /\ pc[t] = "advcheck"
  /\ IF published_seq[Idx(reg[t])] = reg[t] + 1
     THEN Goto(t, "advcas")
     ELSE pc' = [pc EXCEPT ![t] = "sig"] /\ reg' = [reg EXCEPT ![t] = 0]
  /\ UNCHANGED <<ringVars, rtVars, pos, coVars, histVars>>

(* Mutant of AdvanceCas: one CAS, no loop. *)
AdvanceCasOnce(t) ==
  /\ pc[t] = "advcas"
  /\ committed_pos' = IF committed_pos = reg[t] THEN reg[t] + 1 ELSE committed_pos
  /\ pc' = [pc EXCEPT ![t] = "sig"] /\ reg' = [reg EXCEPT ![t] = 0]
  /\ UNCHANGED <<state, published_seq, data, write_pos, consumer_pos, rtVars,
                 pos, coVars, histVars>>

AdvanceCas(t) ==
  /\ pc[t] = "advcas"
  /\ committed_pos' = IF committed_pos = reg[t] THEN reg[t] + 1 ELSE committed_pos
  /\ Goto(t, "advload")
  /\ UNCHANGED <<state, published_seq, data, write_pos, consumer_pos, rtVars,
                 pos, coVars, histVars>>

(* _nei_log_signal_consumer_if_sleeping: the unlocked test, then the signal. *)
SignalTest(t) ==
  /\ pc[t] = "sig"
  /\ IF consumer_sleeping THEN Goto(t, "siglock") ELSE Return(t)
  /\ UNCHANGED <<ringVars, rtVars, pos, coVars, histVars>>

SignalConsumer(t) ==
  /\ pc[t] = "siglock" /\ Free
  /\ IF consumer_sleeping THEN Signal ELSE UNCHANGED waiters
  /\ Return(t)
  /\ UNCHANGED <<ringVars, consumer_sleeping, stop_requested, initialized, once, locked,
                 pos, coVars, histVars>>

----------------------------------------------------------------------------
(* nei_log_flush: the target is the published prefix at the call. *)
FlushCall(t) ==
  /\ pc[t] = "idle" /\ initialized
  /\ committed_pos # 0
  /\ pc'  = [pc EXCEPT ![t] = "flush"]
  /\ reg' = [reg EXCEPT ![t] = committed_pos]
  /\ UNCHANGED <<ringVars, rtVars, pos, coVars, histVars>>

(* The first test, or a round of the spin, finds the target consumed. *)
FlushDone(t) ==
  /\ pc[t] = "flush"
  /\ consumer_pos >= reg[t]
  /\ Return(t)
  /\ UNCHANGED <<ringVars, rtVars, pos, coVars, histVars>>

(* Spin budget used up: nudge a sleeping consumer, then wait for the target. *)
FlushBlock(t) ==
  /\ pc[t] = "flush" /\ Free
  /\ \E woken \in IF consumer_sleeping /\ waiters # {} THEN {{w} : w \in waiters} ELSE {{}} :
       IF consumer_pos < reg[t]
       THEN waiters' = (waiters \ woken) \cup {t} /\ Goto(t, "fwait")
       ELSE waiters' = waiters \ woken /\ Return(t)
  /\ UNCHANGED <<ringVars, consumer_sleeping, stop_requested, initialized, once, locked,
                 pos, coVars, histVars>>

FlushWake(t) ==
  /\ pc[t] = "fwait" /\ t \notin waiters /\ Free
  /\ IF consumer_pos < reg[t]
     THEN waiters' = waiters \cup {t} /\ UNCHANGED <<pc, reg>>
     ELSE UNCHANGED waiters /\ Return(t)
  /\ UNCHANGED <<ringVars, consumer_sleeping, stop_requested, initialized, once, locked,
                 pos, coVars, histVars>>

----------------------------------------------------------------------------
(* The consumer thread. *)

ConsumerLock ==
  /\ cpc = "lock" /\ Free
  /\ locked' = TRUE
  /\ cpc' = "top"
  /\ UNCHANGED <<ringVars, consumer_sleeping, stop_requested, initialized, once, waiters,
                 clVars, drained, emitted, histVars>>

(* The head of the waiting loop. *)
ConsumerTop ==
  /\ cpc = "top"
  /\ cpc' = IF HasReadySlot \/ stop_requested THEN "after" ELSE "mark"
  /\ UNCHANGED <<ringVars, rtVars, clVars, drained, emitted, histVars>>

ConsumerMark ==
  /\ cpc = "mark"
  /\ consumer_sleeping' = TRUE
  /\ cpc' = "recheck"
  /\ UNCHANGED <<ringVars, stop_requested, initialized, once, locked, waiters, clVars,
                 drained, emitted, histVars>>

(* Mutant of ConsumerRecheck: it sleeps without the second test. *)
ConsumerNoRecheck ==
  /\ cpc = "recheck"
  /\ locked' = FALSE
  /\ waiters' = waiters \cup {Consumer}
  /\ cpc' = "wait"
  /\ UNCHANGED <<ringVars, consumer_sleeping, stop_requested, initialized, once, clVars,
                 drained, emitted, histVars>>

(* The second test, after sleeping is visible, and the wait. *)
ConsumerRecheck ==
  /\ cpc = "recheck"
  /\ IF HasReadySlot \/ stop_requested
     THEN /\ consumer_sleeping' = FALSE
          /\ cpc' = "after"
          /\ UNCHANGED <<locked, waiters>>
     ELSE /\ locked' = FALSE
          /\ waiters' = waiters \cup {Consumer}
          /\ cpc' = "wait"
          /\ UNCHANGED consumer_sleeping
  /\ UNCHANGED <<ringVars, stop_requested, initialized, once, clVars, drained, emitted, histVars>>

ConsumerWake ==
  /\ cpc = "wait" /\ Consumer \notin waiters /\ Free
  /\ locked' = TRUE
  /\ consumer_sleeping' = FALSE
  /\ cpc' = "top"
  /\ UNCHANGED <<ringVars, stop_requested, initialized, once, waiters, clVars, drained,
                 emitted, histVars>>

(* Mutant of ConsumerLeave: a stopped consumer exits with slots still ready. *)
ConsumerLeaveUndrained ==
  /\ cpc = "after"
  /\ locked' = FALSE
  /\ drained' = FALSE
  /\ cpc' = IF stop_requested THEN "done" ELSE "drain"
  /\ UNCHANGED <<ringVars, consumer_sleeping, stop_requested, initialized, once, waiters,
                 clVars, emitted, histVars>>

(* Out of the waiting loop: the last drain if stopped and idle, else a drain. *)
ConsumerLeave ==
  /\ cpc = "after"
  /\ locked' = FALSE
  /\ drained' = FALSE
  /\ IF stop_requested /\ ~HasReadySlot
     THEN consumer_sleeping' = FALSE /\ cpc' = "final"
     ELSE UNCHANGED consumer_sleeping /\ cpc' = "drain"
  /\ UNCHANGED <<ringVars, stop_requested, initialized, once, waiters, clVars, emitted, histVars>>

(* _nei_log_drain_ring, one committed slot: _nei_log_process_events emits it, *)
(* then the slot is released and the position advanced.  The labels "final",  *)
(* "frelease", "ffree", "fbump" are the same code in the last drain.          *)
(* An event whose configuration is gone is passed over with no release.       *)
ConsumerEmit ==
  /\ cpc \in {"drain", "final"}
  /\ state[Idx(consumer_pos)] = 1
  /\ emitted' = Append(emitted, data[Idx(consumer_pos)])
  /\ cpc' \in IF cpc = "drain" THEN {"release", "free"} ELSE {"frelease", "ffree"}
  /\ UNCHANGED <<ringVars, rtVars, clVars, drained, histVars>>

(* _nei_log_release_config_after_emit: the emit count falls to 0 and ONE      *)
(* waiter of the shared condition variable is signalled, whatever it awaits.  *)
ConsumerRelease ==
  /\ cpc \in {"release", "frelease"} /\ Free
  /\ Signal
  /\ cpc' = IF cpc = "release" THEN "free" ELSE "ffree"
  /\ UNCHANGED <<ringVars, consumer_sleeping, stop_requested, initialized, once, locked,
                 clVars, drained, emitted, histVars>>

ConsumerFree ==
  /\ cpc \in {"free", "ffree"}
  /\ state' = [state EXCEPT ![Idx(consumer_pos)] = 0]
  /\ cpc' = IF cpc = "free" THEN "bump" ELSE "fbump"
  /\ UNCHANGED <<published_seq, data, write_pos, committed_pos, consumer_pos, rtVars, clVars,
                 drained, emitted, histVars>>

ConsumerBump ==
  /\ cpc \in {"bump", "fbump"}
  /\ consumer_pos' = consumer_pos + 1
  /\ drained' = TRUE
  /\ cpc' = IF cpc = "bump" THEN "drain" ELSE "final"
  /\ UNCHANGED <<state, published_seq, data, write_pos, committed_pos, rtVars, clVars,
                 emitted, histVars>>

(* The next slot is not committed: the drain ends. *)
ConsumerStopDrain ==
  /\ cpc \in {"drain", "final"}
  /\ state[Idx(consumer_pos)] # 1
  /\ drained' = FALSE
  /\ cpc' = CASE cpc = "final" -> "done"
              [] drained      -> "retry"
              [] OTHER        -> "lock"
  /\ UNCHANGED <<ringVars, rtVars, clVars, emitted, histVars>>

(* The fast re-check goes straight back; otherwise every waiter is woken. *)
ConsumerRetry ==
  /\ cpc = "retry"
  /\ cpc' = IF HasReadySlot THEN "lock" ELSE "notify"
  /\ UNCHANGED <<ringVars, rtVars, clVars, drained, emitted, histVars>>

(* Mutant of ConsumerNotify: signal where the code broadcasts. *)
ConsumerNotifyOne ==
  /\ cpc = "notify" /\ Free
  /\ Signal
  /\ cpc' = "lock"
  /\ UNCHANGED <<ringVars, consumer_sleeping, stop_requested, initialized, once, locked,
                 clVars, drained, emitted, histVars>>

ConsumerNotify ==
  /\ cpc = "notify" /\ Free
  /\ Broadcast
  /\ cpc' = "lock"
  /\ UNCHANGED <<ringVars, consumer_sleeping, stop_requested, initialized, once, locked,
                 clVars, drained, emitted, histVars>>

----------------------------------------------------------------------------
(* A wait that ends with no signal: pthread_cond_timedwait at the auto-flush *)
(* interval, or a wake-up POSIX allows for no reason.                        *)
Unblock ==
  /\ \E w \in waiters : waiters' = waiters \ {w}
  /\ UNCHANGED <<ringVars, consumer_sleeping, stop_requested, initialized, once, locked,
                 clVars, coVars, histVars>>

(* _nei_log_shutdown_runtime: request, broadcast; then join and tear down. *)
StopRequest ==
  /\ Shutdown
  /\ initialized /\ ~stop_requested /\ Free
  /\ stop_requested' = TRUE
  /\ Broadcast
  /\ UNCHANGED <<ringVars, consumer_sleeping, initialized, once, locked, clVars, coVars, histVars>>

StopJoin ==
  /\ initialized /\ stop_requested /\ cpc = "done"
  /\ initialized' = FALSE
  /\ UNCHANGED <<ringVars, consumer_sleeping, stop_requested, once, locked, waiters, clVars,
                 coVars, histVars>>

----------------------------------------------------------------------------
Init ==
  /\ state = [i \in 0..Slots-1 |-> 0]
  /\ published_seq = [i \in 0..Slots-1 |-> 0]
  /\ data = [i \in 0..Slots-1 |-> {}]
  /\ write_pos = 0 /\ committed_pos = 0 /\ consumer_pos = 0
  /\ consumer_sleeping = FALSE /\ stop_requested = FALSE
  /\ initialized = FALSE /\ once = FALSE
  /\ locked = FALSE /\ waiters = {}
  /\ pc = [t \in Clients |-> "idle"]
  /\ pos = [t \in Clients |-> NoPos]
  /\ reg = [t \in Clients |-> 0]
  /\ cpc = "none" /\ drained = FALSE /\ emitted = <<>>
  /\ lapped = FALSE /\ overtaken = FALSE

(* A client inside a call takes its next step. *)
Enqueue(t) ==
  \/ Drop(t) \/ Reserve(t) \/ SlotFree(t) \/ SpinOut(t) \/ BlockOnSlot(t)
  \/ WriteSlot(t) \/ CommitSlot(t) \/ PublishSeq(t)
  \/ AdvanceLoad(t) \/ AdvanceCheck(t) \/ AdvanceCas(t)
  \/ SignalTest(t) \/ SignalConsumer(t)

Flush(t) == FlushDone(t) \/ FlushBlock(t) \/ FlushWake(t)

ConsumerStep ==
  \/ ConsumerLock \/ ConsumerTop \/ ConsumerMark \/ ConsumerRecheck \/ ConsumerWake
  \/ ConsumerLeave \/ ConsumerEmit \/ ConsumerRelease \/ ConsumerFree
  \/ ConsumerBump \/ ConsumerStopDrain \/ ConsumerRetry \/ ConsumerNotify

Next ==
  \/ \E t \in Clients : LogCall(t) \/ FlushCall(t) \/ Enqueue(t) \/ Flush(t)
  \/ ConsumerStep
  \/ Unblock
  \/ StopRequest
  \/ StopJoin

Spec == Init /\ [][Next]_vars

(* Fairness: every running thread is scheduled and gets the mutex when it is *)
(* free again and again.  Nobody is obliged to call, to stop or to time out. *)
FairSpec ==
  /\ Spec
  /\ \A t \in Clients : SF_vars(Enqueue(t)) /\ SF_vars(Flush(t))
  /\ SF_vars(ConsumerStep)
----------------------------------------------------------------------------
(* The type invariant; a call between reservation and commit has a position. *)
ClientPC == {"idle", "enq", "publish", "advload", "advcheck", "advcas", "sig", "siglock",
             "flush", "fwait"} \cup UncommittedPC
ConsumerPC == {"none", "lock", "top", "mark", "recheck", "wait", "after", "drain", "free",
               "release", "bump", "retry", "notify", "final", "frelease", "ffree", "fbump",
               "done"}

TypeOK ==
  /\ state \in [0..Slots-1 -> {0, 1}]
  /\ published_seq \in [0..Slots-1 -> Nat]
  /\ data \in [0..Slots-1 -> SUBSET Nat]
  /\ write_pos \in Nat /\ committed_pos \in Nat /\ consumer_pos \in Nat
  /\ consumer_sleeping \in BOOLEAN /\ stop_requested \in BOOLEAN
  /\ initialized \in BOOLEAN /\ once \in BOOLEAN
  /\ locked \in BOOLEAN /\ waiters \subseteq Clients \cup {Consumer}
  /\ pc \in [Clients -> ClientPC]
  /\ pos \in [Clients -> Nat \cup {NoPos}]
  /\ \A t \in Clients : Uncommitted(t) => pos[t] # NoPos
  /\ reg \in [Clients -> Nat]
  /\ cpc \in ConsumerPC /\ drained \in BOOLEAN
  /\ emitted \in Seq(SUBSET Nat)
  /\ lapped \in BOOLEAN /\ overtaken \in BOOLEAN

(* Every event reaches the sinks untorn, once, and in reservation order, as   *)
(* long as no reservation laps an uncommitted one: the state flag of a slot   *)
(* is then enough to hand it from consumer to producer and back               *)
(* (_nei_log_enqueue_event, _nei_log_drain_ring).                             *)
EmittedInOrder == \A i \in 1..Len(emitted) : emitted[i] = {i - 1}
InOrderUnlessLapped == ~lapped => EmittedInOrder

(* The helping CAS loop of _nei_log_advance_committed_pos leaves no gap: once *)
(* every enqueue has got through it, the prefix nei_log_flush samples covers  *)
(* every reservation, unless a sequence number was hidden before it counted.  *)
Published == \A t \in Clients : pc[t] \in {"idle", "enq", "sig", "siglock", "flush", "fwait"}
PrefixComplete == Published => committed_pos = write_pos
PrefixUnlessOvertaken == ~overtaken => PrefixComplete

(* The same without that exception, in rings nobody has lapped: the contiguous*)
(* published prefix of nei_log_flush.  The code does not keep it.             *)
PrefixUnlessLapped == ~lapped => PrefixComplete

(* The sleep handshake (consumer_sleeping, re-check, signal) loses no wake-up:*)
(* while the consumer sleeps on a committed slot, some client still has the   *)
(* test of consumer_sleeping, or the signal, ahead of it.  A producer parked  *)
(* on a full ring shares the condition variable and can take the signal.  In  *)
(* a ring that was lapped a slot may be committed twice and drained once; the *)
(* consumer then sleeps before a published event, a flush waits for it, and   *)
(* the flush can take the signal too.                                         *)
SignalPC == {"publish", "advload", "advcheck", "advcas", "sig", "siglock"}
SignalAhead == \E t \in Clients : pc[t] \in SignalPC
NoneParked == \A t \in Clients : pc[t] # "pwait"
NoLostWakeup ==
  (~lapped /\ Consumer \in waiters /\ HasReadySlot /\ NoneParked) => SignalAhead

(* When the consumer thread exits, nothing of the published prefix is left in *)
(* the ring (the last drain after stop_requested).                            *)
ExitDrainsPrefix ==
  [][(cpc # "done" /\ cpc' = "done" /\ ~lapped) => consumer_pos >= committed_pos]_vars

(* Under fair scheduling every reservation reaches the sinks and every flush  *)
(* returns, in behaviours where no producer has to park on a full ring, no     *)
(* reservation is lapped and the runtime is not stopped.                      *)
NeverFull == [](NoneParked /\ ~lapped /\ ~stop_requested)
EventuallyEmitted ==
  NeverFull => \A p \in 0..MaxEvents-1 : (write_pos > p) ~> (consumer_pos > p)
FlushReturns ==
  NeverFull => \A t \in Clients : (pc[t] \in {"flush", "fwait"}) ~> (pc[t] = "idle")

----------------------------------------------------------------------------
(* The inductive strengthening of InOrderUnlessLapped.  Oldest is the first   *)
(* position whose slot the consumer has not released; Window(c) says that c   *)
(* is among the Slots positions from there, which the ring can hold at once.  *)
Oldest    == IF cpc \in {"bump", "fbump"} THEN consumer_pos + 1 ELSE consumer_pos
Window(c) == Oldest <= c /\ c < Oldest + Slots
HeldBy(c, q) == Uncommitted(q) /\ pos[q] = c

(* Uncommitted reservations are distinct, not yet passed, and not lapped. *)
ReservedInv ==
  /\ Oldest <= write_pos
  /\ \A q \in Clients : Uncommitted(q) => Oldest <= pos[q] /\ pos[q] < write_pos
                                           /\ write_pos <= pos[q] + Slots
  /\ \A q, r \in Clients : Uncommitted(q) /\ Uncommitted(r) /\ pos[q] = pos[r] => q = r

(* A position from Oldest on is still held, or its event is whole in its slot. *)
CommittedInv ==
  \A c \in Oldest..write_pos-1 :
    \/ \E q \in Clients : HeldBy(c, q)
    \/ Window(c) /\ state[Idx(c)] = 1 /\ data[Idx(c)] = {c}

(* A producer past the spin owns an empty slot; a committed slot belongs to   *)
(* a position in the window that nobody holds.                                *)
SlotInv ==
  /\ \A q \in Clients : pc[q] \in {"write", "commit"}
                           => Window(pos[q]) /\ state[Idx(pos[q])] = 0
  /\ \A q \in Clients : pc[q] = "commit" => data[Idx(pos[q])] = {pos[q]}
  /\ \A i \in 0..Slots-1 : state[i] = 1 =>
       \E c \in Oldest..write_pos-1 : /\ Idx(c) = i /\ Window(c)
                                    /\ \A q \in Clients : ~HeldBy(c, q)

(* What has been emitted is what the consumer has passed. *)
EmittedPC == {"release", "free", "frelease", "ffree"}
EmittedInv ==
  /\ Len(emitted) = IF cpc \in EmittedPC \cup {"bump", "fbump"} THEN consumer_pos + 1
                                                               ELSE consumer_pos
  /\ cpc \in EmittedPC => state[Idx(consumer_pos)] = 1
  /\ EmittedInOrder

RingInv ==
  /\ ~once => cpc = "none"
  /\ ~lapped => ReservedInv /\ CommittedInv /\ SlotInv /\ EmittedInv

----------------------------------------------------------------------------
(* The inductive invariant of publication, in any behaviour.  A position is   *)
(* outstanding from its reservation to the store of its sequence number; no   *)
(* outstanding position is counted, stored in a slot or about to be counted.  *)
Outstanding(q) == Uncommitted(q) \/ pc[q] = "publish"

PublishInv ==
  /\ committed_pos <= write_pos
  /\ \A q \in Clients : Outstanding(q) => committed_pos <= pos[q] /\ pos[q] < write_pos
  /\ \A q, r \in Clients : Outstanding(q) /\ Outstanding(r) /\ pos[q] = pos[r] => q = r
  /\ \A i \in 0..Slots-1 : /\ published_seq[i] <= write_pos
                           /\ \A q \in Clients : Outstanding(q) => published_seq[i] # pos[q] + 1
  /\ \A t \in Clients : pc[t] = "advcas" =>
       reg[t] < write_pos /\ \A q \in Clients : Outstanding(q) => reg[t] # pos[q]

(* The strengthening of PrefixUnlessOvertaken.  Every position that is not    *)
(* counted is outstanding or its number still is in its slot; the first of    *)
(* them, if published, has a client on the way to count it.                   *)
Accounted(c) == \/ \E q \in Clients : Outstanding(q) /\ pos[q] = c
                \/ published_seq[Idx(c)] = c + 1
Counting(t) == \/ pc[t] \in {"advload", "advcas"}
               \/ pc[t] = "advcheck" /\ reg[t] = committed_pos

PrefixInv == ~overtaken =>
  /\ \A i \in 0..Slots-1 : published_seq[i] <= committed_pos + Slots
  /\ \A c \in committed_pos..write_pos-1 : Accounted(c)
  /\ committed_pos < write_pos =>
       \/ \E q \in Clients : Outstanding(q) /\ pos[q] = committed_pos
       \/ \E t \in Clients : Counting(t)

(* The strengthening of NoLostWakeup.  NotifyAhead: the consumer broadcasts   *)
(* before it sleeps again.  A parked producer whose slot is occupied stays    *)
(* parked while the consumer sleeps.                                          *)
LockedPC    == {"top", "mark", "recheck", "after"}
FinalPC     == {"final", "frelease", "ffree", "fbump", "done"}
NotifyAhead == \/ cpc \in {"release", "free", "bump", "retry", "notify"} \cup FinalPC
               \/ cpc = "drain" /\ drained
               \/ cpc \in {"drain", "lock"} \cup LockedPC /\ HasReadySlot
Parked(p)   == pc[p] = "pwait" /\ state[Idx(pos[p])] # 0

WaitersInv ==
  /\ cpc \in LockedPC => locked
  /\ Consumer \in waiters => cpc = "wait" /\ ~stop_requested
  /\ cpc \in {"recheck", "wait"} => consumer_sleeping
  /\ \A t \in Clients : t \in waiters => pc[t] \in {"pwait", "fwait"}
  /\ \A t \in Clients : pc[t] \in {"flush", "fwait"} => reg[t] <= committed_pos

BlockedInv ==
  \A t \in Clients : t \in waiters /\ ~NotifyAhead =>
    /\ pc[t] = "pwait" => state[Idx(pos[t])] # 0
    /\ pc[t] = "fwait" => consumer_pos < reg[t]

SleepInv == ~lapped /\ Consumer \in waiters =>
  /\ HasReadySlot => SignalAhead \/ \E p \in Clients : Parked(p)
  /\ (\E t \in Clients : pc[t] = "fwait" /\ (t \in waiters \/ consumer_pos < reg[t]))
       => \E p \in Clients : Parked(p)

----------------------------------------------------------------------------
(* What the comments and docs promise; the code does not keep these. *)

(* log_runtime.c: once write_pos is incremented "we must eventually publish   *)
(* this exact sequence number" - asked even of behaviours with no lap only.   *)
ReservationPublished ==
  ([]~lapped) => \A t \in Clients : Uncommitted(t) ~> ~Uncommitted(t)

(* log.h: nei_log_flush waits "until all asynchronously queued events have    *)
(* been delivered to sinks" - here only the caller's own last event.          *)
FlushCoversOwn ==
  [][\A t \in Clients : (pc[t] = "idle" /\ pc'[t] = "flush" /\ pos[t] # NoPos)
                           => pos[t] < reg'[t]]_vars

(* log.h: after nei_log_shutdown the subsystem "can be re-used if needed":    *)
(* a log call that follows finds the runtime up again.                        *)
ReusableAfterShutdown ==
  [][\A t \in Clients : (pc[t] = "idle" /\ pc'[t] = "enq") => initialized']_vars
=============================================================================
