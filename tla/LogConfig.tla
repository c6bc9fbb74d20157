----------------------------- MODULE LogConfig -----------------------------
(***************************************************************************)
(* The configuration table of src/nei/log: clients add and remove          *)
(* configurations and log through handles, resolving a handle against a    *)
(* per-thread cache that a global snapshot counter invalidates; the        *)
(* consumer resolves the handle of every queued event again and counts     *)
(* itself in while it runs the sinks, so that nei_log_remove_config can    *)
(* wait before it releases them.  The wait shares the runtime's condition  *)
(* variable with nei_log_flush.                                            *)
(*                                                                         *)
(* Every configuration has at most one sink, and is named by its first.  A *)
(* slot other than 0 points at a copy that is never freed and that clients *)
(* may edit in place: they take its sink out and release it by hand.  Slot *)
(* 0 is the default configuration, rewritten in place, and the only one a  *)
(* sink is added to in place.  The table changes and the snapshot moves    *)
(* inside one write-locked section, so a section is one step.  The ring is *)
(* a FIFO queue here (LogRing has its detail).                             *)
(***************************************************************************)
EXTENDS Integers, Sequences, FiniteSets

CONSTANTS
  Clients,     \* threads that log, flush, add and remove configurations
  Editors,     \* those among them that edit a configuration in place
  MaxConfigs,  \* _NEI_LOG_MAX_CONFIGS
  MaxSinks,    \* bound: sinks created in a behaviour
  MaxEvents,   \* bound: events queued in a behaviour
  MaxEdits,    \* bound: sinks taken out by hand, those about to be included
  MaxSnapshot  \* bound: value of the snapshot, that is changes of the table

ASSUME ConfigsAssumption == MaxConfigs \in Nat \ {0}
ASSUME BoundsAssumption  == MaxSinks \in Nat /\ MaxEvents \in Nat /\ MaxSnapshot \in Nat /\ MaxEdits \in Nat

VARIABLES
  ptr,       \* slot -> sink of the configuration in s_config_ptrs, NoSink, or Unused
  snapshot,  \* s_config_snapshot
  count,     \* slot -> s_config_active_emit_counts
  tls,       \* client -> its cached copy of the pointer array
  tls_snap,  \* client -> the snapshot its copy was taken at
  pc,        \* client -> where it is in its call
  slot,      \* client -> the slot its call is about
  saved,     \* client -> sinks_to_release of its removal, or the sink it took out
  target,    \* client -> flush_target, or the configuration nei_log_get_config gave it
  queue,     \* committed events: the slot of the handle, the sink it then had
  consumed,  \* events the consumer has finished
  cpc,       \* where the consumer is
  cur,       \* the configuration it has acquired
  waiters,   \* clients blocked on s_runtime.cond
  created,   \* sinks created so far
  detached,  \* sinks that nei_log_remove_sink took out of their configuration
  released   \* sinks whose release callback has run

cfVars == <<ptr, snapshot, count>>
tlVars == <<tls, tls_snap>>
clVars == <<pc, slot, saved, target>>
coVars == <<queue, consumed, cpc, cur>>
hsVars == <<created, detached, released>>
vars   == <<cfVars, tlVars, clVars, coVars, waiters, hsVars>>

Unused == -1
NoSink == 0
NoneAcquired == [slot |-> 0, sink |-> Unused]
Table  == 0..MaxConfigs-1
SinkId == 0..MaxSinks

Goto(t, l) == pc' = [pc EXCEPT ![t] = l]

(* The call ends; its locals are gone. *)
Return(t) == /\ pc' = [pc EXCEPT ![t] = "idle"]
             /\ slot' = [slot EXCEPT ![t] = 0]
             /\ target' = [target EXCEPT ![t] = 0]

BumpSnapshot == snapshot < MaxSnapshot /\ snapshot' = snapshot + 1

Signal == IF waiters = {} THEN UNCHANGED waiters
          ELSE \E w \in waiters : waiters' = waiters \ {w}

----------------------------------------------------------------------------
(* nei_log_add_config: the first unused slot gets a private copy. *)
FreeSlots == {s \in Table \ {0} : ptr[s] = Unused}

AddConfig(t) ==
  /\ pc[t] = "idle" /\ created < MaxSinks
  /\ \E s \in FreeSlots : /\ \A r \in FreeSlots : s <= r
                          /\ ptr' = [ptr EXCEPT ![s] = created + 1]
  /\ created' = created + 1
  /\ BumpSnapshot
  /\ UNCHANGED <<count, tlVars, clVars, coVars, waiters, detached, released>>

(* nei_log_add_sink on the default configuration, edited in place. *)
AddDefaultSink(t) ==
  /\ pc[t] = "idle" /\ created < MaxSinks
  /\ ptr[0] = NoSink
  /\ ptr' = [ptr EXCEPT ![0] = created + 1]
  /\ created' = created + 1
  /\ UNCHANGED <<snapshot, count, tlVars, clVars, coVars, waiters, detached, released>>

UpdateConfig(t) ==
  /\ pc[t] = "idle"
  /\ BumpSnapshot
  /\ UNCHANGED <<ptr, count, tlVars, clVars, coVars, waiters, created, detached, released>>

(* Mutant of Unpublish: the snapshot is left alone. *)
UnpublishSilently(t, s) ==
  /\ pc[t] = "idle"
  /\ ptr[s] # Unused
  /\ saved' = [saved EXCEPT ![t] = {ptr[s]} \ ({NoSink} \cup detached)]
  /\ ptr' = [ptr EXCEPT ![s] = IF s = 0 THEN NoSink ELSE Unused]
  /\ slot' = [slot EXCEPT ![t] = s]
  /\ Goto(t, "quiesce")
  /\ UNCHANGED <<snapshot, count, tlVars, target, coVars, waiters, hsVars>>

(* Mutant of Unpublish: a default configuration keeps its sink. *)
UnpublishKeeps(t, s) ==
  /\ pc[t] = "idle"
  /\ ptr[s] # Unused
  /\ saved' = [saved EXCEPT ![t] = {ptr[s]} \ ({NoSink} \cup detached)]
  /\ ptr' = IF s = 0 THEN ptr ELSE [ptr EXCEPT ![s] = Unused]
  /\ BumpSnapshot
  /\ slot' = [slot EXCEPT ![t] = s]
  /\ Goto(t, "quiesce")
  /\ UNCHANGED <<count, tlVars, target, coVars, waiters, hsVars>>

(* nei_log_remove_config, the write-locked half: remember the sinks, then     *)
(* reset the default configuration or clear the slot.                         *)
Unpublish(t, s) ==
  /\ pc[t] = "idle"
  /\ ptr[s] # Unused
  /\ saved' = [saved EXCEPT ![t] = {ptr[s]} \ ({NoSink} \cup detached)]
  /\ ptr' = [ptr EXCEPT ![s] = IF s = 0 THEN NoSink ELSE Unused]
  /\ BumpSnapshot
  /\ slot' = [slot EXCEPT ![t] = s]
  /\ Goto(t, "quiesce")
  /\ UNCHANGED <<count, tlVars, target, coVars, waiters, hsVars>>

(* Mutant of QuiesceTest: no look at the count. *)
QuiesceSkip(t) ==
  /\ pc[t] = "quiesce"
  /\ Goto(t, "release")
  /\ UNCHANGED <<cfVars, tlVars, slot, saved, target, coVars, waiters, hsVars>>

(* _nei_log_wait_for_emit_quiescent: the test without the mutex ... *)
QuiesceTest(t) ==
  /\ pc[t] = "quiesce"
  /\ Goto(t, IF count[slot[t]] = 0 THEN "release" ELSE "qlock")
  /\ UNCHANGED <<cfVars, tlVars, slot, saved, target, coVars, waiters, hsVars>>

(* ... and the wait under it. *)
QuiesceWait(t) ==
  /\ pc[t] = "qlock" /\ t \notin waiters
  /\ IF count[slot[t]] # 0
     THEN waiters' = waiters \cup {t} /\ UNCHANGED pc
     ELSE Goto(t, "release") /\ UNCHANGED waiters
  /\ UNCHANGED <<cfVars, tlVars, slot, saved, target, coVars, hsVars>>

ReleaseSinks(t) ==
  /\ pc[t] = "release"
  /\ released' = released \cup saved[t]
  /\ saved' = [saved EXCEPT ![t] = {}]
  /\ Return(t)
  /\ UNCHANGED <<cfVars, tlVars, coVars, waiters, created, detached>>

----------------------------------------------------------------------------
(* nei_log_get_config, or nei_log_default_config: what it returns is used     *)
(* without the lock.                                                          *)
GetConfig(t, s) ==
  /\ t \in Editors /\ pc[t] = "idle" /\ ptr[s] \notin {Unused, NoSink} \cup detached
  /\ Cardinality(detached) + Cardinality({q \in Clients : pc[q] = "edit"}) < MaxEdits
  /\ slot' = [slot EXCEPT ![t] = s] /\ target' = [target EXCEPT ![t] = ptr[s]]
  /\ Goto(t, "edit")
  /\ UNCHANGED <<cfVars, tlVars, saved, coVars, waiters, hsVars>>

(* The sink of the configuration that t holds; nei_log_remove_sink takes it   *)
(* out, if it is there ...                                                    *)
HeldSink(t) == IF slot[t] = 0 THEN ptr[0] ELSE target[t]

RemoveSink(t) ==
  /\ pc[t] = "edit" /\ HeldSink(t) \notin {NoSink} \cup detached
  /\ saved' = [saved EXCEPT ![t] = {HeldSink(t)}]
  /\ detached' = detached \cup {HeldSink(t)}
  /\ ptr' = IF slot[t] = 0 THEN [ptr EXCEPT ![0] = NoSink] ELSE ptr
  /\ Goto(t, "byhand")
  /\ UNCHANGED <<snapshot, count, tlVars, slot, target, coVars, waiters, created, released>>

SinkNotFound(t) ==
  /\ pc[t] = "edit" /\ HeldSink(t) \in {NoSink} \cup detached
  /\ Return(t)
  /\ UNCHANGED <<cfVars, tlVars, saved, coVars, waiters, hsVars>>

(* ... and nei_log_release_sink calls its release callback, at once.          *)
ReleaseByHand(t) ==
  /\ pc[t] = "byhand"
  /\ released' = released \cup saved[t]
  /\ saved' = [saved EXCEPT ![t] = {}]
  /\ Return(t)
  /\ UNCHANGED <<cfVars, tlVars, coVars, waiters, created, detached>>

----------------------------------------------------------------------------
(* nei_llog with the handle of slot s: _nei_log_get_config_fast compares the  *)
(* snapshot without a lock, and copies the table under the read lock if it    *)
(* has moved.  The copy of slot 0, whose pointer never moves, is NoSink.       *)
LogStart(t, s) ==
  /\ pc[t] = "idle"
  /\ consumed + Len(queue) + Cardinality({q \in Clients : pc[q] \in {"refresh", "use"}}) < MaxEvents
  /\ slot' = [slot EXCEPT ![t] = s]
  /\ Goto(t, IF tls_snap[t] = snapshot THEN "use" ELSE "refresh")
  /\ UNCHANGED <<cfVars, tlVars, saved, target, coVars, waiters, hsVars>>

LogRefresh(t) ==
  /\ pc[t] = "refresh"
  /\ tls_snap' = [tls_snap EXCEPT ![t] = snapshot]
  /\ tls' = [tls EXCEPT ![t] = [ptr EXCEPT ![0] = NoSink]]
  /\ Goto(t, "use")
  /\ UNCHANGED <<cfVars, slot, saved, target, coVars, waiters, hsVars>>

(* The cached pointer is NULL, or the level is filtered out. *)
LogSkip(t) ==
  /\ pc[t] = "use"
  /\ Return(t)
  /\ UNCHANGED <<cfVars, tlVars, saved, coVars, waiters, hsVars>>

(* What the cached pointer shows: the default configuration is live. *)
Cached(t) == IF slot[t] = 0 THEN ptr[0] ELSE tls[t][slot[t]]

(* Mutant of LogEnqueue: the cached pointer is not compared with NULL. *)
LogEnqueueNull(t) ==
  /\ pc[t] = "use"
  /\ queue' = Append(queue, [slot |-> slot[t], sink |-> Cached(t)])
  /\ Return(t)
  /\ UNCHANGED <<cfVars, tlVars, saved, consumed, cpc, cur, waiters, hsVars>>

(* The event is serialized with its handle and queued. *)
LogEnqueue(t) ==
  /\ pc[t] = "use" /\ Cached(t) # Unused
  /\ queue' = Append(queue, [slot |-> slot[t], sink |-> Cached(t)])
  /\ Return(t)
  /\ UNCHANGED <<cfVars, tlVars, saved, consumed, cpc, cur, waiters, hsVars>>

(* nei_log_flush. *)
FlushCall(t) ==
  /\ pc[t] = "idle"
  /\ queue # <<>>
  /\ target' = [target EXCEPT ![t] = consumed + Len(queue)]
  /\ Goto(t, "flock")
  /\ UNCHANGED <<cfVars, tlVars, slot, saved, coVars, waiters, hsVars>>

FlushWait(t) ==
  /\ pc[t] = "flock" /\ t \notin waiters
  /\ IF consumed < target[t]
     THEN waiters' = waiters \cup {t} /\ UNCHANGED <<pc, slot, target>>
     ELSE Return(t) /\ UNCHANGED waiters
  /\ UNCHANGED <<cfVars, tlVars, saved, coVars, hsVars>>

----------------------------------------------------------------------------
(* _nei_log_process_events on the oldest event: its handle is resolved under  *)
(* the read lock, which also counts the consumer in.                          *)
ConsumerAcquire ==
  /\ cpc = "drain" /\ queue # <<>>
  /\ LET s == Head(queue).slot
     IN  IF ptr[s] # Unused
         THEN /\ count' = [count EXCEPT ![s] = @ + 1]
              /\ cur' = [slot |-> s, sink |-> ptr[s]]
              /\ cpc' = "format"
         ELSE UNCHANGED <<count, cur>> /\ cpc' = "free"
  /\ UNCHANGED <<ptr, snapshot, tlVars, clVars, queue, consumed, waiters, hsVars>>

(* _nei_log_emit_message: the sink's callback is entered.  The sinks of the   *)
(* configuration are read only now, those of the default one from its entry.  *)
ConsumerEmit ==
  /\ cpc = "format"
  /\ LET k == IF cur.slot = 0 THEN ptr[0] ELSE IF cur.sink \in detached THEN NoSink ELSE cur.sink
     IN  cur' = [cur EXCEPT !.sink = k]
  /\ cpc' = "callback"
  /\ UNCHANGED <<cfVars, tlVars, clVars, queue, consumed, waiters, hsVars>>

(* _nei_log_release_config_after_emit: count down, then signal one waiter. *)
ConsumerRelease ==
  /\ cpc = "callback"
  /\ count' = [count EXCEPT ![cur.slot] = @ - 1]
  /\ cur' = NoneAcquired
  /\ cpc' = IF count[cur.slot] = 1 THEN "signal" ELSE "free"
  /\ UNCHANGED <<ptr, snapshot, tlVars, clVars, queue, consumed, waiters, hsVars>>

ConsumerSignal ==
  /\ cpc = "signal"
  /\ Signal
  /\ cpc' = "free"
  /\ UNCHANGED <<cfVars, tlVars, clVars, queue, consumed, cur, hsVars>>

(* _nei_log_drain_ring: the slot is freed; an empty ring ends the drain. *)
ConsumerFree ==
  /\ cpc = "free"
  /\ queue' = Tail(queue)
  /\ consumed' = consumed + 1
  /\ cpc' = IF Len(queue) = 1 THEN "notify" ELSE "drain"
  /\ UNCHANGED <<cfVars, tlVars, clVars, cur, waiters, hsVars>>

(* Mutant of ConsumerNotify: no broadcast after a drain. *)
ConsumerNotifyNone ==
  /\ cpc = "notify"
  /\ cpc' = "drain"
  /\ UNCHANGED <<cfVars, tlVars, clVars, queue, consumed, cur, waiters, hsVars>>

ConsumerNotify ==
  /\ cpc = "notify"
  /\ waiters' = {}
  /\ cpc' = "drain"
  /\ UNCHANGED <<cfVars, tlVars, clVars, queue, consumed, cur, hsVars>>

----------------------------------------------------------------------------
Init ==
  /\ ptr = [s \in Table |-> IF s = 0 THEN NoSink ELSE Unused]
  /\ snapshot = 1
  /\ count = [s \in Table |-> 0]
  /\ tls = [t \in Clients |-> [s \in Table |-> Unused]]
  /\ tls_snap = [t \in Clients |-> 0]
  /\ pc = [t \in Clients |-> "idle"]
  /\ slot = [t \in Clients |-> 0]
  /\ saved = [t \in Clients |-> {}]
  /\ target = [t \in Clients |-> 0]
  /\ queue = <<>> /\ consumed = 0
  /\ cpc = "drain" /\ cur = NoneAcquired
  /\ waiters = {} /\ created = 0
  /\ detached = {} /\ released = {}

(* A client inside a call takes its next step. *)
Advance(t) ==
  \/ QuiesceTest(t) \/ QuiesceWait(t) \/ ReleaseSinks(t)
  \/ RemoveSink(t) \/ SinkNotFound(t) \/ ReleaseByHand(t)
  \/ LogRefresh(t) \/ LogSkip(t) \/ LogEnqueue(t) \/ FlushWait(t)

ConsumerStep ==
  \/ ConsumerAcquire \/ ConsumerEmit \/ ConsumerRelease \/ ConsumerSignal
  \/ ConsumerFree \/ ConsumerNotify

Next ==
  \/ \E t \in Clients : \/ AddConfig(t) \/ AddDefaultSink(t) \/ UpdateConfig(t)
                        \/ \E s \in Table : Unpublish(t, s) \/ GetConfig(t, s) \/ LogStart(t, s)
                        \/ FlushCall(t) \/ Advance(t)
  \/ ConsumerStep

Spec == Init /\ [][Next]_vars

(* Fairness: every thread inside a call, and the consumer, is scheduled. *)
FairSpec == Spec /\ WF_vars(ConsumerStep) /\ \A t \in Clients : WF_vars(Advance(t))
----------------------------------------------------------------------------
(* The type invariant. *)
TypeOK ==
  /\ ptr \in [Table -> SinkId \cup {Unused}] /\ ptr[0] # Unused
  /\ snapshot \in Nat
  /\ count \in [Table -> Int]
  /\ tls \in [Clients -> [Table -> SinkId \cup {Unused}]]
  /\ tls_snap \in [Clients -> Nat]
  /\ pc \in [Clients -> {"idle", "quiesce", "qlock", "release", "edit", "byhand", "refresh", "use", "flock"}]
  /\ slot \in [Clients -> Table]
  /\ saved \in [Clients -> SUBSET SinkId]
  /\ target \in [Clients -> Nat]
  /\ \A t \in Clients : pc[t] = "edit" => target[t] \in SinkId
  /\ queue \in Seq([slot : Table, sink : SinkId]) /\ consumed \in Nat
  /\ cpc \in {"drain", "format", "callback", "signal", "free", "notify"}
  /\ cpc \in {"format", "callback", "signal", "free"} => queue # <<>>
  /\ cur \in [slot : Table, sink : SinkId \cup {Unused}]
  /\ waiters \subseteq Clients
  /\ created \in SinkId
  /\ detached \subseteq SinkId /\ released \subseteq SinkId

(* A sink is never used once the removal of its configuration released it:    *)
(* not by the callback the consumer is in (or has acquired the configuration  *)
(* for), and not through the table, which _nei_log_auto_flush_file_sinks      *)
(* walks under the read lock.  Sinks taken out by hand are excepted           *)
(* (ByHandIsSafe).                                                            *)
NoUseAfterRelease ==
  /\ cur.sink \notin released \ detached
  /\ \A s \in Table : ptr[s] \notin released \ detached

(* No sink is released twice: removals that overlap, or that follow each      *)
(* other on a reused slot, never save the same sink - but for a sink that is  *)
(* taken out by hand meanwhile (ByHandOnce).                                  *)
ReleasedOnce ==
  \A t \in Clients :
    /\ saved[t] \cap released \subseteq detached
    /\ \A q \in Clients \ {t} : saved[t] \cap saved[q] \subseteq detached

(* A thread whose cached snapshot is current has the current table: a log     *)
(* call that starts after add or remove has returned never takes its handle   *)
(* from the old table (_nei_log_get_config_fast).  Slot 0 never moves.        *)
CacheCoherent ==
  \A t \in Clients : tls_snap[t] = snapshot => \A s \in Table \ {0} : tls[t][s] = ptr[s]

(* Under fair scheduling every removal and every flush returns, although the  *)
(* signal of _nei_log_release_config_after_emit may wake the wrong waiter.    *)
CallsReturn == \A t \in Clients : (pc[t] # "idle") ~> (pc[t] = "idle")

----------------------------------------------------------------------------
(* The inductive strengthening of NoUseAfterRelease and ReleasedOnce. *)

(* A sink that was not taken out by hand is in one place only: in the table,  *)
(* in one removal, or released.                                               *)
PlaceInv ==
  /\ \A s \in Table : ptr[s] \in 1..MaxSinks =>
       /\ ptr[s] <= created
       /\ \A r \in Table : ptr[r] = ptr[s] => r = s
       /\ ptr[s] \notin detached => ptr[s] \notin released /\ \A t \in Clients : ptr[s] \notin saved[t]
  /\ \A t \in Clients : \A k \in saved[t] : k # NoSink /\ k <= created
  /\ \A k \in released : k # NoSink /\ k <= created
  /\ \A k \in detached : k # NoSink /\ k <= created
  /\ \A t \in Clients : saved[t] # {} => pc[t] \in {"quiesce", "qlock", "release", "byhand"}
  /\ \A t \in Clients : pc[t] = "edit" => target[t] <= created
  /\ \A t \in Clients : pc[t] = "byhand" => saved[t] \subseteq detached

(* The count of a slot is 1 exactly while the consumer is inside it, and what *)
(* the consumer is inside is published, saved by a removal that waits, or was *)
(* taken out by hand.                                                         *)
Inside == cpc \in {"format", "callback"}
InsideInv ==
  /\ \A s \in Table : count[s] = IF Inside /\ cur.slot = s THEN 1 ELSE 0
  /\ ~Inside => cur.sink = Unused
  /\ Inside => \/ cur.sink \in {NoSink} \cup detached
               \/ cur.sink \in 1..MaxSinks /\ cur.sink = ptr[cur.slot]
               \/ \E t \in Clients : /\ cur.sink \in saved[t] /\ slot[t] = cur.slot
                                     /\ pc[t] \in {"quiesce", "qlock"}

SinkInv == ReleasedOnce /\ PlaceInv /\ InsideInv

(* The inductive strengthening of CacheCoherent: no copy is of the future. *)
CacheInv == CacheCoherent /\ \A t \in Clients : tls_snap[t] <= snapshot

(* While the consumer is idle with an empty ring nobody sleeps on the shared  *)
(* condition variable: a removal sleeps only while the consumer is inside a   *)
(* configuration, a flush only while its target is not consumed, and a drain  *)
(* ends with a broadcast.                                                     *)
NobodyStranded == cpc = "drain" /\ queue = <<>> => waiters = {}

(* Its strengthening: a flush waits for no more than has been queued. *)
StrandInv ==
  /\ NobodyStranded
  /\ \A t \in Clients : pc[t] = "flock" => target[t] <= consumed + Len(queue)
----------------------------------------------------------------------------
(* What the comments promise; the code does not keep these. *)

(* log_config.c: after the removal "queued events will resolve to NULL and be *)
(* skipped": no event reaches a configuration other than the one it was       *)
(* logged to.                                                                 *)
RemovedEventsSkipped ==
  [][cpc = "format" /\ cpc' = "callback" /\ cur.slot # 0 /\ cur'.sink # NoSink => cur'.sink = Head(queue).sink]_vars

(* log.h: the configuration of nei_log_get_config may be modified in place,   *)
(* and a sink that was removed be released: no callback is using it then.     *)
ByHandIsSafe == cur.sink \notin released \/ cpc # "callback"

(* And it is released only once, whoever removes the configuration meanwhile. *)
ByHandOnce == \A t, q \in Clients : t # q => saved[t] \cap (saved[q] \cup released) = {}

(* log.h: nei_log_remove_config flushes before it releases the sinks, so no   *)
(* event queued for a sink is left behind when it is released.                *)
RemoveFlushes ==
  [][\A t \in Clients : pc[t] = "release" /\ pc'[t] = "idle" =>
       \A i \in DOMAIN queue : queue[i].sink \notin saved[t]]_vars
=============================================================================
