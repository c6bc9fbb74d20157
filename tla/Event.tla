------------------------------- MODULE Event -------------------------------
(***************************************************************************)
(* What an event promises (atomic_event.h, waitable_event.h): Signal sets  *)
(* it, and a wait returns only when it is set; an automatic event lets one *)
(* wait through for each time it was set, a manual one lets all through    *)
(* until it is reset, an open gate (SignalAll) lets all through for good.  *)
(* A timed wait may give up at any time.                                   *)
(***************************************************************************)
CONSTANT Waiters

VARIABLES
  policy,    \* "automatic" or "manual"
  set,       \* the token of an automatic event, the state of a manual one
  gate,      \* opened for good
  result     \* waiter -> "none", "waiting", "through" or "timeout"

eventVars == <<policy, set, gate, result>>

Init ==
  /\ policy \in {"automatic", "manual"} /\ set = FALSE /\ gate = FALSE
  /\ result = [w \in Waiters |-> "none"]

Begin(w) == result[w] # "waiting" /\ result' = [result EXCEPT ![w] = "waiting"] /\ UNCHANGED <<policy, set, gate>>
Signal == ~set /\ ~gate /\ set' = TRUE /\ UNCHANGED <<policy, gate, result>>
SignalAll == ~gate /\ gate' = TRUE /\ UNCHANGED <<policy, set, result>>
Reset == set /\ set' = FALSE /\ UNCHANGED <<policy, gate, result>>

Through(w) ==
  /\ result[w] = "waiting" /\ (set \/ gate)
  /\ result' = [result EXCEPT ![w] = "through"]
  /\ set' = IF policy = "automatic" /\ ~gate THEN FALSE ELSE set
  /\ UNCHANGED <<policy, gate>>

Timeout(w) ==
  /\ result[w] = "waiting"
  /\ result' = [result EXCEPT ![w] = "timeout"]
  /\ UNCHANGED <<policy, set, gate>>

Next == Signal \/ SignalAll \/ Reset \/ \E w \in Waiters : Begin(w) \/ Through(w) \/ Timeout(w)

Spec == Init /\ [][Next]_eventVars
=============================================================================
