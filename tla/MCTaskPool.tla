---------------------------- MODULE MCTaskPool ----------------------------
(* Model-checking instances of TaskPool: workers are interchangeable. *)
EXTENDS TaskPool, TLC

WorkerSymmetry == Permutations(Workers)

(* The queues all in one shard, or the dedicated ones in one of their own. *)
OneShard  == [q \in Queues |-> 0]
TwoShards == [q \in Queues |-> IF q \in Dedicated THEN 1 ELSE 0]
=============================================================================
