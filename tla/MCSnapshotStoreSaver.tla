------------------------- MODULE MCSnapshotStoreSaver -------------------------
(* SnapshotStoreSaver for TLC: two aggregates in one shard.                 *)
EXTENDS SnapshotStoreSaver, TLC

CONSTANTS a1, a2, s1

OneShard == [a \in {a1, a2} |-> s1]
MCMaxVersion == (a1 :> 5) @@ (a2 :> 3)
=============================================================================
