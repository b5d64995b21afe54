------------------------ MODULE MCPublishedStoreSaver ------------------------
(* PublishedStoreSaver for TLC: two aggregates in one shard.                *)
EXTENDS PublishedStoreSaver, TLC

CONSTANTS a1, a2, s1

MCAggregates == {a1, a2}
OneShard == [a \in MCAggregates |-> s1]
Symmetry == Permutations(MCAggregates)
=============================================================================
