------------------------- MODULE MCEventStoreSaver ---------------------------
(* EventStoreSaver for TLC: two commands of one aggregate and one of        *)
(* another.                                                                *)
EXTENDS EventStoreSaver, TLC

CONSTANTS c1, c2, c3, a1, a2, s1, s2, r1, r2

MCCommands == {c1, c2, c3}
MCAggregates == {a1, a2}
MCAggregateOf == (c1 :> a1) @@ (c2 :> a1) @@ (c3 :> a2)
OneShard == [a \in MCAggregates |-> s1]
ShardEach == (a1 :> s1) @@ (a2 :> s2)
=============================================================================
