------------------------------ MODULE MCEventBus ------------------------------
(* EventBus for TLC.                                                         *)
EXTENDS EventBus, TLC

CONSTANTS a1, t1, t2, h1, h2, h3

\* For the tables: a type with two handlers, one with a single handler, and a message
\* of each for the same aggregate.
TwoTypes == (t1 :> <<h1, h2>>) @@ (t2 :> <<h3>>)
MessageOfEach == <<<<a1, t1>>, <<a1, t2>>>>

\* For the ways of the messages: nobody subscribes.
NoHandlers == (t1 :> <<>>)
ThreeMessages == <<<<a1, t1>>, <<a1, t1>>, <<a1, t1>>>>

\* Callers are interchangeable (where no liveness is checked).
Symmetry == Permutations(Callers)
=============================================================================
