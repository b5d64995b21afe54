--------------------------- MODULE MCEventSourcing ---------------------------
(* EventSourcing for TLC.                                                   *)
EXTENDS EventSourcing, TLC

\* Nodes and commands are interchangeable where no liveness is checked.
Symmetry == Permutations(Nodes) \cup Permutations(Commands)
=============================================================================
