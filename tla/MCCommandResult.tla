--------------------------- MODULE MCCommandResult ---------------------------
(* CommandResult for TLC: c1 raises an event with two handlers that ask to    *)
(* run in parallel and one between them that does not; c2 raises three        *)
(* events, of which nobody has subscribed to the second.                     *)
EXTENDS CommandResult, TLC

CONSTANTS k1, k2, c1, c2, e1, e2, e3, h1, h2, h3

MCSenders == {k1, k2}
MCCommands == {c1, c2}
Symmetry == Permutations(MCSenders)

MCStreamOf == (c1 :> <<e1>>) @@ (c2 :> <<e3, e2, e3>>)
MCHandlersOf == (e1 :> <<h2, h1, h3>>) @@ (e2 :> <<>>) @@ (e3 :> <<h1>>)
=============================================================================
