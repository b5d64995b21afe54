----------------------------- MODULE MCMailbox -------------------------------
(* Mailbox for TLC: all constants are given by the configurations.          *)
EXTENDS Mailbox, TLC

CONSTANTS d1, d2

MCDispatchers == {d1, d2}
=============================================================================
