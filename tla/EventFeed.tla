------------------------------ MODULE EventFeed ------------------------------
(***************************************************************************)
(* What event sourcing promises to the subscribers of one aggregate:       *)
(* streams are stored one after another, and every stream on the bus is a  *)
(* stored one whose predecessors have all been on the bus before.  A       *)
(* stream may be delivered again at any time.                              *)
(***************************************************************************)
EXTENDS Naturals, Sequences

CONSTANT Commands

VARIABLES
  log,   \* the stored streams: log[v] is the command that made version v
  bus    \* what the event bus was given, in order

vars == <<log, bus>>

Delivered(v) == \E i \in DOMAIN bus : bus[i].ver = v

Init ==
  /\ log = <<>>
  /\ bus = <<>>

Store(c) ==
  /\ log' = Append(log, c)
  /\ UNCHANGED bus

Deliver(v) ==
  /\ \A w \in 1..(v - 1) : Delivered(w)
  /\ bus' = Append(bus, [ver |-> v, cmd |-> log[v]])
  /\ UNCHANGED log

Next ==
  \/ \E c \in Commands : Store(c)
  \/ \E v \in DOMAIN log : Deliver(v)

Spec == Init /\ [][Next]_vars
=============================================================================
