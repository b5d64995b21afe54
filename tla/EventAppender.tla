---------------------------- MODULE EventAppender ----------------------------
(***************************************************************************)
(* What an EventStoreSaver promises to those who append through it: a      *)
(* request is confirmed only when the stream of its command is in the      *)
(* store, a command is stored once, at the version its request asked for,  *)
(* and every request gets at most one answer.  A request may be refused    *)
(* although its stream was stored.                                         *)
(***************************************************************************)
EXTENDS Naturals, Sequences

CONSTANTS Requests, Commands, Aggregates, AggregateOf

VARIABLES
  log,     \* aggregate -> the commands of its streams, in version order
  asked,   \* request -> the command and the version it asks for, once made
  answers  \* request -> the answers it has got

vars == <<log, asked, answers>>

NotAsked == <<>>

Stored(c) == \E v \in DOMAIN log[AggregateOf[c]] : log[AggregateOf[c]][v] = c

Init ==
  /\ log = [a \in Aggregates |-> <<>>]
  /\ asked = [r \in Requests |-> NotAsked]
  /\ answers = [r \in Requests |-> <<>>]

Ask(r, c, v) ==
  /\ asked[r] = NotAsked
  /\ asked' = [asked EXCEPT ![r] = <<c, v>>]
  /\ UNCHANGED <<log, answers>>

Unanswered(r) == asked[r] # NotAsked /\ answers[r] = <<>>

Store(r) ==
  LET c == asked[r][1]  a == AggregateOf[c] IN
    /\ Unanswered(r)
    /\ ~ Stored(c)
    /\ asked[r][2] = Len(log[a]) + 1
    /\ log' = [log EXCEPT ![a] = Append(@, c)]
    /\ UNCHANGED <<asked, answers>>

Confirm(r) ==
  /\ Unanswered(r)
  /\ Stored(asked[r][1])
  /\ answers' = [answers EXCEPT ![r] = <<"nil">>]
  /\ UNCHANGED <<log, asked>>

Refuse(r) ==
  /\ Unanswered(r)
  /\ answers' = [answers EXCEPT ![r] = <<"error">>]
  /\ UNCHANGED <<log, asked>>

Next ==
  \E r \in Requests :
    \/ \E c \in Commands : \E v \in 1..(Len(log[AggregateOf[c]]) + 1) : Ask(r, c, v)
    \/ Store(r) \/ Confirm(r) \/ Refuse(r)

Spec == Init /\ [][Next]_vars
=============================================================================
