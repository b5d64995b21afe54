----------------------------- MODULE SerialActor -----------------------------
(***************************************************************************)
(* What a mailbox name promises to the goroutines that dispatch to it, as  *)
(* if there were one mailbox and it lived for ever: messages are queued,   *)
(* handled one at a time and in the order of the queue.  What the promise  *)
(* leaves open is Abandon: the queue may be dropped, never reordered.      *)
(***************************************************************************)
EXTENDS Naturals, Sequences

CONSTANTS Dispatchers, MailsPer, NoMail

VARIABLES
  queue,    \* messages accepted and not yet taken
  inHand,   \* the message being handled, or NoMail
  sent,     \* dispatcher -> how many of its messages were accepted
  handled   \* messages handled, in order

vars == <<queue, inHand, sent, handled>>

Init ==
  /\ queue = <<>>
  /\ inHand = NoMail
  /\ sent = [d \in Dispatchers |-> 0]
  /\ handled = <<>>

Accept(d) ==
  /\ sent[d] < MailsPer
  /\ queue' = Append(queue, [from |-> d, num |-> sent[d] + 1])
  /\ sent' = [sent EXCEPT ![d] = @ + 1]
  /\ UNCHANGED <<inHand, handled>>

Begin ==
  /\ inHand = NoMail
  /\ queue # <<>>
  /\ inHand' = Head(queue)
  /\ queue' = Tail(queue)
  /\ UNCHANGED <<sent, handled>>

Finish ==
  /\ inHand # NoMail
  /\ handled' = Append(handled, inHand)
  /\ inHand' = NoMail
  /\ UNCHANGED <<queue, sent>>

\* The messages queued when a mailbox gives up are never handled.
Abandon ==
  /\ inHand = NoMail
  /\ queue # <<>>
  /\ queue' = <<>>
  /\ UNCHANGED <<inHand, sent, handled>>

Next == (\E d \in Dispatchers : Accept(d)) \/ Begin \/ Finish \/ Abandon

Spec == Init /\ [][Next]_vars
=============================================================================
