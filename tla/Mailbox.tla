------------------------------- MODULE Mailbox -------------------------------
(***************************************************************************)
(* One mailbox name of a DefaultMailboxProvider, seen by the goroutines    *)
(* that Dispatch to it: messaging/mailbox.go and the send loops of         *)
(* commanding/dispatcher.go and eventing/dispatcher.go.                    *)
(*                                                                         *)
(* A mailbox is created by the first sender that finds none, has a worker  *)
(* goroutine of its own, releases itself when it has been idle for a while *)
(* and is then created anew by the next sender: a "box" is one such        *)
(* incarnation.  Boxes are numbered in the order of their creation.        *)
(***************************************************************************)
EXTENDS Naturals, Sequences, FiniteSets

CONSTANTS
  Dispatchers,  \* goroutines that call Dispatch, each for one message at a time
  MailsPer,     \* how many messages each of them dispatches
  Capacity,     \* MailboxCapacity, the buffer of receiverCh
  MaxBoxes      \* bound: incarnations of the mailbox; the last is never released

ASSUME MailboxAssumption ==
  /\ MailsPer \in Nat \ {0}
  /\ Capacity \in Nat \ {0}
  /\ MaxBoxes \in Nat \ {0}

Boxes == 1..MaxBoxes
Mails == [from : Dispatchers, num : 1..MailsPer]

NoBox == 0
NoMail == [from |-> "nobody", num |-> 0]

VARIABLES
  mailboxes,  \* the entry of the provider's map for this name
  created,    \* how many boxes LoadOrStore has put into the map so far
  status,     \* box -> status word
  chan,       \* box -> receiverCh is nil, open or closed
  recv,       \* box -> what is buffered in receiverCh
  wpc,        \* box -> where its worker goroutine is
  cur,        \* box -> the mail in the hands of processMails
  drained,    \* box -> loop variable i of the drain loop
  pc,         \* dispatcher -> where it is in Dispatch
  mb,         \* dispatcher -> the box it has got hold of
  sent,       \* dispatcher -> how many of its mails a mailbox has accepted
  handled,    \* history: mails in the order their handling ended
  results,    \* mails whose result is in their ResultCh
  answered    \* mails whose result goroutine has received the result

boxVars == <<mailboxes, created, status, chan>>
workVars == <<wpc, cur, drained, handled, results>>
sendVars == <<pc, mb, sent>>
vars == <<boxVars, recv, workVars, sendVars, answered>>

Statuses == {"Disactived", "Actived", "Destoryed"}
WorkerAt == {"none", "select", "handle", "drain", "drainHandle", "close",
             "remove", "destroy", "exit"}
DispatchAt == {"idle", "make", "activate", "spin", "check", "send", "retry",
               "panicked"}

TypeOK ==
  /\ created \in 0..MaxBoxes
  /\ mailboxes \in 0..created
  /\ status \in [Boxes -> Statuses]
  /\ chan \in [Boxes -> {"nil", "open", "closed"}]
  /\ recv \in [Boxes -> Seq(Mails)]
  /\ \A b \in Boxes : Len(recv[b]) <= Capacity
  /\ wpc \in [Boxes -> WorkerAt]
  /\ cur \in [Boxes -> Mails \cup {NoMail}]
  /\ \A b \in Boxes : wpc[b] \in {"handle", "drainHandle"} => cur[b] \in Mails
  /\ drained \in [Boxes -> Nat]
  /\ pc \in [Dispatchers -> DispatchAt]
  /\ mb \in [Dispatchers -> 0..created]
  /\ \A d \in Dispatchers : pc[d] \in {"make", "activate", "spin", "check", "send"}
                              => mb[d] # NoBox
  /\ sent \in [Dispatchers -> 0..MailsPer]
  /\ \A d \in Dispatchers : pc[d] # "idle" => sent[d] < MailsPer
  /\ handled \in Seq(Mails)
  /\ results \subseteq Mails
  /\ answered \subseteq Mails

Init ==
  /\ mailboxes = NoBox
  /\ created = 0
  /\ status = [b \in Boxes |-> "Disactived"]
  /\ chan = [b \in Boxes |-> "nil"]
  /\ recv = [b \in Boxes |-> <<>>]
  /\ wpc = [b \in Boxes |-> "none"]
  /\ cur = [b \in Boxes |-> NoMail]
  /\ drained = [b \in Boxes |-> 0]
  /\ pc = [d \in Dispatchers |-> "idle"]
  /\ mb = [d \in Dispatchers |-> NoBox]
  /\ sent = [d \in Dispatchers |-> 0]
  /\ handled = <<>>
  /\ results = {}
  /\ answered = {}

-----------------------------------------------------------------------------
(* Dispatch, GetMailbox and SendMail, on the goroutine of dispatcher d.    *)

\* The mail d is dispatching.
Outgoing(d) == [from |-> d, num |-> sent[d] + 1]

Goto(d, label) == pc' = [pc EXCEPT ![d] = label]

\* Faulty variant: Load and Store instead of LoadOrStore, so that a mailbox may
\* have been put into the map in between.
GetMailboxNotAtomic(d) ==
  /\ \/ pc[d] = "idle" /\ sent[d] < MailsPer
     \/ pc[d] = "retry"
  /\ created < MaxBoxes
  /\ created' = created + 1
  /\ mailboxes' = created + 1
  /\ mb' = [mb EXCEPT ![d] = created + 1]
  /\ Goto(d, "make")
  /\ UNCHANGED <<status, chan, recv, workVars, sent, answered>>

\* LoadOrStore: d takes the mailbox of the map, or puts a new one there and is
\* the one who has to initialize it.
GetMailbox(d) ==
  /\ \/ pc[d] = "idle" /\ sent[d] < MailsPer
     \/ pc[d] = "retry"
  /\ \/ /\ mailboxes # NoBox
        /\ mb' = [mb EXCEPT ![d] = mailboxes]
        /\ Goto(d, "spin")
        /\ UNCHANGED <<mailboxes, created>>
     \/ /\ mailboxes = NoBox
        /\ created < MaxBoxes
        /\ created' = created + 1
        /\ mailboxes' = created + 1
        /\ mb' = [mb EXCEPT ![d] = created + 1]
        /\ Goto(d, "make")
  /\ UNCHANGED <<status, chan, recv, workVars, sent, answered>>

MakeChannel(d) ==
  /\ pc[d] = "make"
  /\ chan' = [chan EXCEPT ![mb[d]] = "open"]
  /\ Goto(d, "activate")
  /\ UNCHANGED <<mailboxes, created, status, recv, workVars, mb, sent, answered>>

\* status.Swap(statusActived), and the worker goroutine is started.
Activate(d) ==
  /\ pc[d] = "activate"
  /\ status' = [status EXCEPT ![mb[d]] = "Actived"]
  /\ wpc' = [wpc EXCEPT ![mb[d]] = "select"]
  /\ Goto(d, "spin")
  /\ UNCHANGED <<mailboxes, created, chan, recv, cur, drained, handled, results,
                 mb, sent, answered>>

\* Faulty variant: SendMail does not wait for the mailbox to be initialized.
LeaveSpinAtOnce(d) ==
  /\ pc[d] = "spin"
  /\ Goto(d, "check")
  /\ UNCHANGED <<boxVars, recv, workVars, mb, sent, answered>>

\* The load of the spin loop that finds the mailbox no longer Disactived.
LeaveSpin(d) ==
  /\ pc[d] = "spin"
  /\ status[mb[d]] # "Disactived"
  /\ Goto(d, "check")
  /\ UNCHANGED <<boxVars, recv, workVars, mb, sent, answered>>

\* The second load: only Destoryed makes SendMail return an error, after which
\* Dispatch gets a mailbox again.
CheckStatus(d) ==
  /\ pc[d] = "check"
  /\ Goto(d, IF status[mb[d]] = "Destoryed" THEN "retry" ELSE "send")
  /\ UNCHANGED <<boxVars, recv, workVars, mb, sent, answered>>

\* receiverCh <- data; Dispatch then starts the goroutine that waits for the
\* result and returns.
Send(d) ==
  /\ pc[d] = "send"
  /\ chan[mb[d]] = "open"
  /\ Len(recv[mb[d]]) < Capacity
  /\ recv' = [recv EXCEPT ![mb[d]] = Append(@, Outgoing(d))]
  /\ sent' = [sent EXCEPT ![d] = @ + 1]
  /\ Goto(d, "idle")
  /\ UNCHANGED <<boxVars, workVars, mb, answered>>

\* Faulty variant: the panic is recovered and SendMail returns nil.
SendPanicSwallowed(d) ==
  /\ pc[d] = "send"
  /\ chan[mb[d]] = "closed"
  /\ sent' = [sent EXCEPT ![d] = @ + 1]
  /\ Goto(d, "idle")
  /\ UNCHANGED <<boxVars, recv, workVars, mb, answered>>

\* Sending on a closed channel panics; nothing in Dispatch recovers.
SendPanics(d) ==
  /\ pc[d] = "send"
  /\ chan[mb[d]] = "closed"
  /\ Goto(d, "panicked")
  /\ UNCHANGED <<boxVars, recv, workVars, mb, sent, answered>>

\* The goroutine Dispatch left behind receives the result of mail m.
Answer(m) ==
  /\ m \in results
  /\ results' = results \ {m}
  /\ answered' = answered \cup {m}
  /\ UNCHANGED <<boxVars, recv, wpc, cur, drained, handled, sendVars>>

-----------------------------------------------------------------------------
(* The worker goroutine of box b.                                          *)

WorkerGoto(b, label) == wpc' = [wpc EXCEPT ![b] = label]

\* Faulty variant: the newest mail is taken.
TakeNewestMail(b, label) ==
  /\ recv[b] # <<>>
  /\ cur' = [cur EXCEPT ![b] = recv[b][Len(recv[b])]]
  /\ recv' = [recv EXCEPT ![b] = SubSeq(@, 1, Len(@) - 1)]
  /\ WorkerGoto(b, label)

\* Take the oldest mail out of the channel and start processMails on it.
TakeMail(b, label) ==
  /\ recv[b] # <<>>
  /\ cur' = [cur EXCEPT ![b] = Head(recv[b])]
  /\ recv' = [recv EXCEPT ![b] = Tail(@)]
  /\ WorkerGoto(b, label)

\* Faulty variant: nobody writes to ResultCh.
FinishMailWithoutResult(b, label) ==
  /\ handled' = Append(handled, cur[b])
  /\ UNCHANGED results
  /\ cur' = [cur EXCEPT ![b] = NoMail]
  /\ WorkerGoto(b, label)

\* processMails ends: the result goes to ResultCh, which has room for it.
FinishMail(b, label) ==
  /\ handled' = Append(handled, cur[b])
  /\ results' = results \cup {cur[b]}
  /\ cur' = [cur EXCEPT ![b] = NoMail]
  /\ WorkerGoto(b, label)

Receive(b) ==
  /\ wpc[b] = "select"
  /\ TakeMail(b, "handle")
  /\ UNCHANGED <<boxVars, drained, handled, results, sendVars, answered>>

Handle(b) ==
  /\ wpc[b] = "handle"
  /\ FinishMail(b, "select")
  /\ UNCHANGED <<boxVars, recv, drained, sendVars, answered>>

\* Faulty variant: the mailbox leaves the map before its channel is drained.
ReleaseRemovesFirst(b) ==
  /\ wpc[b] = "select"
  /\ b < MaxBoxes
  /\ status[b] = "Actived"
  /\ mailboxes' = NoBox
  /\ status' = [status EXCEPT ![b] = "Disactived"]
  /\ drained' = [drained EXCEPT ![b] = 0]
  /\ WorkerGoto(b, "drain")
  /\ UNCHANGED <<created, chan, recv, cur, handled, results, sendVars, answered>>

\* time.After fires and the CAS Actived -> Disactived succeeds.  A sender may
\* have filled the channel meanwhile: select does not prefer either case.
Release(b) ==
  /\ wpc[b] = "select"
  /\ b < MaxBoxes
  /\ status[b] = "Actived"
  /\ status' = [status EXCEPT ![b] = "Disactived"]
  /\ drained' = [drained EXCEPT ![b] = 0]
  /\ WorkerGoto(b, "drain")
  /\ UNCHANGED <<mailboxes, created, chan, recv, cur, handled, results,
                 sendVars, answered>>

\* for i := 0; i < len(receiverCh); i++: len is read anew in every round while
\* the rounds themselves shorten it.
DrainNext(b) ==
  /\ wpc[b] = "drain"
  /\ drained[b] < Len(recv[b])
  /\ TakeMail(b, "drainHandle")
  /\ UNCHANGED <<boxVars, drained, handled, results, sendVars, answered>>

DrainHandle(b) ==
  /\ wpc[b] = "drainHandle"
  /\ FinishMail(b, "drain")
  /\ drained' = [drained EXCEPT ![b] = @ + 1]
  /\ UNCHANGED <<boxVars, recv, sendVars, answered>>

DrainEnd(b) ==
  /\ wpc[b] = "drain"
  /\ drained[b] >= Len(recv[b])
  /\ WorkerGoto(b, "close")
  /\ UNCHANGED <<boxVars, recv, cur, drained, handled, results, sendVars, answered>>

Close(b) ==
  /\ wpc[b] = "close"
  /\ chan' = [chan EXCEPT ![b] = "closed"]
  /\ WorkerGoto(b, "remove")
  /\ UNCHANGED <<mailboxes, created, status, recv, cur, drained, handled,
                 results, sendVars, answered>>

\* removeSelf deletes whatever the map holds under this name.
Remove(b) ==
  /\ wpc[b] = "remove"
  /\ mailboxes' = NoBox
  /\ WorkerGoto(b, "destroy")
  /\ UNCHANGED <<created, status, chan, recv, cur, drained, handled, results,
                 sendVars, answered>>

\* Faulty variant: the mailbox stays Disactived.
DestroyKeepsStatus(b) ==
  /\ wpc[b] = "destroy"
  /\ WorkerGoto(b, "exit")
  /\ UNCHANGED <<boxVars, recv, cur, drained, handled, results, sendVars, answered>>

Destroy(b) ==
  /\ wpc[b] = "destroy"
  /\ status' = [status EXCEPT ![b] = IF @ = "Disactived" THEN "Destoryed" ELSE @]
  /\ WorkerGoto(b, "exit")
  /\ UNCHANGED <<mailboxes, created, chan, recv, cur, drained, handled, results,
                 sendVars, answered>>

-----------------------------------------------------------------------------
DispatcherStep(d) ==
  \/ GetMailbox(d) \/ MakeChannel(d) \/ Activate(d) \/ LeaveSpin(d)
  \/ CheckStatus(d) \/ Send(d) \/ SendPanics(d)

\* What the worker does without waiting for its timer.
WorkerStep(b) ==
  \/ Receive(b) \/ Handle(b) \/ DrainNext(b) \/ DrainHandle(b) \/ DrainEnd(b)
  \/ Close(b) \/ Remove(b) \/ Destroy(b)

Next ==
  \/ \E d \in Dispatchers : DispatcherStep(d)
  \/ \E b \in Boxes : WorkerStep(b) \/ Release(b)
  \/ \E m \in Mails : Answer(m)

Spec == Init /\ [][Next]_vars

\* The Go scheduler runs every goroutine that can run; a handler returns.
\* Nothing makes a mailbox release itself.
Fairness ==
  /\ \A d \in Dispatchers : WF_vars(DispatcherStep(d))
  /\ \A b \in Boxes : WF_vars(WorkerStep(b))
  /\ \A m \in Mails : WF_vars(Answer(m))

FairSpec == Spec /\ Fairness

-----------------------------------------------------------------------------
Handling(b) == wpc[b] \in {"handle", "drainHandle"}

\* Accepted mails: SendMail has returned nil for them.
Accepted(m) == m.num <= sent[m.from]

\* Where mail m is: boxes whose channel buffers it (with its position), the
\* worker that has it in hand, its places in the history of handled mails.
Places(m) ==
  (UNION {{<<"queued", b, i>> : i \in {j \in DOMAIN recv[b] : recv[b][j] = m}} :
            b \in Boxes})
  \cup {<<"cur", b, 0>> : b \in {c \in Boxes : cur[c] = m}}
  \cup {<<"handled", 0, i>> : i \in {j \in DOMAIN handled : handled[j] = m}}

(* Messages of one mailbox name are handled one at a time, also while one  *)
(* incarnation of the mailbox replaces another.                            *)
Serial == \A b, c \in Boxes : Handling(b) /\ Handling(c) => b = c

(* The messages one goroutine dispatches are handled in the order it       *)
(* dispatched them, and none of them twice.                                *)
InOrder ==
  \A i, j \in DOMAIN handled :
    i < j /\ handled[i].from = handled[j].from => handled[i].num < handled[j].num

(* SendMail never reaches a nil channel, where it would block for ever:    *)
(* whoever gets past the status checks finds receiverCh made.              *)
NeverSendsToNil == \A d \in Dispatchers : pc[d] = "send" => chan[mb[d]] # "nil"

(* An accepted mail is in exactly one place and any other mail in none:    *)
(* releasing and recreating the mailbox neither duplicates a mail nor      *)
(* makes it disappear from every channel.                                  *)
ExactlyOnePlace ==
  \A m \in Mails : Cardinality(Places(m)) = (IF Accepted(m) THEN 1 ELSE 0)

(* The entry a worker deletes from the map is its own.                     *)
RemovesItself == \A b \in Boxes : wpc[b] = "remove" => mailboxes = b

(* Dispatch returns (or panics): the spin on a mailbox being released, the *)
(* retry after "mailbox destoryed" and the wait for room in the channel    *)
(* all come to an end.                                                     *)
DispatchReturns ==
  \A d \in Dispatchers : pc[d] # "idle" ~> pc[d] \in {"idle", "panicked"}

(* As long as no mailbox is released, every accepted message is handled    *)
(* and its result reaches the dispatcher's callback.                       *)
AnsweredUnlessReleased ==
  \A m \in Mails :
    Accepted(m) ~> \/ m \in answered
                   \/ \E b \in Boxes : chan[b] = "closed"

(* Every accepted message is answered, released mailboxes or not.          *)
AcceptedIsAnswered == \A m \in Mails : Accepted(m) ~> m \in answered

-----------------------------------------------------------------------------
(* The incarnations together behave as one serial actor: its queue is the  *)
(* channel of the mailbox in the map as long as that channel is open.      *)
LiveQueue ==
  IF mailboxes = NoBox THEN <<>>
  ELSE IF chan[mailboxes] = "closed" THEN <<>> ELSE recv[mailboxes]
LiveHand == IF mailboxes = NoBox THEN NoMail ELSE cur[mailboxes]

Actor == INSTANCE SerialActor WITH queue <- LiveQueue, inHand <- LiveHand

(* A mailbox name implements the serial actor.                             *)
ImplementsActor == Actor!Spec
=============================================================================
