---------------------------- MODULE MailboxProofs ----------------------------
(***************************************************************************)
(* Theorems about Mailbox, for any dispatchers, mails, capacity and number *)
(* of incarnations.                                                        *)
(***************************************************************************)
EXTENDS Mailbox, FiniteSetTheorems, TLAPS

\* Incarnations that are still in the provider's map.
Alive(b) == wpc[b] \notin {"destroy", "exit"}

\* The worker of b still takes mails out of its channel.
Consuming(b) == wpc[b] \in {"select", "handle", "drain", "drainHandle"}

\* Boxes that LoadOrStore has not created yet are untouched.
Fresh == \A b \in Boxes : b > created => wpc[b] = "none"

\* At most one incarnation is alive: the one in the map.
Linked == \A b \in Boxes : b <= created /\ Alive(b) => mailboxes = b

\* A dispatcher initializing a box is the only one that does, and no worker
\* runs for that box yet.
Creators ==
  \A d \in Dispatchers : pc[d] \in {"make", "activate"} =>
    /\ wpc[mb[d]] = "none"
    /\ pc[d] = "activate" => chan[mb[d]] = "open"
    /\ \A e \in Dispatchers :
         pc[e] \in {"make", "activate"} /\ mb[e] = mb[d] => e = d

\* How the status word and the channel of a box follow its worker.
BoxState ==
  \A b \in Boxes :
    /\ wpc[b] = "none" => status[b] = "Disactived" /\ recv[b] = <<>>
    /\ wpc[b] \in {"select", "handle", "drain", "drainHandle", "close"}
         => chan[b] = "open"
    /\ wpc[b] \in {"remove", "destroy", "exit"} => chan[b] = "closed"

\* A sender past the status checks deals with a box that has been started.
PastSpin == \A d \in Dispatchers :
              pc[d] \in {"check", "send"} => wpc[mb[d]] # "none"

LifeInv == TypeOK /\ Fresh /\ Linked /\ Creators /\ BoxState /\ PastSpin

-----------------------------------------------------------------------------
(* Facts about sequences.                                                  *)

LEMMA AppendFacts ==
  ASSUME NEW S, NEW s \in Seq(S), NEW x \in S
  PROVE  /\ Append(s, x) \in Seq(S)
         /\ Len(Append(s, x)) = Len(s) + 1
         /\ DOMAIN Append(s, x) = 1..(Len(s) + 1)
         /\ \A i \in DOMAIN s : i \in 1..Len(s) /\ Append(s, x)[i] = s[i]
         /\ Append(s, x)[Len(s) + 1] = x
         /\ \A i \in DOMAIN Append(s, x) : i \in DOMAIN s \/ i = Len(s) + 1
  OBVIOUS

LEMMA TailFacts ==
  ASSUME NEW S, NEW s \in Seq(S), s # <<>>
  PROVE  /\ Head(s) \in S
         /\ Head(s) = s[1]
         /\ 1 \in DOMAIN s
         /\ Tail(s) \in Seq(S)
         /\ Len(Tail(s)) = Len(s) - 1
         /\ \A i \in DOMAIN Tail(s) : /\ i \in Nat
                                      /\ i + 1 \in DOMAIN s
                                      /\ 1 < i + 1
                                      /\ Tail(s)[i] = s[i + 1]
  OBVIOUS

-----------------------------------------------------------------------------
USE MailboxAssumption

LEMMA LifeInit == Init => LifeInv
<1> SUFFICES ASSUME Init PROVE LifeInv
  OBVIOUS
<1>1. recv \in [Boxes -> Seq(Mails)] /\ handled \in Seq(Mails)
      /\ \A b \in Boxes : Len(recv[b]) <= Capacity
  BY DEF Init
<1>2. TypeOK
  BY <1>1 DEF Init, TypeOK, NoBox, Statuses, WorkerAt, DispatchAt
<1>3. Fresh /\ Linked /\ Creators /\ BoxState /\ PastSpin
  BY DEF Init, Fresh, Linked, Creators, BoxState, PastSpin, Boxes
<1>4. QED
  BY <1>2, <1>3 DEF LifeInv

LEMMA TypeStep == TypeOK /\ [Next]_vars => TypeOK'
<1> SUFFICES ASSUME TypeOK, [Next]_vars PROVE TypeOK'
  OBVIOUS
<1> USE DEF TypeOK, Boxes, NoBox, Statuses, WorkerAt, DispatchAt
<1>1. ASSUME NEW d \in Dispatchers, GetMailbox(d) PROVE TypeOK'
  <2>1. CASE mailboxes # NoBox
    <3>1. mb' = [mb EXCEPT ![d] = mailboxes] /\ pc' = [pc EXCEPT ![d] = "spin"]
          /\ UNCHANGED <<mailboxes, created>>
      BY <2>1, <1>1 DEF GetMailbox, Goto
    <3>2. sent[d] < MailsPer
      BY <1>1 DEF GetMailbox
    <3>3. mb' \in [Dispatchers -> 0..created'] /\ pc' \in [Dispatchers -> DispatchAt]
      BY <3>1
    <3>4. QED
      BY <2>1, <3>1, <3>2, <3>3, <1>1 DEF GetMailbox, workVars
  <2>2. CASE mailboxes = NoBox
    <3>1. /\ mb' = [mb EXCEPT ![d] = created + 1] /\ pc' = [pc EXCEPT ![d] = "make"]
          /\ created < MaxBoxes /\ created' = created + 1 /\ mailboxes' = created + 1
      BY <2>2, <1>1 DEF GetMailbox, Goto
    <3>2. sent[d] < MailsPer
      BY <1>1 DEF GetMailbox
    <3>3. mb' \in [Dispatchers -> 0..created'] /\ pc' \in [Dispatchers -> DispatchAt]
      BY <3>1
    <3>4. QED
      BY <3>1, <3>2, <3>3, <1>1, SMTT(30) DEF GetMailbox, workVars
  <2>3. QED
    BY <2>1, <2>2
<1>2. ASSUME NEW d \in Dispatchers, MakeChannel(d) PROVE TypeOK'
  BY <1>2 DEF MakeChannel, Goto, workVars
<1>3. ASSUME NEW d \in Dispatchers, Activate(d) PROVE TypeOK'
  <2>1. mb[d] \in Boxes
    BY <1>3 DEF Activate
  <2>2. status' \in [Boxes -> Statuses] /\ wpc' \in [Boxes -> WorkerAt]
        /\ pc' \in [Dispatchers -> DispatchAt]
    BY <1>3 DEF Activate, Goto
  <2>3. QED
    BY <2>1, <2>2, <1>3, SMTT(30) DEF Activate, Goto
<1>4. ASSUME NEW d \in Dispatchers, LeaveSpin(d) PROVE TypeOK'
  BY <1>4 DEF LeaveSpin, Goto, boxVars, workVars
<1>5. ASSUME NEW d \in Dispatchers, CheckStatus(d) PROVE TypeOK'
  BY <1>5 DEF CheckStatus, Goto, boxVars, workVars
<1>6. ASSUME NEW d \in Dispatchers, Send(d) PROVE TypeOK'
  <2>0. /\ pc[d] = "send" /\ mb[d] \in 0..created /\ mb[d] # 0
        /\ sent[d] \in 0..MailsPer /\ sent[d] < MailsPer
        /\ sent' = [sent EXCEPT ![d] = sent[d] + 1]
        /\ pc' = [pc EXCEPT ![d] = "idle"]
    BY <1>6 DEF Send, Goto
  <2>1. mb[d] \in Boxes /\ Outgoing(d) \in Mails
    BY <2>0 DEF Outgoing, Mails
  <2>2. /\ Append(recv[mb[d]], Outgoing(d)) \in Seq(Mails)
        /\ Len(Append(recv[mb[d]], Outgoing(d))) <= Capacity
    <3>1. recv[mb[d]] \in Seq(Mails) /\ Len(recv[mb[d]]) < Capacity
      BY <2>1, <1>6 DEF Send
    <3>2. QED
      BY <3>1, <2>1, AppendFacts
  <2>3. recv' \in [Boxes -> Seq(Mails)] /\ \A b \in Boxes : Len(recv'[b]) <= Capacity
    BY <2>2, <1>6 DEF Send
  <2>4. sent' \in [Dispatchers -> 0..MailsPer] /\ pc' \in [Dispatchers -> DispatchAt]
    BY <2>0
  <2>5. \A e \in Dispatchers : pc'[e] # "idle" => sent'[e] < MailsPer
    BY <2>0
  <2>6. QED
    BY <2>3, <2>4, <2>5, <1>6 DEF Send, Goto, boxVars, workVars
<1>7. ASSUME NEW d \in Dispatchers, SendPanics(d) PROVE TypeOK'
  BY <1>7 DEF SendPanics, Goto, boxVars, workVars
<1>8. ASSUME NEW b \in Boxes, Receive(b) \/ DrainNext(b) PROVE TypeOK'
  <2>1. /\ Head(recv[b]) \in Mails
        /\ Tail(recv[b]) \in Seq(Mails)
        /\ Len(Tail(recv[b])) <= Capacity
    BY <1>8, TailFacts DEF Receive, DrainNext, TakeMail
  <2>2. CASE Receive(b)
    BY <2>1, <2>2 DEF Receive, TakeMail, WorkerGoto, boxVars, sendVars
  <2>3. CASE DrainNext(b)
    BY <2>1, <2>3 DEF DrainNext, TakeMail, WorkerGoto, boxVars, sendVars
  <2>4. QED
    BY <1>8, <2>2, <2>3
<1>9. ASSUME NEW b \in Boxes, Handle(b) \/ DrainHandle(b) PROVE TypeOK'
  <2>1. cur[b] \in Mails
    BY <1>9 DEF Handle, DrainHandle
  <2>2. handled' \in Seq(Mails) /\ results' \subseteq Mails
    <3>1. handled' = Append(handled, cur[b]) /\ results' = results \cup {cur[b]}
      BY <1>9 DEF Handle, DrainHandle, FinishMail
    <3>2. QED
      BY <3>1, <2>1, AppendFacts
  <2>3. CASE Handle(b)
    BY <2>2, <2>3 DEF Handle, FinishMail, WorkerGoto, boxVars, sendVars
  <2>4. CASE DrainHandle(b)
    BY <2>2, <2>4 DEF DrainHandle, FinishMail, WorkerGoto, boxVars, sendVars
  <2>5. QED
    BY <1>9, <2>3, <2>4
<1>10. ASSUME NEW b \in Boxes, Release(b) PROVE TypeOK'
  BY <1>10 DEF Release, WorkerGoto, sendVars
<1>11. ASSUME NEW b \in Boxes, DrainEnd(b) PROVE TypeOK'
  BY <1>11 DEF DrainEnd, WorkerGoto, boxVars, sendVars
<1>12. ASSUME NEW b \in Boxes, Close(b) PROVE TypeOK'
  BY <1>12 DEF Close, WorkerGoto, sendVars
<1>13. ASSUME NEW b \in Boxes, Remove(b) PROVE TypeOK'
  BY <1>13 DEF Remove, WorkerGoto, sendVars
<1>14. ASSUME NEW b \in Boxes, Destroy(b) PROVE TypeOK'
  BY <1>14 DEF Destroy, WorkerGoto, sendVars
<1>15. ASSUME NEW m \in Mails, Answer(m) PROVE TypeOK'
  BY <1>15 DEF Answer, boxVars, sendVars
<1>16. CASE UNCHANGED vars
  BY <1>16 DEF vars, boxVars, workVars, sendVars
<1>17. QED
  BY <1>1, <1>2, <1>3, <1>4, <1>5, <1>6, <1>7, <1>8, <1>9, <1>10, <1>11, <1>12,
     <1>13, <1>14, <1>15, <1>16
  DEF Next, DispatcherStep, WorkerStep

(* The variables of Mailbox have their types in every reachable state.     *)
THEOREM TypeCorrect == Spec => []TypeOK
<1>1. Init => TypeOK
  BY LifeInit DEF LifeInv
<1>2. QED
  BY <1>1, TypeStep, PTL DEF Spec

-----------------------------------------------------------------------------
(* The life of the incarnations.                                           *)

LEMMA LifeStep == LifeInv /\ [Next]_vars => LifeInv'
<1> SUFFICES ASSUME LifeInv, [Next]_vars PROVE LifeInv'
  OBVIOUS
<1>0. TypeOK'
  BY TypeStep DEF LifeInv
<1>1. /\ created \in Nat /\ created <= MaxBoxes /\ mailboxes \in 0..created
      /\ wpc \in [Boxes -> WorkerAt] /\ status \in [Boxes -> Statuses]
      /\ chan \in [Boxes -> {"nil", "open", "closed"}]
      /\ pc \in [Dispatchers -> DispatchAt] /\ mb \in [Dispatchers -> 0..created]
      /\ DOMAIN recv = Boxes
  BY DEF LifeInv, TypeOK
<1>2. \A d \in Dispatchers : pc[d] \in {"make", "activate", "spin", "check", "send"}
                               => mb[d] \in Boxes
  BY <1>1 DEF LifeInv, TypeOK, Boxes, NoBox
<1> DEFINE Rest == Fresh /\ Linked /\ Creators /\ BoxState /\ PastSpin
<1> SUFFICES ASSUME Rest PROVE Rest'
  BY <1>0 DEF LifeInv
<1> USE <1>1, <1>2 DEF Fresh, Linked, Creators, BoxState, PastSpin, Alive
<1>3. ASSUME NEW d \in Dispatchers, GetMailbox(d) PROVE Rest'
  <2>1. CASE mailboxes # NoBox
    <3>1. /\ mb' = [mb EXCEPT ![d] = mailboxes] /\ pc' = [pc EXCEPT ![d] = "spin"]
          /\ UNCHANGED <<created, mailboxes, wpc, status, chan, recv>>
      BY <2>1, <1>3 DEF GetMailbox, Goto, workVars
    <3>2. QED
      BY <3>1
  <2>2. CASE mailboxes = NoBox
    <3>1. /\ mb' = [mb EXCEPT ![d] = created + 1] /\ pc' = [pc EXCEPT ![d] = "make"]
          /\ created' = created + 1 /\ mailboxes' = created + 1
          /\ UNCHANGED <<wpc, status, chan, recv>>
          /\ created + 1 \in Boxes
      BY <2>2, <1>3 DEF GetMailbox, Goto, workVars, Boxes
    <3>2. \A b \in Boxes : b <= created => ~ Alive(b)
      BY <2>2 DEF NoBox, Boxes
    <3>3. Fresh' /\ Linked'
      BY <3>1, <3>2 DEF Boxes
    <3>4. Creators'
      <4>1. wpc[created + 1] = "none" /\ \A e \in Dispatchers : mb[e] # created + 1
        BY <3>1
      <4>2. pc'[d] = "make" /\ mb'[d] = created + 1
            /\ \A e \in Dispatchers \ {d} : pc'[e] = pc[e] /\ mb'[e] = mb[e]
        BY <3>1
      <4>3. QED
        BY <4>1, <4>2, <3>1
    <3>5. BoxState' /\ PastSpin'
      BY <3>1
    <3>6. QED
      BY <3>3, <3>4, <3>5
  <2>3. QED
    BY <2>1, <2>2
<1>4. ASSUME NEW d \in Dispatchers, MakeChannel(d) PROVE Rest'
  BY <1>4 DEF MakeChannel, Goto, workVars
<1>5. ASSUME NEW d \in Dispatchers, Activate(d) PROVE Rest'
  <2>1. /\ status' = [status EXCEPT ![mb[d]] = "Actived"]
        /\ wpc' = [wpc EXCEPT ![mb[d]] = "select"]
        /\ pc' = [pc EXCEPT ![d] = "spin"]
        /\ UNCHANGED <<created, mailboxes, chan, recv, mb>>
        /\ pc[d] = "activate" /\ mb[d] \in Boxes /\ mb[d] <= created
    BY <1>5 DEF Activate, Goto
  <2>2. wpc[mb[d]] = "none" /\ chan[mb[d]] = "open"
    BY <2>1
  <2>3. Fresh' /\ Linked'
    BY <2>1, <2>2
  <2>4. Creators' /\ PastSpin'
    BY <2>1
  <2>5. BoxState'
    BY <2>1, <2>2
  <2>6. QED
    BY <2>3, <2>4, <2>5
<1>6. ASSUME NEW d \in Dispatchers, LeaveSpin(d) PROVE Rest'
  BY <1>6 DEF LeaveSpin, Goto, boxVars, workVars
<1>7. ASSUME NEW d \in Dispatchers, CheckStatus(d) PROVE Rest'
  BY <1>7 DEF CheckStatus, Goto, boxVars, workVars
<1>8. ASSUME NEW d \in Dispatchers, Send(d) PROVE Rest'
  BY <1>8 DEF Send, Goto, boxVars, workVars
<1>9. ASSUME NEW d \in Dispatchers, SendPanics(d) PROVE Rest'
  BY <1>9 DEF SendPanics, Goto, boxVars, workVars
<1>10. ASSUME NEW b \in Boxes, Receive(b) \/ DrainNext(b) PROVE Rest'
  <2>1. \E label \in {"handle", "drainHandle"} : wpc' = [wpc EXCEPT ![b] = label]
    BY <1>10 DEF Receive, DrainNext, TakeMail, WorkerGoto
  <2>2. /\ wpc[b] \in {"select", "drain"} /\ UNCHANGED <<boxVars, pc, mb>>
        /\ recv' = [recv EXCEPT ![b] = Tail(recv[b])]
    BY <1>10 DEF Receive, DrainNext, TakeMail, sendVars
  <2>3. QED
    BY <2>1, <2>2 DEF boxVars
<1>11. ASSUME NEW b \in Boxes, Handle(b) \/ DrainHandle(b) PROVE Rest'
  <2>1. \E label \in {"select", "drain"} : wpc' = [wpc EXCEPT ![b] = label]
    BY <1>11 DEF Handle, DrainHandle, FinishMail, WorkerGoto
  <2>2. wpc[b] \in {"handle", "drainHandle"} /\ UNCHANGED <<boxVars, recv, pc, mb>>
    BY <1>11 DEF Handle, DrainHandle, sendVars
  <2>3. QED
    BY <2>1, <2>2 DEF boxVars
<1>12. ASSUME NEW b \in Boxes, Release(b) PROVE Rest'
  BY <1>12 DEF Release, WorkerGoto, sendVars
<1>13. ASSUME NEW b \in Boxes, DrainEnd(b) PROVE Rest'
  BY <1>13 DEF DrainEnd, WorkerGoto, boxVars, sendVars
<1>14. ASSUME NEW b \in Boxes, Close(b) PROVE Rest'
  BY <1>14 DEF Close, WorkerGoto, sendVars
<1>15. ASSUME NEW b \in Boxes, Remove(b) PROVE Rest'
  <2>1. b <= created /\ mailboxes = b
    BY <1>15, SMTT(30) DEF Remove, Boxes
  <2>2. \A c \in Boxes : c <= created /\ Alive(c) => c = b
    BY <2>1
  <2>3. /\ wpc' = [wpc EXCEPT ![b] = "destroy"] /\ wpc[b] = "remove"
        /\ UNCHANGED <<created, status, chan, recv, pc, mb>>
    BY <1>15 DEF Remove, WorkerGoto, sendVars
  <2>4. Fresh' /\ Linked' /\ BoxState'
    BY <2>1, <2>2, <2>3 DEF Boxes
  <2>5. Creators' /\ PastSpin'
    BY <2>1, <2>3
  <2>6. QED
    BY <2>4, <2>5
<1>16. ASSUME NEW b \in Boxes, Destroy(b) PROVE Rest'
  BY <1>16 DEF Destroy, WorkerGoto, sendVars
<1>17. ASSUME NEW m \in Mails, Answer(m) PROVE Rest'
  BY <1>17 DEF Answer, boxVars, sendVars
<1>18. CASE UNCHANGED vars
  BY <1>18 DEF vars, boxVars, workVars, sendVars
<1>19. QED
  BY <1>3, <1>4, <1>5, <1>6, <1>7, <1>8, <1>9, <1>10, <1>11, <1>12, <1>13,
     <1>14, <1>15, <1>16, <1>17, <1>18
  DEF Next, DispatcherStep, WorkerStep

LEMMA LifeCorrect == Spec => []LifeInv
  BY LifeInit, LifeStep, PTL DEF Spec

(* Whatever the number of incarnations, two mails of one mailbox name are  *)
(* never handled at the same time.                                         *)
THEOREM SerialCorrect == Spec => []Serial
<1>1. LifeInv => Serial
  <2> SUFFICES ASSUME LifeInv, NEW b \in Boxes, NEW c \in Boxes,
                      Handling(b), Handling(c)
               PROVE  b = c
    BY DEF Serial
  <2>1. created \in Nat /\ b \in Nat /\ c \in Nat
    BY DEF LifeInv, TypeOK, Boxes
  <2>2. b <= created /\ c <= created
    BY <2>1 DEF LifeInv, Fresh, Handling
  <2>3. QED
    BY <2>2 DEF LifeInv, Linked, Alive, Handling
<1>2. QED
  BY <1>1, LifeCorrect, PTL

(* A worker that calls removeSelf finds itself in the map, so it never     *)
(* removes its successor.                                                  *)
THEOREM RemovesItselfCorrect == Spec => []RemovesItself
<1>1. LifeInv => RemovesItself
  <2> SUFFICES ASSUME LifeInv, NEW b \in Boxes, wpc[b] = "remove"
               PROVE  mailboxes = b
    BY DEF RemovesItself
  <2>1. created \in Nat /\ b \in Nat
    BY DEF LifeInv, TypeOK, Boxes
  <2>2. b <= created
    BY <2>1 DEF LifeInv, Fresh
  <2>3. QED
    BY <2>2 DEF LifeInv, Linked, Alive
<1>2. QED
  BY <1>1, LifeCorrect, PTL

(* SendMail never blocks on a nil channel.                                 *)
THEOREM NeverSendsToNilCorrect == Spec => []NeverSendsToNil
<1>1. LifeInv => NeverSendsToNil
  <2> SUFFICES ASSUME LifeInv, NEW d \in Dispatchers, pc[d] = "send"
               PROVE  chan[mb[d]] # "nil"
    BY DEF NeverSendsToNil
  <2>1. mb[d] \in Boxes
    BY DEF LifeInv, TypeOK, Boxes, NoBox
  <2>2. wpc[mb[d]] \in WorkerAt \ {"none"}
    BY <2>1 DEF LifeInv, TypeOK, PastSpin
  <2>3. QED
    BY <2>1, <2>2 DEF LifeInv, BoxState, WorkerAt
<1>2. QED
  BY <1>1, LifeCorrect, PTL

-----------------------------------------------------------------------------
(* Order.  A dispatcher's mails are numbered; wherever two of them are, the *)
(* one handled, in hand or nearer to the head of the channel is the older. *)

Precedes(m, n) == m.from = n.from => m.num < n.num

Ordered(s) == \A i, j \in DOMAIN s : i < j => Precedes(s[i], s[j])

\* Only accepted mails are anywhere.
OnlyAccepted ==
  /\ \A i \in DOMAIN handled : Accepted(handled[i])
  /\ \A b \in Boxes : \A i \in DOMAIN recv[b] : Accepted(recv[b][i])
  /\ \A b \in Boxes : Handling(b) => Accepted(cur[b])

\* The order along handled, then the mail in hand, then the channel.
Order ==
  /\ Ordered(handled)
  /\ \A b \in Boxes : Ordered(recv[b])
  /\ \A b \in Boxes : Consuming(b) =>
       \A i \in DOMAIN handled : \A j \in DOMAIN recv[b] :
         Precedes(handled[i], recv[b][j])
  /\ \A b \in Boxes : Handling(b) =>
       /\ \A i \in DOMAIN handled : Precedes(handled[i], cur[b])
       /\ \A j \in DOMAIN recv[b] : Precedes(cur[b], recv[b][j])

OrderInv == OnlyAccepted /\ Order

LEMMA OrderInit == Init => OrderInv
  BY DEF Init, OrderInv, OnlyAccepted, Order, Ordered, Consuming, Handling

\* d's next mail follows every mail of d that is anywhere.
LEMMA SendKeepsOrder ==
  ASSUME LifeInv, OrderInv, NEW d \in Dispatchers, Send(d)
  PROVE  OrderInv'
<1>a. PICK x : x = Outgoing(d)
  OBVIOUS
<1>b. PICK q : q = mb[d]
  OBVIOUS
<1>1. /\ pc[d] = "send" /\ q \in Boxes /\ sent[d] \in Nat
      /\ recv \in [Boxes -> Seq(Mails)] /\ sent \in [Dispatchers -> Nat]
      /\ sent[d] < MailsPer
  BY <1>b, SMTT(30) DEF Send, LifeInv, TypeOK, Boxes, NoBox
<1>2. /\ recv' = [recv EXCEPT ![q] = Append(recv[q], x)]
      /\ sent' = [sent EXCEPT ![d] = sent[d] + 1]
      /\ UNCHANGED <<handled, cur, wpc>>
  BY <1>a, <1>b DEF Send, workVars
<1>3. x \in Mails /\ x.from = d /\ x.num = sent[d] + 1
  BY <1>1, <1>a DEF Outgoing, Mails
<1>4. \A m \in Mails : Accepted(m) => Accepted(m)' /\ Precedes(m, x)
  BY <1>1, <1>2, <1>3 DEF Accepted, Precedes, Mails
<1>5. Accepted(x)'
  BY <1>1, <1>2, <1>3 DEF Accepted
<1>6. /\ \A b \in Boxes \ {q} : recv'[b] = recv[b]
      /\ recv'[q] = Append(recv[q], x)
      /\ recv[q] \in Seq(Mails)
  BY <1>1, <1>2
<1>7. /\ \A i \in DOMAIN recv[q] : recv'[q][i] = recv[q][i]
      /\ recv'[q][Len(recv[q]) + 1] = x
      /\ DOMAIN recv[q] = 1..Len(recv[q]) /\ Len(recv[q]) \in Nat
      /\ \A i \in DOMAIN recv'[q] : i \in DOMAIN recv[q] \/ i = Len(recv[q]) + 1
      /\ \A i \in DOMAIN recv[q] : recv[q][i] \in Mails
  BY <1>3, <1>6, AppendFacts
<1>8. /\ \A i \in DOMAIN handled : handled[i] \in Mails
      /\ \A b \in Boxes : \A i \in DOMAIN recv[b] : recv[b][i] \in Mails
      /\ \A b \in Boxes : Handling(b) => cur[b] \in Mails
  BY DEF LifeInv, TypeOK, Handling
<1>9. OnlyAccepted'
  <2>1. \A i \in DOMAIN handled' : Accepted(handled[i])'
    BY <1>2, <1>4, <1>8 DEF OrderInv, OnlyAccepted
  <2>2. \A b \in Boxes : \A i \in DOMAIN recv'[b] : Accepted(recv[b][i])'
    BY <1>4, <1>5, <1>6, <1>7, <1>8 DEF OrderInv, OnlyAccepted
  <2>3. \A b \in Boxes : Handling(b)' => Accepted(cur[b])'
    BY <1>2, <1>4, <1>8 DEF OrderInv, OnlyAccepted, Handling
  <2>4. QED
    BY <2>1, <2>2, <2>3 DEF OnlyAccepted
<1>10. Order'
  <2>1. Ordered(handled)'
    BY <1>2 DEF OrderInv, Order, Ordered
  <2>2. \A b \in Boxes : Ordered(recv[b])'
    <3>1. \A b \in Boxes \ {q} : Ordered(recv[b])'
      BY <1>6 DEF OrderInv, Order, Ordered
    <3>2. \A i \in DOMAIN recv[q] : Precedes(recv[q][i], x)
      BY <1>1, <1>4, <1>7 DEF OrderInv, OnlyAccepted
    <3>3. Ordered(recv[q])
      BY <1>1 DEF OrderInv, Order
    <3>4. Ordered(recv[q])'
      BY <3>2, <3>3, <1>7 DEF Ordered
    <3>5. QED
      BY <3>1, <3>4
  <2>3. \A b \in Boxes : Consuming(b)' =>
          \A i \in DOMAIN handled' : \A j \in DOMAIN recv'[b] :
            Precedes(handled[i], recv[b][j])'
    <3>1. \A i \in DOMAIN handled : Precedes(handled[i], x)
      BY <1>4, <1>8 DEF OrderInv, OnlyAccepted
    <3>2. \A b \in Boxes : Consuming(b) => \A i \in DOMAIN handled :
            \A j \in DOMAIN recv[b] : Precedes(handled[i], recv[b][j])
      BY DEF OrderInv, Order
    <3>3. QED
      BY <3>1, <3>2, <1>2, <1>6, <1>7 DEF Consuming, Precedes
  <2>4. \A b \in Boxes : Handling(b)' =>
          /\ \A i \in DOMAIN handled' : Precedes(handled[i], cur[b])'
          /\ \A j \in DOMAIN recv'[b] : Precedes(cur[b], recv[b][j])'
    <3>1. \A b \in Boxes : Handling(b) =>
            /\ Precedes(cur[b], x)
            /\ \A i \in DOMAIN handled : Precedes(handled[i], cur[b])
            /\ \A j \in DOMAIN recv[b] : Precedes(cur[b], recv[b][j])
      BY <1>4, <1>8 DEF OrderInv, Order, OnlyAccepted
    <3>2. QED
      BY <3>1, <1>2, <1>6, <1>7 DEF Handling, Precedes
  <2>5. QED
    BY <2>1, <2>2, <2>3, <2>4 DEF Order
<1>11. QED
  BY <1>9, <1>10 DEF OrderInv

\* The oldest mail of the channel becomes the mail in hand.
LEMMA TakeKeepsOrder ==
  ASSUME LifeInv, OrderInv, NEW b \in Boxes, Receive(b) \/ DrainNext(b)
  PROVE  OrderInv'
<1>1. /\ wpc[b] \in {"select", "drain"} /\ recv[b] # <<>>
      /\ recv \in [Boxes -> Seq(Mails)]
      /\ cur \in [Boxes -> Mails \cup {NoMail}] /\ wpc \in [Boxes -> WorkerAt]
  BY DEF Receive, DrainNext, TakeMail, LifeInv, TypeOK
<1>2. /\ recv' = [recv EXCEPT ![b] = Tail(recv[b])]
      /\ cur' = [cur EXCEPT ![b] = Head(recv[b])]
      /\ UNCHANGED <<handled, sent>>
      /\ \E label \in {"handle", "drainHandle"} : wpc' = [wpc EXCEPT ![b] = label]
  BY DEF Receive, DrainNext, TakeMail, WorkerGoto, sendVars
<1>3. /\ Head(recv[b]) = recv[b][1] /\ 1 \in DOMAIN recv[b]
      /\ \A i \in DOMAIN Tail(recv[b]) :
           i \in Nat /\ i + 1 \in DOMAIN recv[b] /\ 1 < i + 1
           /\ Tail(recv[b])[i] = recv[b][i + 1]
  BY <1>1, TailFacts
<1>4. /\ \A c \in Boxes \ {b} : recv'[c] = recv[c] /\ cur'[c] = cur[c] /\ wpc'[c] = wpc[c]
      /\ recv'[b] = Tail(recv[b]) /\ cur'[b] = recv[b][1]
  BY <1>1, <1>2, <1>3
<1>5. OnlyAccepted'
  <2>1. \A m : Accepted(m)' <=> Accepted(m)
    BY <1>2 DEF Accepted
  <2>2. QED
    BY <2>1, <1>2, <1>3, <1>4 DEF OrderInv, OnlyAccepted, Handling
<1>6. Order'
  <2>1. Ordered(handled)'
    BY <1>2 DEF OrderInv, Order, Ordered
  <2>2. \A c \in Boxes : Ordered(recv[c])'
    <3>1. Ordered(recv[b])'
      BY <1>3, <1>4 DEF OrderInv, Order, Ordered
    <3>2. \A c \in Boxes \ {b} : Ordered(recv[c])'
      BY <1>4 DEF OrderInv, Order, Ordered
    <3>3. QED
      BY <3>1, <3>2
  <2>3. Consuming(b)
    BY <1>1 DEF Consuming
  <2>4. \A c \in Boxes : Consuming(c)' =>
          \A i \in DOMAIN handled' : \A j \in DOMAIN recv'[c] :
            Precedes(handled[i], recv[c][j])'
    BY <2>3, <1>2, <1>3, <1>4, SMTT(30) DEF OrderInv, Order, Consuming, Precedes
  <2>5. \A c \in Boxes : Handling(c)' =>
          /\ \A i \in DOMAIN handled' : Precedes(handled[i], cur[c])'
          /\ \A j \in DOMAIN recv'[c] : Precedes(cur[c], recv[c][j])'
    <3>1. /\ \A i \in DOMAIN handled : Precedes(handled[i], recv[b][1])
          /\ \A j \in DOMAIN Tail(recv[b]) : Precedes(recv[b][1], Tail(recv[b])[j])
      BY <2>3, <1>3 DEF OrderInv, Order, Ordered
    <3>2. \A c \in Boxes \ {b} : Handling(c)' =>
            /\ \A i \in DOMAIN handled : Precedes(handled[i], cur[c])
            /\ \A j \in DOMAIN recv[c] : Precedes(cur[c], recv[c][j])
      BY <1>4 DEF OrderInv, Order, Handling
    <3>3. /\ \A i \in DOMAIN handled' : Precedes(handled[i], cur[b])'
          /\ \A j \in DOMAIN recv'[b] : Precedes(cur[b], recv[b][j])'
      BY <3>1, <1>2, <1>4 DEF Precedes
    <3>4. \A c \in Boxes \ {b} : Handling(c)' =>
            /\ \A i \in DOMAIN handled' : Precedes(handled[i], cur[c])'
            /\ \A j \in DOMAIN recv'[c] : Precedes(cur[c], recv[c][j])'
      BY <3>2, <1>2, <1>4 DEF Precedes
    <3>5. QED
      BY <3>3, <3>4
  <2>6. QED
    BY <2>1, <2>2, <2>4, <2>5 DEF Order
<1>7. QED
  BY <1>5, <1>6 DEF OrderInv

\* The mail in hand is appended to the history; by Linked no other box is
\* taking mails.
LEMMA FinishKeepsOrder ==
  ASSUME LifeInv, OrderInv, NEW b \in Boxes, Handle(b) \/ DrainHandle(b)
  PROVE  OrderInv'
<1>1. Handling(b) /\ cur[b] \in Mails /\ handled \in Seq(Mails)
      /\ wpc \in [Boxes -> WorkerAt] /\ DOMAIN cur = Boxes
  BY DEF Handle, DrainHandle, Handling, LifeInv, TypeOK
<1>2. /\ handled' = Append(handled, cur[b])
      /\ UNCHANGED <<recv, sent>>
      /\ \E label \in {"select", "drain"} : wpc' = [wpc EXCEPT ![b] = label]
      /\ \A c \in Boxes \ {b} : cur'[c] = cur[c]
  BY <1>1 DEF Handle, DrainHandle, FinishMail, WorkerGoto, sendVars
<1>3. \A c \in Boxes \ {b} : ~ Consuming(c)' /\ ~ Handling(c)'
  <2> SUFFICES ASSUME NEW c \in Boxes \ {b}, Consuming(c) \/ Handling(c) PROVE FALSE
    BY <1>1, <1>2 DEF Consuming, Handling
  <2>1. created \in Nat /\ b \in Nat /\ c \in Nat
    BY DEF LifeInv, TypeOK, Boxes
  <2>2. b <= created /\ c <= created
    BY <2>1, <1>1 DEF LifeInv, Fresh, Handling, Consuming
  <2>3. mailboxes = b /\ mailboxes = c
    BY <2>2, <1>1 DEF LifeInv, Linked, Alive, Handling, Consuming
  <2>4. QED
    BY <2>3
<1>4. ~ Handling(b)'
  BY <1>1, <1>2 DEF Handling
<1>5. /\ \A i \in DOMAIN handled : handled'[i] = handled[i]
      /\ handled'[Len(handled) + 1] = cur[b]
      /\ DOMAIN handled = 1..Len(handled) /\ Len(handled) \in Nat
      /\ \A i \in DOMAIN handled' : i \in DOMAIN handled \/ i = Len(handled) + 1
  BY <1>1, <1>2, AppendFacts
<1>6. OnlyAccepted'
  <2>1. \A m : Accepted(m)' <=> Accepted(m)
    BY <1>2 DEF Accepted
  <2>2. QED
    BY <2>1, <1>1, <1>2, <1>3, <1>4, <1>5 DEF OrderInv, OnlyAccepted
<1>7. Order'
  <2>1. Ordered(handled)'
    <3>1. Ordered(handled) /\ \A i \in DOMAIN handled : Precedes(handled[i], cur[b])
      BY <1>1 DEF OrderInv, Order
    <3>2. QED
      BY <3>1, <1>5 DEF Ordered
  <2>2. \A c \in Boxes : Ordered(recv[c])'
    BY <1>2 DEF OrderInv, Order, Ordered
  <2>3. \A i \in DOMAIN handled' : \A j \in DOMAIN recv[b] :
          Precedes(handled'[i], recv[b][j])
    BY <1>1, <1>5 DEF OrderInv, Order, Handling, Consuming
  <2>4. QED
    BY <2>1, <2>2, <2>3, <1>2, <1>3, <1>4 DEF Order, Precedes
<1>8. QED
  BY <1>6, <1>7 DEF OrderInv

LEMMA OrderStep == LifeInv /\ OrderInv /\ [Next]_vars => OrderInv'
<1> SUFFICES ASSUME LifeInv, OrderInv, [Next]_vars PROVE OrderInv'
  OBVIOUS
<1>1. ASSUME UNCHANGED <<handled, recv, cur, sent>>,
             \A b \in Boxes : /\ Consuming(b)' => Consuming(b) \/ recv[b] = <<>>
                              /\ Handling(b)' => Handling(b)
      PROVE  OrderInv'
  BY <1>1 DEF OrderInv, OnlyAccepted, Order, Ordered, Precedes, Accepted
<1>2. wpc \in [Boxes -> WorkerAt]
  BY DEF LifeInv, TypeOK
<1>3. ASSUME NEW d \in Dispatchers, Activate(d) PROVE OrderInv'
  <2>1. mb[d] \in Boxes /\ recv[mb[d]] = <<>>
    BY <1>3 DEF Activate, LifeInv, TypeOK, Creators, BoxState, Boxes, NoBox
  <2>2. wpc' = [wpc EXCEPT ![mb[d]] = "select"] /\ UNCHANGED <<handled, recv, cur, sent>>
    BY <1>3 DEF Activate
  <2>3. QED
    BY <2>1, <2>2, <1>1, <1>2 DEF Consuming, Handling
<1>4. ASSUME NEW d \in Dispatchers,
             GetMailbox(d) \/ MakeChannel(d) \/ LeaveSpin(d) \/ CheckStatus(d)
               \/ SendPanics(d)
      PROVE  OrderInv'
  <2>1. UNCHANGED <<handled, recv, cur, sent, wpc>>
    BY <1>4 DEF GetMailbox, MakeChannel, LeaveSpin, CheckStatus, SendPanics, workVars
  <2>2. QED
    BY <2>1, <1>1 DEF Consuming, Handling
<1>5. ASSUME NEW b \in Boxes,
             Release(b) \/ DrainEnd(b) \/ Close(b) \/ Remove(b) \/ Destroy(b)
      PROVE  OrderInv'
  <2>1. UNCHANGED <<handled, recv, cur, sent>>
    BY <1>5 DEF Release, DrainEnd, Close, Remove, Destroy, sendVars
  <2>2. \/ wpc[b] = "select" /\ wpc' = [wpc EXCEPT ![b] = "drain"]
        \/ \E label \in {"close", "remove", "destroy", "exit"} :
             wpc' = [wpc EXCEPT ![b] = label]
    BY <1>5 DEF Release, DrainEnd, Close, Remove, Destroy, WorkerGoto
  <2>3. QED
    BY <2>1, <2>2, <1>1, <1>2 DEF Consuming, Handling
<1>6. ASSUME NEW m \in Mails, Answer(m) PROVE OrderInv'
  BY <1>6, <1>1 DEF Answer, sendVars, Consuming, Handling
<1>7. CASE UNCHANGED vars
  BY <1>7, <1>1 DEF vars, workVars, sendVars, Consuming, Handling
<1>8. QED
  BY <1>3, <1>4, <1>5, <1>6, <1>7, SendKeepsOrder, TakeKeepsOrder, FinishKeepsOrder
  DEF Next, DispatcherStep, WorkerStep

(* Each dispatcher's messages are handled in the order it dispatched them, *)
(* at most once each, through any number of releases.                      *)
THEOREM InOrderCorrect == Spec => []InOrder
<1>1. LifeInv /\ OrderInv => InOrder
  BY DEF OrderInv, Order, Ordered, Precedes, InOrder
<1>2. Spec => []OrderInv
  BY OrderInit, OrderStep, LifeCorrect, PTL DEF Spec
<1>3. QED
  BY <1>1, <1>2, LifeCorrect, PTL

-----------------------------------------------------------------------------
(* The serial actor.  A worker that is taking mails, and the box a sender   *)
(* finds open, is the one in the map; what is created or removed is empty.  *)

HandInv == \A b \in Boxes : ~ Handling(b) => cur[b] = NoMail

LEMMA HandInit == Init => HandInv
  BY DEF Init, HandInv

LEMMA HandStep == LifeInv /\ HandInv /\ [Next]_vars => HandInv'
<1> SUFFICES ASSUME LifeInv, HandInv, [Next]_vars PROVE HandInv'
  OBVIOUS
<1>0. wpc \in [Boxes -> WorkerAt] /\ DOMAIN cur = Boxes
  BY DEF LifeInv, TypeOK
<1>1. ASSUME UNCHANGED cur, \A b \in Boxes : Handling(b) => Handling(b)' PROVE HandInv'
  BY <1>1 DEF HandInv
<1>2. ASSUME NEW d \in Dispatchers, DispatcherStep(d) PROVE HandInv'
  <2>1. UNCHANGED cur /\ (UNCHANGED wpc \/ Activate(d))
    BY <1>2 DEF DispatcherStep, GetMailbox, MakeChannel, Activate, LeaveSpin, CheckStatus,
                Send, SendPanics, workVars
  <2>2. ASSUME Activate(d) PROVE \A b \in Boxes : Handling(b) => Handling(b)'
    <3>1. mb[d] \in Boxes /\ wpc[mb[d]] = "none"
      BY <2>2 DEF Activate, LifeInv, TypeOK, Creators, Boxes, NoBox
    <3>2. wpc' = [wpc EXCEPT ![mb[d]] = "select"]
      BY <2>2 DEF Activate
    <3>3. QED
      BY <1>0, <3>1, <3>2 DEF Handling
  <2>3. QED
    BY <1>1, <2>1, <2>2 DEF Handling
<1>3. ASSUME NEW b \in Boxes, Receive(b) \/ DrainNext(b) PROVE HandInv'
  <2>1. \E label \in {"handle", "drainHandle"} : wpc' = [wpc EXCEPT ![b] = label]
    BY <1>3 DEF Receive, DrainNext, TakeMail, WorkerGoto
  <2>2. \A c \in Boxes \ {b} : cur'[c] = cur[c]
    BY <1>0, <1>3 DEF Receive, DrainNext, TakeMail
  <2>3. QED
    BY <1>0, <2>1, <2>2 DEF HandInv, Handling
<1>4. ASSUME NEW b \in Boxes, Handle(b) \/ DrainHandle(b) PROVE HandInv'
  <2>1. \E label \in {"select", "drain"} : wpc' = [wpc EXCEPT ![b] = label]
    BY <1>4 DEF Handle, DrainHandle, FinishMail, WorkerGoto
  <2>2. cur' = [cur EXCEPT ![b] = NoMail]
    BY <1>4 DEF Handle, DrainHandle, FinishMail
  <2>3. QED
    BY <1>0, <2>1, <2>2 DEF HandInv, Handling
<1>5. ASSUME NEW b \in Boxes,
             Release(b) \/ DrainEnd(b) \/ Close(b) \/ Remove(b) \/ Destroy(b)
      PROVE  HandInv'
  <2>1. UNCHANGED cur /\ ~ Handling(b)
    BY <1>5 DEF Release, DrainEnd, Close, Remove, Destroy, Handling
  <2>2. \E label : wpc' = [wpc EXCEPT ![b] = label]
    BY <1>5 DEF Release, DrainEnd, Close, Remove, Destroy, WorkerGoto
  <2>3. QED
    BY <1>0, <1>1, <2>1, <2>2 DEF Handling
<1>6. CASE (\E m \in Mails : Answer(m)) \/ UNCHANGED vars
  BY <1>1, <1>6 DEF Answer, vars, workVars, Handling
<1>7. QED
  BY <1>2, <1>3, <1>4, <1>5, <1>6 DEF Next, WorkerStep

\* What the actor sees of a box that is in the map.
LEMMA LiveBox ==
  ASSUME LifeInv, NEW b \in Boxes, Alive(b), b <= created \/ wpc[b] # "none"
  PROVE  /\ mailboxes = b /\ LiveHand = cur[b]
         /\ LiveQueue = IF chan[b] = "closed" THEN <<>> ELSE recv[b]
<1>1. created \in Nat /\ b \in Nat /\ b # NoBox
  BY DEF LifeInv, TypeOK, Boxes, NoBox
<1>2. b <= created
  BY <1>1 DEF LifeInv, Fresh
<1>3. mailboxes = b
  BY <1>2 DEF LifeInv, Linked
<1>4. QED
  BY <1>1, <1>3 DEF LiveHand, LiveQueue

\* A box that is in the map afterwards, and was before.
LEMMA LiveFrame ==
  ASSUME LifeInv, UNCHANGED <<mailboxes, sent, handled>>,
         \A b \in Boxes : cur'[b] = cur[b],
         \A b \in Boxes : (chan'[b] = chan[b] /\ recv'[b] = recv[b])
                            \/ (recv'[b] = <<>> /\ recv[b] = <<>>)
  PROVE  UNCHANGED Actor!vars
<1>1. mailboxes = NoBox \/ mailboxes \in Boxes
  BY DEF LifeInv, TypeOK, Boxes, NoBox
<1>2. UNCHANGED <<LiveQueue, LiveHand>>
  BY <1>1 DEF LiveQueue, LiveHand
<1>3. QED
  BY <1>2 DEF Actor!vars

LEMMA ActorInit == Init => Actor!Init
  BY DEF Init, Actor!Init, LiveQueue, LiveHand

LEMMA SendAccepts ==
  ASSUME LifeInv, NEW d \in Dispatchers, Send(d)
  PROVE  Actor!Accept(d)
<1>1. /\ pc[d] = "send" /\ mb[d] \in Boxes /\ mb[d] <= created /\ chan[mb[d]] = "open"
      /\ sent[d] < MailsPer
  BY DEF Send, LifeInv, TypeOK, Boxes, NoBox
<1>2. Alive(mb[d])
  BY <1>1 DEF LifeInv, BoxState, Alive
<1>3. mailboxes = mb[d] /\ LiveHand = cur[mb[d]] /\ LiveQueue = recv[mb[d]]
  BY <1>1, <1>2, LiveBox
<1>4. /\ recv' = [recv EXCEPT ![mb[d]] = Append(recv[mb[d]], Outgoing(d))]
      /\ sent' = [sent EXCEPT ![d] = sent[d] + 1]
      /\ UNCHANGED <<mailboxes, chan, cur, handled>>
  BY DEF Send, boxVars, workVars
<1>5. recv'[mb[d]] = Append(recv[mb[d]], Outgoing(d))
  BY <1>1, <1>4 DEF LifeInv, TypeOK
<1>6. LiveQueue' = recv'[mb[d]] /\ LiveHand' = cur[mb[d]]
  BY <1>1, <1>3, <1>4 DEF LiveQueue, LiveHand, Boxes, NoBox
<1>7. QED
  BY <1>1, <1>3, <1>4, <1>5, <1>6 DEF Actor!Accept, Outgoing

LEMMA TakeBegins ==
  ASSUME LifeInv, HandInv, NEW b \in Boxes, Receive(b) \/ DrainNext(b)
  PROVE  Actor!Begin
<1>1. /\ wpc[b] \in {"select", "drain"} /\ recv[b] # <<>>
      /\ recv' = [recv EXCEPT ![b] = Tail(recv[b])]
      /\ cur' = [cur EXCEPT ![b] = Head(recv[b])]
      /\ UNCHANGED <<mailboxes, chan, sent, handled>>
  BY DEF Receive, DrainNext, TakeMail, boxVars, sendVars
<1>2. chan[b] = "open" /\ cur[b] = NoMail /\ Alive(b)
  BY <1>1 DEF LifeInv, BoxState, HandInv, Handling, Alive
<1>3. mailboxes = b /\ LiveHand = NoMail /\ LiveQueue = recv[b]
  BY <1>1, <1>2, LiveBox
<1>4. recv'[b] = Tail(recv[b]) /\ cur'[b] = Head(recv[b])
  BY <1>1 DEF LifeInv, TypeOK
<1>5. LiveQueue' = Tail(recv[b]) /\ LiveHand' = Head(recv[b])
  BY <1>1, <1>2, <1>3, <1>4 DEF LiveQueue, LiveHand, Boxes, NoBox
<1>6. QED
  BY <1>1, <1>3, <1>5 DEF Actor!Begin

LEMMA FinishFinishes ==
  ASSUME LifeInv, HandInv, NEW b \in Boxes, Handle(b) \/ DrainHandle(b)
  PROVE  Actor!Finish
<1>1. /\ wpc[b] \in {"handle", "drainHandle"}
      /\ handled' = Append(handled, cur[b])
      /\ cur' = [cur EXCEPT ![b] = NoMail]
      /\ UNCHANGED <<mailboxes, chan, recv, sent>>
  BY DEF Handle, DrainHandle, FinishMail, boxVars, sendVars
<1>2. cur[b] \in Mails /\ Alive(b)
  BY <1>1 DEF LifeInv, TypeOK, Alive
<1>3. mailboxes = b /\ LiveHand = cur[b]
  BY <1>1, <1>2, LiveBox
<1>4. NoMail \notin Mails
  BY DEF NoMail, Mails
<1>5. cur'[b] = NoMail
  BY <1>1 DEF LifeInv, TypeOK
<1>6. UNCHANGED LiveQueue /\ LiveHand' = NoMail
  BY <1>1, <1>3, <1>5 DEF LiveQueue, LiveHand
<1>7. QED
  BY <1>1, <1>2, <1>3, <1>4, <1>6 DEF Actor!Finish

LEMMA CloseAbandons ==
  ASSUME LifeInv, HandInv, NEW b \in Boxes, Close(b)
  PROVE  Actor!Abandon \/ UNCHANGED Actor!vars
<1>1. /\ wpc[b] = "close" /\ chan' = [chan EXCEPT ![b] = "closed"]
      /\ UNCHANGED <<mailboxes, recv, cur, sent, handled>>
  BY DEF Close, sendVars
<1>2. chan[b] = "open" /\ cur[b] = NoMail /\ Alive(b)
  BY <1>1 DEF LifeInv, BoxState, HandInv, Handling, Alive
<1>3. mailboxes = b /\ LiveHand = NoMail /\ LiveQueue = recv[b]
  BY <1>1, <1>2, LiveBox
<1>4. chan'[b] = "closed"
  BY <1>1 DEF LifeInv, TypeOK
<1>5. LiveQueue' = <<>> /\ UNCHANGED LiveHand
  BY <1>1, <1>3, <1>4 DEF LiveQueue, LiveHand
<1>6. QED
  BY <1>1, <1>3, <1>5 DEF Actor!Abandon, Actor!vars

LEMMA RemoveStutters ==
  ASSUME LifeInv, HandInv, NEW b \in Boxes, Remove(b)
  PROVE  UNCHANGED Actor!vars
<1>1. wpc[b] = "remove" /\ mailboxes' = NoBox /\ UNCHANGED <<sent, handled>>
  BY DEF Remove, sendVars
<1>2. chan[b] = "closed" /\ cur[b] = NoMail /\ Alive(b)
  BY <1>1 DEF LifeInv, BoxState, HandInv, Handling, Alive
<1>3. LiveHand = NoMail /\ LiveQueue = <<>>
  BY <1>1, <1>2, LiveBox
<1>4. LiveQueue' = <<>> /\ LiveHand' = NoMail
  BY <1>1 DEF LiveQueue, LiveHand
<1>5. QED
  BY <1>1, <1>3, <1>4 DEF Actor!vars

LEMMA CreationStutters ==
  ASSUME LifeInv, HandInv, NEW d \in Dispatchers, GetMailbox(d) \/ MakeChannel(d)
  PROVE  UNCHANGED Actor!vars
<1>1. CASE GetMailbox(d) /\ mailboxes = NoBox
  <2>1. /\ created < MaxBoxes /\ mailboxes' = created + 1
        /\ UNCHANGED <<chan, recv, cur, sent, handled>>
    BY <1>1 DEF GetMailbox, workVars
  <2>2. created + 1 \in Boxes /\ created + 1 # NoBox /\ created + 1 > created
    BY <2>1 DEF LifeInv, TypeOK, Boxes, NoBox
  <2>3. recv[created + 1] = <<>> /\ cur[created + 1] = NoMail
    BY <2>2 DEF LifeInv, Fresh, BoxState, HandInv, Handling
  <2>4. LiveHand = NoMail /\ LiveQueue = <<>>
    BY <1>1 DEF LiveHand, LiveQueue
  <2>5. LiveHand' = NoMail /\ LiveQueue' = <<>>
    BY <2>1, <2>2, <2>3 DEF LiveHand, LiveQueue
  <2>6. QED
    BY <2>1, <2>4, <2>5 DEF Actor!vars
<1>2. CASE GetMailbox(d) /\ mailboxes # NoBox
  BY <1>2, LiveFrame DEF GetMailbox, workVars
<1>3. CASE MakeChannel(d)
  <2>1. /\ pc[d] = "make" /\ chan' = [chan EXCEPT ![mb[d]] = "open"]
        /\ UNCHANGED <<mailboxes, recv, cur, sent, handled>>
    BY <1>3 DEF MakeChannel, workVars
  <2>2. mb[d] \in Boxes /\ recv[mb[d]] = <<>>
    BY <2>1 DEF LifeInv, TypeOK, Creators, BoxState, Boxes, NoBox
  <2>3. \A b \in Boxes \ {mb[d]} : chan'[b] = chan[b]
    BY <2>1 DEF LifeInv, TypeOK
  <2>4. QED
    BY <2>1, <2>2, <2>3, LiveFrame
<1>4. QED
  BY <1>1, <1>2, <1>3

LEMMA ActorStep == LifeInv /\ HandInv /\ [Next]_vars => [Actor!Next]_Actor!vars
<1> SUFFICES ASSUME LifeInv, HandInv, [Next]_vars
             PROVE  Actor!Next \/ UNCHANGED Actor!vars
  OBVIOUS
<1>1. ASSUME UNCHANGED <<mailboxes, chan, recv, cur, sent, handled>>
      PROVE  UNCHANGED Actor!vars
  BY <1>1, LiveFrame
<1>2. ASSUME NEW d \in Dispatchers, DispatcherStep(d)
      PROVE  Actor!Next \/ UNCHANGED Actor!vars
  <2>1. CASE Send(d)
    BY <2>1, SendAccepts DEF Actor!Next
  <2>2. CASE GetMailbox(d) \/ MakeChannel(d)
    BY <2>2, CreationStutters
  <2>3. CASE Activate(d) \/ LeaveSpin(d) \/ CheckStatus(d) \/ SendPanics(d)
    BY <1>1, <2>3 DEF Activate, LeaveSpin, CheckStatus, SendPanics, boxVars, workVars
  <2>4. QED
    BY <1>2, <2>1, <2>2, <2>3 DEF DispatcherStep
<1>3. ASSUME NEW b \in Boxes, WorkerStep(b) \/ Release(b)
      PROVE  Actor!Next \/ UNCHANGED Actor!vars
  <2>1. CASE Receive(b) \/ DrainNext(b)
    BY <2>1, TakeBegins DEF Actor!Next
  <2>2. CASE Handle(b) \/ DrainHandle(b)
    BY <2>2, FinishFinishes DEF Actor!Next
  <2>3. CASE Close(b)
    BY <2>3, CloseAbandons DEF Actor!Next
  <2>4. CASE Remove(b)
    BY <2>4, RemoveStutters
  <2>5. CASE Release(b) \/ DrainEnd(b) \/ Destroy(b)
    BY <1>1, <2>5 DEF Release, DrainEnd, Destroy, boxVars, sendVars
  <2>6. QED
    BY <1>3, <2>1, <2>2, <2>3, <2>4, <2>5 DEF WorkerStep
<1>4. CASE (\E m \in Mails : Answer(m)) \/ UNCHANGED vars
  BY <1>1, <1>4 DEF Answer, vars, boxVars, workVars, sendVars
<1>5. QED
  BY <1>2, <1>3, <1>4 DEF Next

(* A mailbox name implements the serial actor for any number of            *)
(* incarnations: accepted mails are taken in order and one at a time, and   *)
(* only closing the channel loses any.                                     *)
THEOREM ImplementsActorCorrect == Spec => ImplementsActor
<1>1. Spec => []HandInv
  BY HandInit, HandStep, LifeCorrect, PTL DEF Spec
<1>2. QED
  BY <1>1, ActorInit, ActorStep, LifeCorrect, PTL DEF Spec, ImplementsActor, Actor!Spec

-----------------------------------------------------------------------------
(* Places.  What a mail leaves and what it enters happen in one step, so it *)
(* is never in two places, nor lost on the way from one to the next.        *)

Elements(s) == {s[i] : i \in DOMAIN s}

LEMMA ElementsMember ==
  ASSUME NEW s, NEW x
  PROVE  x \in Elements(s) <=> \E i \in DOMAIN s : s[i] = x
  BY DEF Elements

LEMMA ElementsOfAppend ==
  ASSUME NEW S, NEW s \in Seq(S), NEW x \in S
  PROVE  Elements(Append(s, x)) = Elements(s) \cup {x}
<1>1. /\ DOMAIN s = 1..Len(s) /\ Len(s) \in Nat
      /\ \A i \in DOMAIN s : i \in DOMAIN Append(s, x) /\ Append(s, x)[i] = s[i]
      /\ Len(s) + 1 \in DOMAIN Append(s, x) /\ Append(s, x)[Len(s) + 1] = x
      /\ \A i \in DOMAIN Append(s, x) : i \in DOMAIN s \/ i = Len(s) + 1
  BY AppendFacts
<1>2. QED
  BY <1>1 DEF Elements

LEMMA ElementsOfTail ==
  ASSUME NEW S, NEW s \in Seq(S), s # <<>>
  PROVE  /\ Elements(s) = {Head(s)} \cup Elements(Tail(s))
         /\ Elements(s) \subseteq S
         /\ (\A i, j \in DOMAIN s : i < j => s[i] # s[j]) => Head(s) \notin Elements(Tail(s))
<1>1. /\ Head(s) = s[1] /\ 1 \in DOMAIN s
      /\ \A i \in DOMAIN Tail(s) : /\ i + 1 \in DOMAIN s /\ 1 < i + 1
                                   /\ Tail(s)[i] = s[i + 1]
  BY TailFacts
<1>2. \A i \in DOMAIN s : i = 1 \/ (i - 1 \in DOMAIN Tail(s) /\ Tail(s)[i - 1] = s[i])
  OBVIOUS
<1>3. ASSUME NEW x PROVE x \in Elements(s) <=> x = Head(s) \/ x \in Elements(Tail(s))
  <2>1. ASSUME x \in Elements(s) PROVE x = Head(s) \/ x \in Elements(Tail(s))
    <3>1. PICK i \in DOMAIN s : s[i] = x
      BY <2>1 DEF Elements
    <3>2. i = 1 \/ (i - 1 \in DOMAIN Tail(s) /\ Tail(s)[i - 1] = x)
      BY <1>2, <3>1
    <3>3. QED
      BY <1>1, <3>1, <3>2 DEF Elements
  <2>2. ASSUME x \in Elements(Tail(s)) PROVE x \in Elements(s)
    <3>1. PICK i \in DOMAIN Tail(s) : Tail(s)[i] = x
      BY <2>2 DEF Elements
    <3>2. QED
      BY <1>1, <3>1 DEF Elements
  <2>3. Head(s) \in Elements(s)
    BY <1>1 DEF Elements
  <2>4. QED
    BY <2>1, <2>2, <2>3
<1>4. Elements(s) \subseteq S
  BY ElementsMember
<1>5. ASSUME \A i, j \in DOMAIN s : i < j => s[i] # s[j]
      PROVE  Head(s) \notin Elements(Tail(s))
  <2>1. ASSUME NEW i \in DOMAIN Tail(s) PROVE Tail(s)[i] # Head(s)
    BY <1>1, <1>5
  <2>2. QED
    BY <2>1 DEF Elements
<1>6. QED
  BY <1>3, <1>4, <1>5

PlaceInv ==
  /\ \A b, c \in Boxes : b # c => Elements(recv[b]) \cap Elements(recv[c]) = {}
  /\ \A b \in Boxes : Elements(recv[b]) \cap Elements(handled) = {}
  /\ \A b, c \in Boxes : cur[b] \notin Elements(recv[c])
  /\ \A b \in Boxes : cur[b] \notin Elements(handled)
  /\ \A m \in Mails : Accepted(m) =>
       m \in Elements(handled) \/ \E b \in Boxes : m = cur[b] \/ m \in Elements(recv[b])

LEMMA PlaceInit == Init => PlaceInv
  BY DEF Init, PlaceInv, Elements, Accepted, Mails

\* What is in a channel or in the history is a mail that was accepted.
LEMMA ElementsAccepted ==
  ASSUME LifeInv, HandInv, OrderInv
  PROVE  /\ \A b \in Boxes : \A m \in Elements(recv[b]) : m \in Mails /\ Accepted(m)
         /\ \A m \in Elements(handled) : m \in Mails /\ Accepted(m)
         /\ \A b \in Boxes : \/ ~ Handling(b) /\ cur[b] = NoMail
                             \/ Handling(b) /\ cur[b] \in Mails /\ Accepted(cur[b])
         /\ NoMail \notin Mails
<1>1. NoMail \notin Mails
  BY DEF NoMail, Mails
<1>2. /\ \A b \in Boxes : \A i \in DOMAIN recv[b] : recv[b][i] \in Mails
      /\ \A i \in DOMAIN handled : handled[i] \in Mails
      /\ \A b \in Boxes : Handling(b) => cur[b] \in Mails
  BY DEF LifeInv, TypeOK, Handling
<1>3. QED
  BY <1>1, <1>2 DEF OrderInv, OnlyAccepted, HandInv, Elements

LEMMA SendKeepsPlaces ==
  ASSUME LifeInv, HandInv, OrderInv, PlaceInv, NEW d \in Dispatchers, Send(d)
  PROVE  PlaceInv'
<1>a. PICK x : x = Outgoing(d)
  OBVIOUS
<1>b. PICK q : q = mb[d]
  OBVIOUS
<1>1. /\ pc[d] = "send" /\ q \in Boxes /\ sent[d] \in Nat
      /\ recv \in [Boxes -> Seq(Mails)] /\ sent \in [Dispatchers -> Nat]
      /\ sent[d] < MailsPer
  BY <1>b, SMTT(30) DEF Send, LifeInv, TypeOK, Boxes, NoBox
<1>2. /\ recv' = [recv EXCEPT ![q] = Append(recv[q], x)]
      /\ sent' = [sent EXCEPT ![d] = sent[d] + 1]
      /\ UNCHANGED <<handled, cur>>
  BY <1>a, <1>b DEF Send, workVars
<1>3. x \in Mails /\ x.from = d /\ x.num = sent[d] + 1 /\ ~ Accepted(x)
  BY <1>1, <1>a DEF Outgoing, Mails, Accepted
<1>4. \A m \in Mails : Accepted(m)' => Accepted(m) \/ m = x
  BY <1>1, <1>2, <1>3 DEF Accepted, Mails
<1>5. /\ \A b \in Boxes \ {q} : recv'[b] = recv[b]
      /\ recv'[q] = Append(recv[q], x) /\ recv[q] \in Seq(Mails)
  BY <1>1, <1>2
<1>6. Elements(recv'[q]) = Elements(recv[q]) \cup {x}
  BY <1>3, <1>5, ElementsOfAppend
<1>7. /\ \A b \in Boxes : x \notin Elements(recv[b]) /\ cur[b] # x
      /\ x \notin Elements(handled)
  BY <1>3, ElementsAccepted
<1>8. /\ \A b, c \in Boxes : b # c => Elements(recv'[b]) \cap Elements(recv'[c]) = {}
      /\ \A b \in Boxes : Elements(recv'[b]) \cap Elements(handled) = {}
      /\ \A b, c \in Boxes : cur[b] \notin Elements(recv'[c])
  <2>1. \A b \in Boxes : Elements(recv'[b]) = IF b = q THEN Elements(recv[b]) \cup {x}
                                                      ELSE Elements(recv[b])
    BY <1>5, <1>6
  <2>2. \A b, c \in Boxes : b # c => Elements(recv'[b]) \cap Elements(recv'[c]) = {}
    <3>1. ASSUME NEW b \in Boxes, NEW c \in Boxes, b # c,
                 NEW m, m \in Elements(recv'[b]), m \in Elements(recv'[c])
          PROVE  FALSE
      <4>1. m \in Elements(recv[b]) \/ (b = q /\ m = x)
        BY <2>1, <3>1
      <4>2. m \in Elements(recv[c]) \/ (c = q /\ m = x)
        BY <2>1, <3>1
      <4>3. ~ (m \in Elements(recv[b]) /\ m \in Elements(recv[c]))
        BY <3>1 DEF PlaceInv
      <4>4. QED
        BY <1>7, <3>1, <4>1, <4>2, <4>3
    <3>2. QED
      BY <3>1
  <2>3. \A b \in Boxes : Elements(recv'[b]) \cap Elements(handled) = {}
    <3>1. ASSUME NEW b \in Boxes, NEW m, m \in Elements(recv'[b]), m \in Elements(handled)
          PROVE  FALSE
      <4>1. m \in Elements(recv[b])
        BY <1>7, <2>1, <3>1
      <4>2. QED
        BY <3>1, <4>1 DEF PlaceInv
    <3>2. QED
      BY <3>1
  <2>4. \A b, c \in Boxes : cur[b] \notin Elements(recv'[c])
    <3>1. ASSUME NEW b \in Boxes, NEW c \in Boxes, cur[b] \in Elements(recv'[c])
          PROVE  FALSE
      <4>1. cur[b] \in Elements(recv[c])
        BY <1>7, <2>1, <3>1
      <4>2. QED
        BY <3>1, <4>1 DEF PlaceInv
    <3>2. QED
      BY <3>1
  <2>5. QED
    BY <2>2, <2>3, <2>4
<1>9. ASSUME NEW m \in Mails, Accepted(m)'
      PROVE  m \in Elements(handled) \/ \E b \in Boxes : m = cur[b] \/ m \in Elements(recv'[b])
  BY <1>1, <1>4, <1>5, <1>6, <1>9 DEF PlaceInv
<1>10. QED
  BY <1>2, <1>8, <1>9 DEF PlaceInv

LEMMA TakeKeepsPlaces ==
  ASSUME LifeInv, HandInv, OrderInv, PlaceInv, NEW b \in Boxes, Receive(b) \/ DrainNext(b)
  PROVE  PlaceInv'
<1>1. /\ recv[b] # <<>> /\ recv \in [Boxes -> Seq(Mails)] /\ DOMAIN cur = Boxes
      /\ cur[b] = NoMail
  BY DEF Receive, DrainNext, TakeMail, LifeInv, TypeOK, HandInv, Handling
<1>2. /\ recv' = [recv EXCEPT ![b] = Tail(recv[b])]
      /\ cur' = [cur EXCEPT ![b] = Head(recv[b])]
      /\ UNCHANGED <<handled, sent>>
  BY DEF Receive, DrainNext, TakeMail, sendVars
<1>3. PICK h : h = Head(recv[b])
  OBVIOUS
<1>4. /\ \A c \in Boxes \ {b} : recv'[c] = recv[c] /\ cur'[c] = cur[c]
      /\ recv'[b] = Tail(recv[b]) /\ cur'[b] = h
  BY <1>1, <1>2, <1>3
<1>5. \A i, j \in DOMAIN recv[b] : i < j => recv[b][i] # recv[b][j]
  <2>1. \A i \in DOMAIN recv[b] : recv[b][i] \in Mails
    BY <1>1
  <2>2. \A m \in Mails : ~ Precedes(m, m)
    BY DEF Precedes, Mails
  <2>3. QED
    BY <2>1, <2>2 DEF OrderInv, Order, Ordered
<1>6. Elements(recv[b]) = {h} \cup Elements(recv'[b]) /\ h \notin Elements(recv'[b])
  BY <1>1, <1>3, <1>4, <1>5, ElementsOfTail
<1>7. \A m : Accepted(m)' <=> Accepted(m)
  BY <1>2 DEF Accepted
<1>8. /\ \A c, e \in Boxes : c # e => Elements(recv'[c]) \cap Elements(recv'[e]) = {}
      /\ \A c \in Boxes : Elements(recv'[c]) \cap Elements(handled) = {}
  BY <1>4, <1>6 DEF PlaceInv
<1>9. /\ \A c, e \in Boxes : cur'[c] \notin Elements(recv'[e])
      /\ \A c \in Boxes : cur'[c] \notin Elements(handled)
  BY <1>4, <1>6 DEF PlaceInv
<1>10. ASSUME NEW m \in Mails, Accepted(m)
       PROVE  \/ m \in Elements(handled)
              \/ \E c \in Boxes : m = cur'[c] \/ m \in Elements(recv'[c])
  <2>1. CASE m \in Elements(handled)
    BY <2>1
  <2>2. ASSUME NEW c \in Boxes, m = cur[c] PROVE m = cur'[c]
    <3>1. c # b
      BY <1>1, <2>2 DEF NoMail, Mails
    <3>2. QED
      BY <1>4, <2>2, <3>1
  <2>3. ASSUME NEW c \in Boxes, m \in Elements(recv[c])
        PROVE  \E e \in Boxes : m = cur'[e] \/ m \in Elements(recv'[e])
    <3>1. CASE c = b
      BY <1>4, <1>6, <2>3, <3>1
    <3>2. CASE c # b
      <4>1. recv'[c] = recv[c]
        BY <1>4, <3>2
      <4>2. QED
        BY <2>3, <4>1
    <3>3. QED
      BY <3>1, <3>2
  <2>4. QED
    BY <1>10, <2>1, <2>2, <2>3 DEF PlaceInv
<1>11. QED
  BY <1>2, <1>7, <1>8, <1>9, <1>10 DEF PlaceInv

LEMMA FinishKeepsPlaces ==
  ASSUME LifeInv, HandInv, OrderInv, PlaceInv, Serial,
         NEW b \in Boxes, Handle(b) \/ DrainHandle(b)
  PROVE  PlaceInv'
<1>1. Handling(b) /\ cur[b] \in Mails /\ handled \in Seq(Mails) /\ DOMAIN cur = Boxes
  BY DEF Handle, DrainHandle, Handling, LifeInv, TypeOK
<1>2. /\ handled' = Append(handled, cur[b])
      /\ cur' = [cur EXCEPT ![b] = NoMail]
      /\ UNCHANGED <<recv, sent>>
  BY DEF Handle, DrainHandle, FinishMail, sendVars
<1>3. Elements(handled') = Elements(handled) \cup {cur[b]}
  BY <1>1, <1>2, ElementsOfAppend
<1>4. \A c \in Boxes : cur'[c] = NoMail /\ (c = b \/ cur[c] = NoMail)
  BY <1>1, <1>2 DEF HandInv, Serial
<1>5. /\ \A c \in Boxes : NoMail \notin Elements(recv[c])
      /\ NoMail \notin Elements(handled) /\ NoMail # cur[b]
  BY <1>1, ElementsAccepted
<1>6. \A m : Accepted(m)' <=> Accepted(m)
  BY <1>2 DEF Accepted
<1>7. /\ \A c \in Boxes : Elements(recv[c]) \cap Elements(handled') = {}
      /\ \A c, e \in Boxes : cur'[c] \notin Elements(recv[e])
      /\ \A c \in Boxes : cur'[c] \notin Elements(handled')
  BY <1>3, <1>4, <1>5 DEF PlaceInv
<1>8. ASSUME NEW m \in Mails, Accepted(m)
      PROVE  m \in Elements(handled') \/ \E c \in Boxes : m \in Elements(recv[c])
  BY <1>3, <1>4, <1>8, ElementsAccepted DEF PlaceInv
<1>9. QED
  BY <1>2, <1>6, <1>7, <1>8 DEF PlaceInv

LEMMA LifeIsSerial == LifeInv => Serial
<1> SUFFICES ASSUME LifeInv, NEW b \in Boxes, NEW c \in Boxes, Handling(b), Handling(c)
             PROVE  b = c
  BY DEF Serial
<1>1. Alive(b) /\ Alive(c) /\ wpc[b] # "none" /\ wpc[c] # "none"
  BY DEF Handling, Alive
<1>2. QED
  BY <1>1, LiveBox

LEMMA PlaceStep ==
  LifeInv /\ HandInv /\ OrderInv /\ PlaceInv /\ [Next]_vars => PlaceInv'
<1> SUFFICES ASSUME LifeInv, HandInv, OrderInv, PlaceInv, [Next]_vars PROVE PlaceInv'
  OBVIOUS
<1>1. ASSUME UNCHANGED <<handled, recv, cur, sent>> PROVE PlaceInv'
  BY <1>1 DEF PlaceInv, Elements, Accepted
<1>2. ASSUME NEW d \in Dispatchers, DispatcherStep(d), ~ Send(d) PROVE PlaceInv'
  BY <1>1, <1>2 DEF DispatcherStep, GetMailbox, MakeChannel, Activate, LeaveSpin,
                    CheckStatus, SendPanics, workVars
<1>3. ASSUME NEW b \in Boxes,
             Release(b) \/ DrainEnd(b) \/ Close(b) \/ Remove(b) \/ Destroy(b)
      PROVE  PlaceInv'
  BY <1>1, <1>3 DEF Release, DrainEnd, Close, Remove, Destroy, sendVars
<1>4. CASE (\E m \in Mails : Answer(m)) \/ UNCHANGED vars
  BY <1>1, <1>4 DEF Answer, vars, workVars, sendVars
<1>5. QED
  BY <1>2, <1>3, <1>4, SendKeepsPlaces, TakeKeepsPlaces, FinishKeepsPlaces, LifeIsSerial
     DEF Next, WorkerStep

\* The places of a mail, one by one.
LEMMA PlacesFacts ==
  ASSUME NEW m, NEW p
  PROVE  p \in Places(m) <=>
           \/ \E b \in Boxes : \E i \in DOMAIN recv[b] : recv[b][i] = m /\ p = <<"queued", b, i>>
           \/ \E b \in Boxes : cur[b] = m /\ p = <<"cur", b, 0>>
           \/ \E i \in DOMAIN handled : handled[i] = m /\ p = <<"handled", 0, i>>
<1> DEFINE Queued(b) == {<<"queued", b, i>> : i \in {j \in DOMAIN recv[b] : recv[b][j] = m}}
           InHand == {<<"cur", b, 0>> : b \in {c \in Boxes : cur[c] = m}}
           Done == {<<"handled", 0, i>> : i \in {j \in DOMAIN handled : handled[j] = m}}
<1>1. p \in Places(m) <=>
        (\E b \in Boxes : p \in Queued(b)) \/ p \in InHand \/ p \in Done
  <2>1. Places(m) = (UNION {Queued(b) : b \in Boxes}) \cup InHand \cup Done
    BY DEF Places
  <2> HIDE DEF Queued, InHand, Done
  <2>2. p \in UNION {Queued(b) : b \in Boxes} <=> \E b \in Boxes : p \in Queued(b)
    OBVIOUS
  <2>3. QED
    BY <2>1, <2>2
<1>2. \A b \in Boxes : p \in Queued(b) <=>
        \E i \in DOMAIN recv[b] : recv[b][i] = m /\ p = <<"queued", b, i>>
  OBVIOUS
<1>3. p \in InHand <=> \E b \in Boxes : cur[b] = m /\ p = <<"cur", b, 0>>
  OBVIOUS
<1>4. p \in Done <=> \E i \in DOMAIN handled : handled[i] = m /\ p = <<"handled", 0, i>>
  OBVIOUS
<1> HIDE DEF Queued, InHand, Done
<1>5. QED
  BY <1>1, <1>2, <1>3, <1>4

\* Mails that are ordered are there once.
LEMMA OrderedOnce ==
  ASSUME NEW s \in Seq(Mails), Ordered(s),
         NEW i \in DOMAIN s, NEW j \in DOMAIN s, s[i] = s[j]
  PROVE  i = j
<1>1. i \in Nat /\ j \in Nat /\ s[i] \in Mails
  OBVIOUS
<1>2. ~ Precedes(s[i], s[i])
  BY <1>1 DEF Precedes, Mails
<1>3. ~ (i < j) /\ ~ (j < i)
  BY <1>2 DEF Ordered
<1>4. QED
  BY <1>1, <1>3

LEMMA InOnePlace ==
  ASSUME LifeInv, HandInv, OrderInv, PlaceInv
  PROVE  ExactlyOnePlace
<1> SUFFICES ASSUME NEW m \in Mails
             PROVE  Cardinality(Places(m)) = IF Accepted(m) THEN 1 ELSE 0
  BY DEF ExactlyOnePlace
<1>1. ASSUME NEW p \in Places(m) PROVE Accepted(m)
  <2>1. \/ \E b \in Boxes : m \in Elements(recv[b]) \/ m = cur[b]
        \/ m \in Elements(handled)
    BY <1>1, PlacesFacts DEF Elements
  <2>2. QED
    BY <2>1, ElementsAccepted
<1>2. CASE ~ Accepted(m)
  <2>1. Places(m) = {}
    BY <1>1, <1>2
  <2>2. QED
    BY <1>2, <2>1, FS_EmptySet
<1>3. CASE Accepted(m)
  <2>1. PICK p : p \in Places(m)
    <3>1. \/ \E b \in Boxes : m = cur[b] \/ \E i \in DOMAIN recv[b] : recv[b][i] = m
          \/ \E i \in DOMAIN handled : handled[i] = m
      BY <1>3 DEF PlaceInv, Elements
    <3>2. CASE \E b \in Boxes : m = cur[b]
      <4>1. PICK b \in Boxes : m = cur[b]
        BY <3>2
      <4>2. <<"cur", b, 0>> \in Places(m)
        BY <4>1, PlacesFacts
      <4>3. QED
        BY <4>2
    <3>3. CASE \E b \in Boxes : \E i \in DOMAIN recv[b] : recv[b][i] = m
      <4>1. PICK b \in Boxes : \E i \in DOMAIN recv[b] : recv[b][i] = m
        BY <3>3
      <4>2. PICK i \in DOMAIN recv[b] : recv[b][i] = m
        BY <4>1
      <4>3. <<"queued", b, i>> \in Places(m)
        BY <4>2, PlacesFacts
      <4>4. QED
        BY <4>3
    <3>4. CASE \E i \in DOMAIN handled : handled[i] = m
      <4>1. PICK i \in DOMAIN handled : handled[i] = m
        BY <3>4
      <4>2. <<"handled", 0, i>> \in Places(m)
        BY <4>1, PlacesFacts
      <4>3. QED
        BY <4>2
    <3>5. QED
      BY <3>1, <3>2, <3>3, <3>4
  <2>2. /\ handled \in Seq(Mails) /\ Ordered(handled)
        /\ \A b \in Boxes : recv[b] \in Seq(Mails) /\ Ordered(recv[b])
    BY DEF LifeInv, TypeOK, OrderInv, Order
  <2>3. /\ \A b \in Boxes : \A i, j \in DOMAIN recv[b] : recv[b][i] = recv[b][j] => i = j
        /\ \A i, j \in DOMAIN handled : handled[i] = handled[j] => i = j
    BY <2>2, OrderedOnce
  <2>4. \A b, c \in Boxes : m = cur[b] /\ m = cur[c] => b = c
    BY ElementsAccepted, LifeIsSerial DEF Serial
  <2>5. ASSUME NEW q \in Places(m) PROVE q = p
    <3>1. CASE \E b \in Boxes : \E i \in DOMAIN recv[b] : recv[b][i] = m /\ p = <<"queued", b, i>>
      <4>0. PICK b \in Boxes : \E i \in DOMAIN recv[b] : recv[b][i] = m /\ p = <<"queued", b, i>>
        BY <3>1
      <4>1. PICK i \in DOMAIN recv[b] : recv[b][i] = m /\ p = <<"queued", b, i>>
        BY <4>0
      <4>2. /\ m \in Elements(recv[b]) /\ m \notin Elements(handled)
            /\ \A c \in Boxes : m # cur[c] /\ (c = b \/ m \notin Elements(recv[c]))
        BY <4>1 DEF PlaceInv, Elements
      <4>3. PICK j \in DOMAIN recv[b] : recv[b][j] = m /\ q = <<"queued", b, j>>
        BY <2>5, <4>2, PlacesFacts DEF Elements
      <4>4. QED
        BY <2>3, <4>1, <4>3
    <3>2. CASE \E b \in Boxes : cur[b] = m /\ p = <<"cur", b, 0>>
      <4>1. PICK b \in Boxes : cur[b] = m /\ p = <<"cur", b, 0>>
        BY <3>2
      <4>2. m \notin Elements(handled) /\ \A c \in Boxes : m \notin Elements(recv[c])
        BY <4>1 DEF PlaceInv
      <4>3. \E c \in Boxes : cur[c] = m /\ q = <<"cur", c, 0>>
        BY <2>5, <4>2, PlacesFacts DEF Elements
      <4>4. QED
        BY <2>4, <4>1, <4>3
    <3>3. CASE \E i \in DOMAIN handled : handled[i] = m /\ p = <<"handled", 0, i>>
      <4>1. m \in Elements(handled)
        BY <3>3 DEF Elements
      <4>2. \A c \in Boxes : m # cur[c] /\ m \notin Elements(recv[c])
        BY <4>1 DEF PlaceInv
      <4>3. \E j \in DOMAIN handled : handled[j] = m /\ q = <<"handled", 0, j>>
        BY <2>5, <4>2, PlacesFacts DEF Elements
      <4>4. QED
        BY <2>3, <3>3, <4>3
    <3>4. QED
      BY <2>1, <3>1, <3>2, <3>3, PlacesFacts
  <2>6. Places(m) = {p}
    BY <2>1, <2>5
  <2>7. QED
    BY <1>3, <2>6, FS_Singleton
<1>4. QED
  BY <1>2, <1>3

(* Through any number of releases an accepted mail is in exactly one place: *)
(* in one channel, in the hands of one worker, or handled once; what was    *)
(* not accepted is nowhere.                                                *)
THEOREM ExactlyOnePlaceCorrect == Spec => []ExactlyOnePlace
<1>1. Spec => []HandInv
  BY HandInit, HandStep, LifeCorrect, PTL DEF Spec
<1>2. Spec => []OrderInv
  BY OrderInit, OrderStep, LifeCorrect, PTL DEF Spec
<1>3. Spec => []PlaceInv
  BY <1>1, <1>2, PlaceInit, PlaceStep, LifeCorrect, PTL DEF Spec
<1>4. QED
  BY <1>1, <1>2, <1>3, InOnePlace, LifeCorrect, PTL
=============================================================================
