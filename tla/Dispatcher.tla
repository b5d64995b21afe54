------------------------------ MODULE Dispatcher ------------------------------
(***************************************************************************)
(* The handler tables of DefaultCommandDispatcher and                      *)
(* DefaultEventDispatcher (commanding/dispatcher.go,                       *)
(* eventing/dispatcher.go): Subscribe and AddProxy change them under a     *)
(* lock, Dispatch and the mailboxes read them without it.                  *)
(*                                                                         *)
(* proxiedHandlers is a Go map, that is a reference: a mailbox keeps the   *)
(* table that Dispatch had read when it was created, and sees what is      *)
(* written into that table later, but not that another table has taken its *)
(* place.  A mailbox is modelled with what its release does to messages    *)
(* that are on their way; the steps of its creation are module Mailbox.    *)
(***************************************************************************)
EXTENDS Integers, Sequences, SequencesExt

CONSTANTS
  Types,       \* message types
  HandlersOf,  \* type -> the handlers that are subscribed for it, in this order
  MaxProxies,  \* bound: how often AddProxy is called
  Aggregates,
  Messages,    \* message i is of aggregate Messages[i][1] and type Messages[i][2]
  Callers      \* goroutines that call Dispatch

Handlers == UNION {ToSet(HandlersOf[t]) : t \in Types}

ASSUME DispatcherAssumption ==
  /\ HandlersOf \in [Types -> Seq(Handlers)]
  /\ MaxProxies \in Nat
  /\ Messages \in Seq(Aggregates \X Types)

Nil == 0         \* the nil map
NoMailbox == -1

VARIABLES
  kind,      \* which of the two dispatchers this is
  handlers,  \* type -> subscribed handlers
  proxies,   \* how many proxies have been added
  tables,    \* every map that has ever been proxiedHandlers; an entry is a
             \* handler with the number of proxies around it
  current,   \* the one proxiedHandlers refers to now
  lock,      \* what is being done under the lock
  dpc,       \* caller -> where it is
  hand,      \* caller -> message it dispatches
  got,       \* caller -> the table it has read
  held,      \* aggregate -> table of its mailbox
  inbox,     \* aggregate -> messages in the channel of its mailbox
  busy,      \* aggregate -> message its mailbox handles, or 0
  life,      \* aggregate -> what the goroutine of its mailbox is doing
  drained,   \* aggregate -> loop variable i of the drain loop
  handled,   \* history: messages handled, in that order
  partly,    \* history: some by other than all their handlers in all proxies
  used,      \* history: the table has been read
  late,      \* history: it was changed during that or after it
  lost,      \* history: messages left in the channel of a released mailbox, or
             \* refused by it with a panic
  dead       \* what the process has died of: a map read that met a map write, or
             \* a send on a closed channel

registered == <<handlers, proxies>>
table == <<tables, current>>
registration == <<registered, table, lock, late>>
calls == <<dpc, hand, got, used>>
mailboxes == <<held, inbox, busy, life, drained>>
ends == <<handled, partly, lost, dead>>
dispatcherVars == <<kind, registration, calls, mailboxes, ends>>

AggregateOf(i) == Messages[i][1]
TypeOf(i) == Messages[i][2]
Ids == DOMAIN Messages

Entries == Handlers \X (0..MaxProxies)

CallerAt == {"none", "select", "took", "dispatch", "send", "closed", "spin", "retry", "ended"}
MailboxAt == {"serving", "draining", "closing"}

DispatcherTypeOK ==
  /\ kind \in {"command", "event"}
  /\ handlers \in [Types -> Seq(Handlers)]
  /\ proxies \in 0..MaxProxies
  /\ tables \in Seq([Types -> Seq(Entries)])
  /\ current \in 0..Len(tables)
  /\ lock \in {"free", "subscribe", "add"}
  /\ dpc \in [Callers -> CallerAt]
  /\ hand \in [Callers -> Ids \cup {0}]
  /\ got \in [Callers -> 0..Len(tables)]
  /\ held \in [Aggregates -> NoMailbox..Len(tables)]
  /\ inbox \in [Aggregates -> Seq(Ids)]
  /\ busy \in [Aggregates -> Ids \cup {0}]
  /\ life \in [Aggregates -> MailboxAt]
  /\ drained \in [Aggregates -> Nat]
  /\ handled \in Seq(Ids)
  /\ partly \in BOOLEAN
  /\ used \in BOOLEAN
  /\ late \in BOOLEAN
  /\ lost \subseteq Ids
  /\ dead \in {"no", "lookup", "send"}

DispatcherInit ==
  /\ kind \in {"command", "event"}
  /\ handlers = [t \in Types |-> <<>>]
  /\ proxies = 0
  /\ tables = <<>>
  /\ current = Nil
  /\ lock = "free"
  /\ dpc = [c \in Callers |-> IF kind = "command" THEN "select" ELSE "none"]
  /\ hand = [c \in Callers |-> 0]
  /\ got = [c \in Callers |-> Nil]
  /\ held = [a \in Aggregates |-> NoMailbox]
  /\ inbox = [a \in Aggregates |-> <<>>]
  /\ busy = [a \in Aggregates |-> 0]
  /\ life = [a \in Aggregates |-> "serving"]
  /\ drained = [a \in Aggregates |-> 0]
  /\ handled = <<>>
  /\ partly = FALSE
  /\ used = FALSE
  /\ late = FALSE
  /\ lost = {}
  /\ dead = "no"

-----------------------------------------------------------------------------
(* Subscribe and AddProxy.                                                 *)

\* What a lookup of t finds in table i; nothing is found in the nil map.
Lookup(i, t) == IF i = Nil THEN <<>> ELSE tables[i][t]

\* What should be found: the handlers of t, each with all proxies around it.
Wrapped(t) == [j \in DOMAIN handlers[t] |-> <<handlers[t][j], proxies>>]

\* The next handler of t that is missing is written into the table, which is made
\* if there is none.
WriteEntry(t) ==
  LET entry == Wrapped(t)[Len(Lookup(current, t)) + 1] IN
    IF current = Nil
    THEN /\ tables' = Append(tables, [u \in Types |-> IF u = t THEN <<entry>> ELSE <<>>])
         /\ current' = Len(tables) + 1
    ELSE /\ tables' = [tables EXCEPT ![current][t] = Append(@, entry)]
         /\ UNCHANGED current

Complete == \A t \in Types : Len(Lookup(current, t)) = Len(handlers[t])

ChangeTable == late' = (late \/ used)

\* A command type has one handler: Subscribe returns if there is one.
Subscribe(t) ==
  /\ lock = "free"
  /\ Len(handlers[t]) < Len(HandlersOf[t])
  /\ kind = "command" => handlers[t] = <<>>
  /\ handlers' = [handlers EXCEPT ![t] = Append(@, HandlersOf[t][Len(@) + 1])]
  /\ lock' = "subscribe"
  /\ ChangeTable
  /\ UNCHANGED <<kind, proxies, table, calls, mailboxes, ends>>

\* Faulty: the handler is passed on as it is.
SubscribeUnwrapped(t) ==
  /\ lock = "subscribe"
  /\ Len(Lookup(current, t)) < Len(handlers[t])
  /\ LET entry == <<Last(handlers[t]), 0>> IN
       IF current = Nil
       THEN /\ tables' = Append(tables, [u \in Types |-> IF u = t THEN <<entry>> ELSE <<>>])
            /\ current' = Len(tables) + 1
       ELSE /\ tables' = [tables EXCEPT ![current][t] = Append(@, entry)]
            /\ UNCHANGED current
  /\ lock' = "free"
  /\ ChangeTable
  /\ UNCHANGED <<kind, registered, calls, mailboxes, ends>>

SubscribeWrapped(t) ==
  /\ lock = "subscribe"
  /\ Len(Lookup(current, t)) < Len(handlers[t])
  /\ WriteEntry(t)
  /\ lock' = "free"
  /\ ChangeTable
  /\ UNCHANGED <<kind, registered, calls, mailboxes, ends>>

\* Faulty: the old table is wrapped again in place.
AddProxyInPlace ==
  /\ lock = "free"
  /\ proxies < MaxProxies
  /\ proxies' = proxies + 1
  /\ lock' = "add"
  /\ ChangeTable
  /\ UNCHANGED <<kind, handlers, table, calls, mailboxes, ends>>

\* The table is thrown away, and a new one can be read before it is filled.  That of
\* the events is an empty map, that of the commands nil until the first entry.
AddProxy ==
  /\ lock = "free"
  /\ proxies < MaxProxies
  /\ proxies' = proxies + 1
  /\ \/ /\ kind = "command"
        /\ current' = Nil
        /\ UNCHANGED tables
     \/ /\ kind = "event"
        /\ tables' = Append(tables, [t \in Types |-> <<>>])
        /\ current' = Len(tables) + 1
  /\ lock' = "add"
  /\ ChangeTable
  /\ UNCHANGED <<kind, handlers, calls, mailboxes, ends>>

\* The types come in any order, the handlers of one type together.
AddProxyWrap(t) ==
  /\ lock = "add"
  /\ Len(Lookup(current, t)) < Len(handlers[t])
  /\ \A u \in Types \ {t} : Len(Lookup(current, u)) \in {0, Len(handlers[u])}
  /\ WriteEntry(t)
  /\ ChangeTable
  /\ UNCHANGED <<kind, registered, lock, calls, mailboxes, ends>>

AddProxyEnd ==
  /\ lock = "add"
  /\ Complete
  /\ lock' = "free"
  /\ UNCHANGED <<kind, registered, table, late, calls, mailboxes, ends>>

Register ==
  \/ \E t \in Types : Subscribe(t) \/ SubscribeWrapped(t) \/ AddProxyWrap(t)
  \/ AddProxy \/ AddProxyEnd

-----------------------------------------------------------------------------
(* Dispatch, on the goroutine of caller c.                                 *)

\* gcounter.Begin, and the arguments of GetMailbox; these are read again for every
\* further attempt.
ReadTable(c) ==
  /\ dpc[c] \in {"took", "retry"}
  /\ got' = [got EXCEPT ![c] = current]
  /\ dpc' = [dpc EXCEPT ![c] = "dispatch"]
  /\ used' = TRUE
  /\ late' = (late \/ lock # "free")
  /\ UNCHANGED <<kind, registered, table, lock, hand, mailboxes, ends>>

\* Only a new mailbox takes the table.  SendMail then finds the mailbox serving, or
\* spins until it has been destroyed.
GetMailbox(c) ==
  LET a == AggregateOf(hand[c]) IN
    /\ dpc[c] = "dispatch"
    /\ held' = [held EXCEPT ![a] = IF @ = NoMailbox THEN got[c] ELSE @]
    /\ dpc' = [dpc EXCEPT ![c] = IF life[a] = "serving" THEN "send" ELSE "spin"]
    /\ UNCHANGED <<kind, registration, hand, got, used, inbox, busy, life, drained, ends>>

\* The caller has its message no longer.
LetGo(c) ==
  /\ hand' = [hand EXCEPT ![c] = 0]
  /\ got' = [got EXCEPT ![c] = Nil]
  /\ dpc' = [dpc EXCEPT ![c] = "select"]

\* Faulty: each message is dispatched by a goroutine of its own.
DeliverByGoroutine(c) ==
  LET a == AggregateOf(hand[c]) IN
    /\ dpc[c] = "send"
    /\ \E j \in 1..Len(inbox[a]) + 1 : inbox' = [inbox EXCEPT ![a] = InsertAt(@, j, hand[c])]
    /\ LetGo(c)
    /\ UNCHANGED <<kind, registration, used, held, busy, life, drained, ends>>

\* receiverCh <- data.  Since the status was read the mailbox may have begun to
\* release itself.
Deliver(c) ==
  LET a == AggregateOf(hand[c]) IN
    /\ dpc[c] = "send"
    /\ inbox' = [inbox EXCEPT ![a] = Append(@, hand[c])]
    /\ LetGo(c)
    /\ UNCHANGED <<kind, registration, used, held, busy, life, drained, ends>>

\* The channel was closed before the send: it panics.  Nobody recovers on the
\* goroutine of a loop; that of a sender of commands is not the dispatcher's.
SendPanics(c) ==
  /\ dpc[c] = "closed"
  /\ lost' = lost \cup {hand[c]}
  /\ LetGo(c)
  /\ \/ dead' = "send"
     \/ kind = "command" /\ UNCHANGED dead
  /\ UNCHANGED <<kind, registration, used, mailboxes, handled, partly>>

\* Or the second look at the status came only after that: SendMail returns an error
\* and Dispatch tries again.
Retry(c) ==
  /\ dpc[c] = "closed"
  /\ dpc' = [dpc EXCEPT ![c] = "retry"]
  /\ UNCHANGED <<kind, registration, hand, got, used, mailboxes, ends>>

-----------------------------------------------------------------------------
(* The goroutine of the mailbox of aggregate a.                            *)

\* From select, or from the drain loop, which looks at len(receiverCh) anew every time.
Receive(a) ==
  /\ busy[a] = 0
  /\ inbox[a] # <<>>
  /\ \/ life[a] = "serving"
     \/ life[a] = "draining" /\ drained[a] < Len(inbox[a])
  /\ busy' = [busy EXCEPT ![a] = Head(inbox[a])]
  /\ inbox' = [inbox EXCEPT ![a] = Tail(@)]
  /\ UNCHANGED <<kind, registration, calls, held, life, drained, ends>>

\* processMails looks the handlers up and runs them.
Handle(a) ==
  /\ busy[a] # 0
  /\ handled' = Append(handled, busy[a])
  /\ partly' = (partly \/ LET t == TypeOf(busy[a]) IN Lookup(held[a], t) # Wrapped(t))
  /\ busy' = [busy EXCEPT ![a] = 0]
  /\ drained' = [drained EXCEPT ![a] = IF life[a] = "draining" THEN @ + 1 ELSE @]
  /\ UNCHANGED <<kind, registration, calls, held, inbox, life, lost, dead>>

\* The lookup meets a write to the same map: the Go runtime may end the process.
HandleDies(a) ==
  /\ busy[a] # 0
  /\ held[a] # Nil
  /\ held[a] = current
  /\ lock # "free"
  /\ dead' = "lookup"
  /\ UNCHANGED <<kind, registration, calls, mailboxes, handled, partly, lost>>

\* time.After fires and the status is no longer Actived.  A message may have come
\* meanwhile: select does not prefer either case.
Release(a) ==
  /\ held[a] # NoMailbox
  /\ busy[a] = 0
  /\ life[a] = "serving"
  /\ life' = [life EXCEPT ![a] = "draining"]
  /\ UNCHANGED <<kind, registration, calls, held, inbox, busy, drained, ends>>

DrainEnd(a) ==
  /\ life[a] = "draining"
  /\ busy[a] = 0
  /\ drained[a] >= Len(inbox[a])
  /\ life' = [life EXCEPT ![a] = "closing"]
  /\ UNCHANGED <<kind, registration, calls, held, inbox, busy, drained, ends>>

\* close, removeSelf and the last change of the status: the next caller gets a new
\* mailbox.  What has come since the drain loop counted stays in the old channel.
ReleaseEnd(a) ==
  /\ life[a] = "closing"
  /\ held' = [held EXCEPT ![a] = NoMailbox]
  /\ lost' = lost \cup ToSet(inbox[a])
  /\ inbox' = [inbox EXCEPT ![a] = <<>>]
  /\ life' = [life EXCEPT ![a] = "serving"]
  /\ drained' = [drained EXCEPT ![a] = 0]
  /\ dpc' = [c \in Callers |->
               IF hand[c] # 0 /\ AggregateOf(hand[c]) = a
               THEN CASE dpc[c] = "send" -> "closed"
                      [] dpc[c] = "spin" -> "retry"
                      [] OTHER -> dpc[c]
               ELSE dpc[c]]
  /\ UNCHANGED <<kind, registration, hand, got, used, busy, handled, partly, dead>>

CallerStep(c) == ReadTable(c) \/ GetMailbox(c) \/ SendPanics(c) \/ Retry(c)

MailboxStep(a) == Receive(a) \/ Handle(a) \/ DrainEnd(a) \/ ReleaseEnd(a)

DispatcherStep ==
  \/ Register
  \/ \E c \in Callers : CallerStep(c) \/ Deliver(c)
  \/ \E a \in Aggregates : MailboxStep(a) \/ HandleDies(a) \/ Release(a)

-----------------------------------------------------------------------------
\* The entries of t in table i are of its first handlers, with k proxies around each.
Fits(i, t, k) ==
  /\ Len(tables[i][t]) <= Len(handlers[t])
  /\ \A j \in DOMAIN tables[i][t] : tables[i][t][j] = <<handlers[t][j], k>>

\* Whenever the lock is free, new mailboxes get exactly the subscribed handlers, each
\* with all proxies around it: Subscribe, which adds to the table, and AddProxy, which
\* makes it anew, agree.
TableIsCurrent ==
  lock = "free" => \A t \in Types : Lookup(current, t) = Wrapped(t)

\* Also in a table that was replaced, or is still being filled, all handlers have the
\* same proxies around them.
TablesAreUniform ==
  \A i \in DOMAIN tables : \E k \in 0..proxies : \A t \in Types : Fits(i, t, k)

(* A mailbox that looks up its handlers, in whatever table it has kept and  *)
(* at whatever moment, finds them in the order of subscription, none       *)
(* twice, and never some with and some without a proxy; and it finds all   *)
(* of them if its table is the current one and nobody is registering.      *)
TablesCorrect == TableIsCurrent /\ TablesAreUniform

(* If everything is subscribed and all proxies are added before the first   *)
(* message, as the benchmark does it, every message is handled by all its  *)
(* handlers with all proxies around them, and no lookup meets a write.     *)
SetUpFirst ==
  ~ late => ~ partly /\ dead # "lookup"
=============================================================================
