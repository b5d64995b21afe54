---------------------------- MODULE EventBusProofs ----------------------------
(***************************************************************************)
(* Theorems about the handler tables of the dispatchers and the order that *)
(* the event bus keeps, for any handlers, proxies, messages and callers.   *)
(***************************************************************************)
EXTENDS EventBus, FiniteSetTheorems, TLAPS

(* Facts about sequences.                                                  *)

LEMMA AppendFacts ==
  ASSUME NEW S, NEW s \in Seq(S), NEW x \in S
  PROVE  /\ Append(s, x) \in Seq(S)
         /\ Len(s) \in Nat
         /\ Len(Append(s, x)) = Len(s) + 1
         /\ DOMAIN s = 1..Len(s)
         /\ DOMAIN Append(s, x) = 1..(Len(s) + 1)
         /\ \A i \in DOMAIN s : Append(s, x)[i] = s[i]
         /\ Append(s, x)[Len(s) + 1] = x
         /\ \A i \in DOMAIN Append(s, x) : i \in DOMAIN s \/ i = Len(s) + 1
  OBVIOUS

LEMMA TailFacts ==
  ASSUME NEW S, NEW s \in Seq(S), s # <<>>
  PROVE  /\ Head(s) \in S
         /\ Head(s) = s[1]
         /\ 1 \in DOMAIN s
         /\ Tail(s) \in Seq(S)
         /\ Len(Tail(s)) = Len(s) - 1
         /\ \A i \in DOMAIN Tail(s) : /\ i \in Nat
                                      /\ i + 1 \in DOMAIN s
                                      /\ 1 < i + 1
                                      /\ Tail(s)[i] = s[i + 1]
  OBVIOUS

LEMMA ExceptFacts ==
  ASSUME NEW S, NEW s \in Seq(S), NEW x \in S, NEW i \in DOMAIN s,
         NEW new, new = [s EXCEPT ![i] = x]
  PROVE  /\ new \in Seq(S)
         /\ Len(new) = Len(s) /\ Len(s) \in Nat /\ DOMAIN s = 1..Len(s) /\ i \in 1..Len(s)
         /\ DOMAIN new = DOMAIN s
         /\ new[i] = x
         /\ \A j \in DOMAIN s : j # i => new[j] = s[j]
  OBVIOUS

-----------------------------------------------------------------------------
USE DispatcherAssumption, EventBusAssumption DEF DispatcherAssumption, EventBusAssumption

\* The tables that there can be.
Maps == [Types -> Seq(Entries)]

LEMMA WrappedFacts ==
  ASSUME TypeOK, NEW t \in Types
  PROVE  /\ handlers[t] \in Seq(Handlers)
         /\ DOMAIN Wrapped(t) = 1..Len(handlers[t])
         /\ \A j \in 1..Len(handlers[t]) :
              Wrapped(t)[j] = <<handlers[t][j], proxies>> /\ Wrapped(t)[j] \in Entries
         /\ Lookup(current, t) \in Seq(Entries)
<1>1. handlers[t] \in Seq(Handlers) /\ proxies \in 0..MaxProxies
  BY DEF TypeOK, DispatcherTypeOK
<1>2. Lookup(current, t) \in Seq(Entries)
  BY DEF TypeOK, DispatcherTypeOK, Lookup, Nil
<1>3. QED
  BY <1>1, <1>2 DEF Wrapped, Entries

\* What WriteEntry does: in the current table, which is a new one if there was none,
\* the next handler of t is added, and nothing else changes.
Written(t) ==
  /\ tables' \in Seq(Maps)
  /\ Len(tables') \in Nat /\ Len(tables) <= Len(tables')
  /\ current' \in 1..Len(tables')
  /\ current # Nil => current' = current /\ Len(tables') = Len(tables)
  /\ \A i \in DOMAIN tables' : i # current' => i \in DOMAIN tables /\ tables'[i] = tables[i]
  /\ \A u \in Types \ {t} : tables'[current'][u] = Lookup(current, u)
  /\ tables'[current'][t] =
       Append(Lookup(current, t), <<handlers[t][Len(Lookup(current, t)) + 1], proxies>>)

LEMMA WriteFacts ==
  ASSUME TypeOK, NEW t \in Types, WriteEntry(t),
         Len(Lookup(current, t)) < Len(handlers[t])
  PROVE  Written(t)
<1> DEFINE n == Len(Lookup(current, t))
           entry == Wrapped(t)[n + 1]
<1>1. /\ handlers[t] \in Seq(Handlers)
      /\ Lookup(current, t) \in Seq(Entries)
      /\ n \in Nat /\ n + 1 \in 1..Len(handlers[t])
  BY WrappedFacts
<1>2. entry = <<handlers[t][n + 1], proxies>> /\ entry \in Entries
  BY <1>1, WrappedFacts
<1>3. tables \in Seq(Maps) /\ current \in 0..Len(tables)
  BY DEF TypeOK, DispatcherTypeOK, Maps
<1> HIDE DEF entry
<1>4. CASE current = Nil
  <2> DEFINE new == [u \in Types |-> IF u = t THEN <<entry>> ELSE <<>>]
  <2>1. new \in Maps
    BY <1>2 DEF Maps
  <2>2. tables' = Append(tables, new) /\ current' = Len(tables) + 1
    BY <1>4 DEF WriteEntry, entry
  <2>3. \A u \in Types : Lookup(current, u) = <<>>
    BY <1>4 DEF Lookup
  <2>4. Append(<<>>, entry) = <<entry>>
    OBVIOUS
  <2>5. tables'[current'] = new
    BY <1>3, <2>1, <2>2, AppendFacts
  <2>6. \A u \in Types \ {t} : tables'[current'][u] = Lookup(current, u)
    BY <2>3, <2>5
  <2>7. tables'[current'][t] = Append(Lookup(current, t), entry)
    BY <2>3, <2>4, <2>5
  <2> HIDE DEF new
  <2>8. /\ tables' \in Seq(Maps) /\ Len(tables) \in Nat
        /\ Len(tables') = Len(tables) + 1
        /\ \A i \in DOMAIN tables' : i # current' => i \in DOMAIN tables /\ tables'[i] = tables[i]
    BY <1>3, <2>1, <2>2, AppendFacts
  <2>9. QED
    BY <1>2, <1>4, <2>2, <2>6, <2>7, <2>8 DEF Nil, Written
<1>5. CASE current # Nil
  <2>1. /\ tables' = [tables EXCEPT ![current][t] = Append(@, entry)]
        /\ current' = current
    BY <1>5 DEF WriteEntry, entry
  <2>2. current \in DOMAIN tables /\ tables[current] \in Maps
        /\ \A u \in Types : Lookup(current, u) = tables[current][u]
    BY <1>3, <1>5 DEF Lookup, Nil
  <2> DEFINE new == [tables[current] EXCEPT ![t] = Append(Lookup(current, t), entry)]
  <2>3. tables' = [tables EXCEPT ![current] = new]
    BY <2>1, <2>2
  <2>4. Append(Lookup(current, t), entry) \in Seq(Entries)
    BY <1>1, <1>2, AppendFacts
  <2>5. new \in Maps
    BY <2>2, <2>4 DEF Maps
  <2>6. /\ \A u \in Types \ {t} : new[u] = Lookup(current, u)
        /\ new[t] = Append(Lookup(current, t), entry)
    BY <2>2 DEF Maps
  <2> HIDE DEF new
  <2>7. /\ tables'[current] = new
        /\ tables' \in Seq(Maps) /\ Len(tables') = Len(tables) /\ DOMAIN tables' = DOMAIN tables
        /\ \A i \in DOMAIN tables : i # current => tables'[i] = tables[i]
        /\ Len(tables) \in Nat /\ current \in 1..Len(tables)
    BY <1>3, <2>2, <2>3, <2>5, ExceptFacts
  <2>8. tables'[current'][t] = Append(Lookup(current, t), entry)
    BY <2>1, <2>6, <2>7
  <2>9. \A u \in Types \ {t} : tables'[current'][u] = Lookup(current, u)
    BY <2>1, <2>6, <2>7
  <2>10. /\ Len(tables') \in Nat /\ Len(tables) <= Len(tables') /\ current' \in 1..Len(tables')
         /\ \A i \in DOMAIN tables' : i # current' => i \in DOMAIN tables /\ tables'[i] = tables[i]
    BY <2>1, <2>7
  <2>11. QED
    BY <1>2, <1>5, <2>1, <2>7, <2>8, <2>9, <2>10 DEF Written
<1>6. QED
  BY <1>4, <1>5

-----------------------------------------------------------------------------
(* Types, and where messages and mailboxes are.                            *)

\* A caller has a message from taking it until the mailbox has it.
Dispatching == {"took", "dispatch", "send", "closed", "spin", "retry"}

Hands == \A c \in Callers : hand[c] # 0 <=> dpc[c] \in Dispatching

\* Messages are in mailboxes that exist, and sent to such; a mailbox that is being closed
\* handles none.
Homes ==
  /\ \A a \in Aggregates :
       /\ inbox[a] # <<>> \/ busy[a] # 0 \/ life[a] # "serving" => held[a] # NoMailbox
       /\ life[a] = "closing" => busy[a] = 0
  /\ \A c \in Callers : dpc[c] = "send" => held[AggregateOf(hand[c])] # NoMailbox

BaseInv == TypeOK /\ Hands /\ Homes

LEMMA IdsFacts ==
  /\ Ids = 1..Len(Messages) /\ Len(Messages) \in Nat
  /\ \A i \in Ids : AggregateOf(i) \in Aggregates /\ TypeOf(i) \in Types
  BY DEF Ids, AggregateOf, TypeOf

\* The steps that leave the tables, the callers or the mailboxes alone keep their part
\* of the type invariant.
RegistrationTypeOK ==
  /\ kind \in {"command", "event"}
  /\ handlers \in [Types -> Seq(Handlers)]
  /\ proxies \in 0..MaxProxies
  /\ tables \in Seq(Maps)
  /\ current \in 0..Len(tables)
  /\ lock \in {"free", "subscribe", "add"}
  /\ late \in BOOLEAN

CallsTypeOK ==
  /\ dpc \in [Callers -> CallerAt]
  /\ hand \in [Callers -> Ids \cup {0}]
  /\ got \in [Callers -> 0..Len(tables)]
  /\ used \in BOOLEAN

MailboxesTypeOK ==
  /\ held \in [Aggregates -> NoMailbox..Len(tables)]
  /\ inbox \in [Aggregates -> Seq(Ids)]
  /\ busy \in [Aggregates -> Ids \cup {0}]
  /\ life \in [Aggregates -> MailboxAt]
  /\ drained \in [Aggregates -> Nat]
  /\ handled \in Seq(Ids)
  /\ partly \in BOOLEAN
  /\ lost \subseteq Ids
  /\ dead \in {"no", "lookup", "send"}

BusTypeOK ==
  /\ queue \in Seq(Ids)
  /\ Len(queue) <= BufferSize
  /\ published \in 0..Len(Messages)
  /\ status \in {"stop", "running", "stopping"}
  /\ spc \in {"none", "wait", "drained"}
  /\ overlapped \in BOOLEAN

LEMMA TypeParts ==
  TypeOK <=> RegistrationTypeOK /\ CallsTypeOK /\ MailboxesTypeOK /\ BusTypeOK
  BY DEF TypeOK, DispatcherTypeOK, RegistrationTypeOK, CallsTypeOK, MailboxesTypeOK,
         BusTypeOK, Maps

LEMMA PartsType ==
  RegistrationTypeOK' /\ CallsTypeOK' /\ MailboxesTypeOK' /\ BusTypeOK' => TypeOK'
  BY DEF TypeOK, DispatcherTypeOK, RegistrationTypeOK, CallsTypeOK, MailboxesTypeOK,
         BusTypeOK, Maps

LEMMA BaseInit == Init => BaseInv
<1> SUFFICES ASSUME Init PROVE BaseInv
  OBVIOUS
<1>1. RegistrationTypeOK
  <2>1. handlers \in [Types -> Seq(Handlers)] /\ tables \in Seq(Maps)
    BY DEF Init, DispatcherInit
  <2>2. proxies \in 0..MaxProxies /\ current \in 0..Len(tables)
    BY DEF Init, DispatcherInit, Nil
  <2>3. kind \in {"command", "event"} /\ lock \in {"free", "subscribe", "add"} /\ late \in BOOLEAN
    BY DEF Init, DispatcherInit
  <2>4. QED
    BY <2>1, <2>2, <2>3 DEF RegistrationTypeOK
<1>2. CallsTypeOK
  <2>1. dpc \in [Callers -> CallerAt]
    BY DEF Init, DispatcherInit, CallerAt
  <2>2. hand \in [Callers -> Ids \cup {0}] /\ got \in [Callers -> 0..Len(tables)]
    BY DEF Init, DispatcherInit, Nil
  <2>3. used \in BOOLEAN
    BY DEF Init, DispatcherInit
  <2>4. QED
    BY <2>1, <2>2, <2>3 DEF CallsTypeOK
<1>3. MailboxesTypeOK
  <2>1. inbox \in [Aggregates -> Seq(Ids)] /\ handled \in Seq(Ids)
    BY DEF Init, DispatcherInit
  <2>2. held \in [Aggregates -> NoMailbox..Len(tables)] /\ busy \in [Aggregates -> Ids \cup {0}]
    BY DEF Init, DispatcherInit, NoMailbox
  <2>3. partly \in BOOLEAN /\ dead \in {"no", "lookup", "send"} /\ lost \subseteq Ids
    BY DEF Init, DispatcherInit
  <2>4. life \in [Aggregates -> MailboxAt] /\ drained \in [Aggregates -> Nat]
    BY DEF Init, DispatcherInit, MailboxAt
  <2>5. QED
    BY <2>1, <2>2, <2>3, <2>4 DEF MailboxesTypeOK
<1>4. BusTypeOK
  <2>1. queue \in Seq(Ids) /\ Len(queue) <= BufferSize /\ published \in 0..Len(Messages)
    BY DEF Init
  <2>2. /\ status \in {"stop", "running", "stopping"}
        /\ spc \in {"none", "wait", "drained"} /\ overlapped \in BOOLEAN
    BY DEF Init
  <2>3. QED
    BY <2>1, <2>2 DEF BusTypeOK
<1>5. Hands /\ Homes
  BY DEF Init, DispatcherInit, Hands, Homes, Dispatching
<1>6. QED
  BY <1>1, <1>2, <1>3, <1>4, <1>5, TypeParts DEF BaseInv

\* Tables are only added.
LEMMA CallsTypeKept ==
  ASSUME RegistrationTypeOK, CallsTypeOK, UNCHANGED calls,
         Len(tables') \in Nat, Len(tables) <= Len(tables')
  PROVE  CallsTypeOK'
  BY DEF RegistrationTypeOK, CallsTypeOK, calls

LEMMA MailboxesTypeKept ==
  ASSUME RegistrationTypeOK, MailboxesTypeOK, UNCHANGED <<mailboxes, ends>>,
         Len(tables') \in Nat, Len(tables) <= Len(tables')
  PROVE  MailboxesTypeOK'
  BY DEF RegistrationTypeOK, MailboxesTypeOK, mailboxes, ends, NoMailbox

LEMMA SubscribeType ==
  ASSUME TypeOK, NEW t \in Types, Subscribe(t)
  PROVE  /\ RegistrationTypeOK' /\ Len(tables') = Len(tables)
         /\ \E h \in Handlers : handlers' = [handlers EXCEPT ![t] = Append(handlers[t], h)]
<1>1. HandlersOf[t] \in Seq(Handlers) /\ handlers[t] \in Seq(Handlers)
  BY DEF TypeOK, DispatcherTypeOK
<1>2. Len(handlers[t]) + 1 \in DOMAIN HandlersOf[t]
  BY <1>1 DEF Subscribe
<1>3. HandlersOf[t][Len(handlers[t]) + 1] \in Handlers
  BY <1>1, <1>2
<1>4. PICK h \in Handlers : handlers' = [handlers EXCEPT ![t] = Append(handlers[t], h)]
  BY <1>3 DEF Subscribe
<1>5. handlers' \in [Types -> Seq(Handlers)]
  BY <1>1, <1>4, AppendFacts DEF TypeOK, DispatcherTypeOK
<1>6. QED
  BY <1>4, <1>5 DEF Subscribe, TypeOK, DispatcherTypeOK, RegistrationTypeOK, table, ChangeTable, Maps

LEMMA AddProxyType ==
  ASSUME TypeOK, AddProxy
  PROVE  /\ RegistrationTypeOK'
         /\ Len(tables') \in Nat /\ Len(tables) <= Len(tables')
         /\ \/ tables' = tables /\ current' = Nil
            \/ /\ current' = Len(tables) + 1 /\ Len(tables') = Len(tables) + 1
               /\ \A i \in DOMAIN tables : i \in DOMAIN tables' /\ tables'[i] = tables[i]
               /\ \A t \in Types : tables'[current'][t] = <<>>
<1>1. tables \in Seq(Maps) /\ current \in 0..Len(tables)
  BY DEF TypeOK, DispatcherTypeOK, Maps
<1>2. CASE kind = "command"
  BY <1>1, <1>2 DEF AddProxy, TypeOK, DispatcherTypeOK, RegistrationTypeOK, ChangeTable, Nil, Maps
<1>3. CASE kind = "event"
  <2> DEFINE new == [t \in Types |-> <<>>]
  <2>1. new \in Maps /\ \A t \in Types : new[t] = <<>>
    BY DEF Maps
  <2>2. tables' = Append(tables, new) /\ current' = Len(tables) + 1
    BY <1>3 DEF AddProxy
  <2> HIDE DEF new
  <2>3. /\ tables' \in Seq(Maps) /\ Len(tables) \in Nat
        /\ Len(tables') = Len(tables) + 1
        /\ \A i \in DOMAIN tables : i \in DOMAIN tables' /\ tables'[i] = tables[i]
        /\ tables'[current'] = new
    BY <1>1, <2>1, <2>2, AppendFacts
  <2>4. RegistrationTypeOK'
    <3>1. UNCHANGED <<kind, handlers>> /\ lock' = "add" /\ late' \in BOOLEAN
      BY DEF AddProxy, ChangeTable
    <3>2. proxies' \in 0..MaxProxies
      BY DEF AddProxy, TypeOK, DispatcherTypeOK
    <3>3. QED
      BY <2>2, <2>3, <3>1, <3>2 DEF TypeOK, DispatcherTypeOK, RegistrationTypeOK
  <2>5. QED
    BY <2>1, <2>2, <2>3, <2>4
<1>4. QED
  BY <1>2, <1>3 DEF AddProxy

LEMMA WriteType ==
  ASSUME TypeOK, NEW t \in Types, SubscribeWrapped(t) \/ AddProxyWrap(t)
  PROVE  RegistrationTypeOK' /\ Written(t) /\ Len(tables') \in Nat /\ Len(tables) <= Len(tables')
<1>1. Written(t)
  BY WriteFacts DEF SubscribeWrapped, AddProxyWrap
<1>2. /\ tables' \in Seq(Maps) /\ current' \in 0..Len(tables')
      /\ Len(tables') \in Nat /\ Len(tables) <= Len(tables')
  BY <1>1 DEF Written
<1>3. /\ UNCHANGED <<kind, handlers, proxies>>
      /\ late' \in BOOLEAN /\ lock' \in {"free", "subscribe", "add"}
  BY DEF SubscribeWrapped, AddProxyWrap, registered, ChangeTable, TypeOK, DispatcherTypeOK
<1>4. QED
  BY <1>1, <1>2, <1>3 DEF TypeOK, DispatcherTypeOK, RegistrationTypeOK

LEMMA RegistrationKept ==
  ASSUME RegistrationTypeOK, UNCHANGED <<kind, registration>>
  PROVE  RegistrationTypeOK' /\ UNCHANGED tables /\ Len(tables') \in Nat /\ Len(tables) <= Len(tables')
  BY DEF RegistrationTypeOK, registration, registered, table

LEMMA BusTypeKept ==
  ASSUME BusTypeOK, UNCHANGED bus
  PROVE  BusTypeOK'
  BY DEF BusTypeOK, bus

\* Registering disturbs only the tables.
LEMMA RegisterBase ==
  ASSUME BaseInv, Register, UNCHANGED bus
  PROVE  /\ BaseInv' /\ UNCHANGED <<kind, calls, mailboxes, ends>>
<1>1. TypeOK /\ RegistrationTypeOK /\ CallsTypeOK /\ MailboxesTypeOK /\ BusTypeOK
  BY TypeParts DEF BaseInv
<1>2. UNCHANGED <<kind, calls, mailboxes, ends>>
  BY DEF Register, Subscribe, SubscribeWrapped, AddProxyWrap, AddProxy, AddProxyEnd
<1>3. RegistrationTypeOK' /\ Len(tables') \in Nat /\ Len(tables) <= Len(tables')
  <2>1. Len(tables) \in Nat
    BY <1>1 DEF RegistrationTypeOK
  <2> DEFINE Kept == /\ RegistrationTypeOK'
                     /\ Len(tables') \in Nat /\ Len(tables) <= Len(tables')
  <2>2. ASSUME NEW t \in Types, Subscribe(t) PROVE Kept
    BY <1>1, <2>1, <2>2, SubscribeType
  <2>3. ASSUME NEW t \in Types, SubscribeWrapped(t) \/ AddProxyWrap(t) PROVE Kept
    BY <1>1, <2>3, WriteType
  <2>4. CASE AddProxy
    BY <1>1, <2>4, AddProxyType
  <2>5. CASE AddProxyEnd
    BY <1>1, <2>1, <2>5 DEF AddProxyEnd, registered, table, RegistrationTypeOK
  <2>6. QED
    BY <2>2, <2>3, <2>4, <2>5 DEF Register
<1>4. TypeOK'
  BY <1>1, <1>2, <1>3, CallsTypeKept, MailboxesTypeKept, BusTypeKept, PartsType
<1>5. Hands' /\ Homes'
  BY <1>2 DEF BaseInv, Hands, Homes, calls, mailboxes
<1>6. QED
  BY <1>2, <1>4, <1>5 DEF BaseInv

\* The steps of the callers, of the mailboxes and of the bus leave the tables alone.
LEMMA CallsBase ==
  ASSUME BaseInv, NEW c \in Callers,
         \/ (CallerStep(c) \/ Deliver(c)) /\ UNCHANGED bus
         \/ Send(c) \/ Start(c) \/ Fetch(c) \/ LoopEnds(c)
  PROVE  BaseInv'
<1>1. TypeOK /\ RegistrationTypeOK /\ CallsTypeOK /\ MailboxesTypeOK /\ BusTypeOK /\ Hands /\ Homes
  BY TypeParts DEF BaseInv
<1>2. CASE ReadTable(c) /\ UNCHANGED bus
  <2>1. RegistrationTypeOK' /\ UNCHANGED tables /\ Len(tables') \in Nat
    <3>1. UNCHANGED <<kind, registered, table, lock>> /\ late' \in BOOLEAN
      BY <1>2 DEF ReadTable
    <3>2. QED
      BY <1>1, <3>1 DEF RegistrationTypeOK, registered, table
  <2>2. CallsTypeOK'
    <3>1. current \in 0..Len(tables)
      BY <1>1 DEF RegistrationTypeOK
    <3>2. used' \in BOOLEAN
      BY <1>2 DEF ReadTable
    <3>3. QED
      BY <1>1, <1>2, <2>1, <3>1, <3>2 DEF ReadTable, CallsTypeOK, CallerAt
  <2>3. MailboxesTypeOK' /\ BusTypeOK'
    BY <1>1, <1>2, <2>1, MailboxesTypeKept, BusTypeKept DEF ReadTable
  <2>4. Hands' /\ Homes'
    BY <1>1, <1>2 DEF ReadTable, Hands, Homes, Dispatching, mailboxes, CallsTypeOK, AggregateOf
  <2>5. QED
    BY <2>1, <2>2, <2>3, <2>4, PartsType DEF BaseInv
<1>3. CASE Deliver(c) /\ UNCHANGED bus
  <2> DEFINE a == AggregateOf(hand[c])
  <2>1. RegistrationTypeOK' /\ UNCHANGED tables /\ BusTypeOK'
    BY <1>1, <1>3, RegistrationKept, BusTypeKept DEF Deliver
  <2>2. CallsTypeOK'
    BY <1>1, <1>3, <2>1 DEF Deliver, LetGo, CallsTypeOK, CallerAt, Nil, RegistrationTypeOK
  <2>3. hand[c] \in Ids /\ a \in Aggregates
    BY <1>1, <1>3, IdsFacts DEF Deliver, Hands, Dispatching, CallsTypeOK
  <2>4. held[a] # NoMailbox
    BY <1>1, <1>3 DEF Deliver, Homes
  <2> HIDE DEF a
  <2>5. inbox' = [inbox EXCEPT ![a] = Append(inbox[a], hand[c])]
    BY <1>3 DEF Deliver, a
  <2>6. inbox' \in [Aggregates -> Seq(Ids)]
    BY <1>1, <2>3, <2>5, AppendFacts DEF MailboxesTypeOK
  <2>7. MailboxesTypeOK'
    BY <1>1, <1>3, <2>1, <2>6 DEF MailboxesTypeOK, Deliver, ends
  <2>8. Hands'
    BY <1>1, <1>3 DEF Deliver, LetGo, Hands, Dispatching, CallsTypeOK
  <2>9. Homes'
    <3>1. \A b \in Aggregates \ {a} : inbox'[b] = inbox[b]
      BY <1>1, <2>5 DEF MailboxesTypeOK
    <3>2. UNCHANGED <<busy, held, life>>
      BY <1>3 DEF Deliver
    <3>3. \A d \in Callers : dpc'[d] = "send" => dpc[d] = "send" /\ hand'[d] = hand[d]
      BY <1>1, <1>3 DEF Deliver, LetGo, CallsTypeOK
    <3>4. QED
      BY <1>1, <2>4, <3>1, <3>2, <3>3 DEF Homes, AggregateOf
  <2>10. QED
    BY <2>1, <2>2, <2>7, <2>8, <2>9, PartsType DEF BaseInv
<1>4. CASE GetMailbox(c) /\ UNCHANGED bus
  <2> DEFINE a == AggregateOf(hand[c])
  <2>1. RegistrationTypeOK' /\ UNCHANGED tables /\ BusTypeOK'
    BY <1>1, <1>4, RegistrationKept, BusTypeKept DEF GetMailbox
  <2>2. CallsTypeOK'
    BY <1>1, <1>4, <2>1 DEF GetMailbox, CallsTypeOK, CallerAt
  <2>3. hand[c] \in Ids /\ a \in Aggregates
    BY <1>1, <1>4, IdsFacts DEF GetMailbox, Hands, Dispatching, CallsTypeOK
  <2> HIDE DEF a
  <2>4. held' = [held EXCEPT ![a] = IF held[a] = NoMailbox THEN got[c] ELSE held[a]]
    BY <1>4 DEF GetMailbox, a
  <2>5. held' \in [Aggregates -> NoMailbox..Len(tables')] /\ held'[a] # NoMailbox
    BY <1>1, <2>1, <2>3, <2>4 DEF MailboxesTypeOK, CallsTypeOK, NoMailbox, RegistrationTypeOK
  <2>6. MailboxesTypeOK'
    BY <1>1, <1>4, <2>5 DEF MailboxesTypeOK, GetMailbox, ends
  <2>7. Hands'
    BY <1>1, <1>4 DEF GetMailbox, Hands, Dispatching, CallsTypeOK
  <2>8. Homes'
    <3>1. \A b \in Aggregates : held'[b] = held[b] \/ b = a
      BY <1>1, <2>4 DEF MailboxesTypeOK
    <3>2. UNCHANGED <<inbox, busy, life, hand>>
      BY <1>4 DEF GetMailbox
    <3>3. \A d \in Callers : dpc'[d] = "send" => dpc[d] = "send" \/ AggregateOf(hand[d]) = a
      BY <1>1, <1>4 DEF GetMailbox, CallsTypeOK, a
    <3>4. \A d \in Callers : dpc'[d] = "send" => AggregateOf(hand[d]) \in Aggregates
      <4>1. \A d \in Callers : dpc'[d] = "send" => hand[d] \in Ids
        BY <1>1, <2>7, <3>2 DEF Hands, Dispatching, CallsTypeOK
      <4>2. QED
        BY <4>1, IdsFacts
    <3>5. QED
      BY <1>1, <2>5, <3>1, <3>2, <3>3, <3>4 DEF Homes, AggregateOf
  <2>9. QED
    BY <2>1, <2>2, <2>6, <2>7, <2>8, PartsType DEF BaseInv
<1>5. CASE SendPanics(c) /\ UNCHANGED bus
  <2>1. RegistrationTypeOK' /\ UNCHANGED tables /\ BusTypeOK'
    BY <1>1, <1>5, RegistrationKept, BusTypeKept DEF SendPanics
  <2>2. CallsTypeOK'
    BY <1>1, <1>5, <2>1 DEF SendPanics, LetGo, CallsTypeOK, CallerAt, Nil, RegistrationTypeOK
  <2>3. hand[c] \in Ids
    BY <1>1, <1>5 DEF SendPanics, Hands, Dispatching, CallsTypeOK
  <2>4. lost' \subseteq Ids /\ dead' \in {"no", "lookup", "send"}
    BY <1>1, <1>5, <2>3 DEF SendPanics, MailboxesTypeOK
  <2>5. MailboxesTypeOK'
    BY <1>1, <1>5, <2>1, <2>4 DEF MailboxesTypeOK, SendPanics, mailboxes
  <2>6. Hands'
    BY <1>1, <1>5 DEF SendPanics, LetGo, Hands, Dispatching, CallsTypeOK
  <2>7. Homes'
    <3>1. UNCHANGED <<inbox, busy, held, life>>
      BY <1>5 DEF SendPanics, mailboxes
    <3>2. \A d \in Callers : dpc'[d] = "send" => dpc[d] = "send" /\ hand'[d] = hand[d]
      BY <1>1, <1>5 DEF SendPanics, LetGo, CallsTypeOK
    <3>3. QED
      BY <1>1, <3>1, <3>2 DEF Homes, AggregateOf
  <2>8. QED
    BY <2>1, <2>2, <2>5, <2>6, <2>7, PartsType DEF BaseInv
<1>6. CASE Retry(c) /\ UNCHANGED bus
  <2>1. RegistrationTypeOK' /\ UNCHANGED tables /\ BusTypeOK' /\ MailboxesTypeOK'
    BY <1>1, <1>6, RegistrationKept, BusTypeKept, MailboxesTypeKept DEF Retry
  <2>2. CallsTypeOK' /\ Hands'
    BY <1>1, <1>6, <2>1 DEF Retry, CallsTypeOK, CallerAt, Hands, Dispatching
  <2>3. Homes'
    BY <1>1, <1>6 DEF Retry, Homes, CallsTypeOK, mailboxes, AggregateOf
  <2>4. QED
    BY <2>1, <2>2, <2>3, PartsType DEF BaseInv
<1>7. CASE Send(c) \/ Start(c) \/ Fetch(c) \/ LoopEnds(c)
  <2>1. UNCHANGED <<kind, registration, got, used, mailboxes, ends>>
    BY <1>7 DEF Send, Start, Fetch, LoopEnds, Take
  <2>2. RegistrationTypeOK' /\ MailboxesTypeOK' /\ Homes' /\ UNCHANGED tables
    <3>1. \A d \in Callers : dpc'[d] = "send" => dpc[d] = "send" /\ hand'[d] = hand[d]
      BY <1>1, <1>7 DEF Send, Start, Fetch, LoopEnds, Take, CallsTypeOK
    <3>2. QED
      BY <1>1, <2>1, <3>1, RegistrationKept, MailboxesTypeKept DEF Homes, mailboxes, AggregateOf
  <2>3. CASE Send(c)
    <3>1. published' \in Ids /\ published' \in 0..Len(Messages)
      BY <1>1, <2>3, IdsFacts DEF Send, NextMessage, BusTypeOK
    <3>2. BusTypeOK'
      BY <1>1, <2>3, <3>1 DEF Send, BusTypeOK
    <3>3. 0 \notin Ids
      BY IdsFacts
    <3>4. CallsTypeOK' /\ Hands'
      BY <1>1, <2>1, <2>2, <2>3, <3>1, <3>3 DEF Send, Take, CallsTypeOK, CallerAt, Hands, Dispatching
    <3>5. QED
      BY <2>2, <3>2, <3>4, PartsType DEF BaseInv
  <2>4. CASE Start(c)
    <3>1. BusTypeOK'
      <4>1. overlapped' \in BOOLEAN
        BY <2>4 DEF Start
      <4>2. QED
        BY <1>1, <2>4, <4>1 DEF Start, BusTypeOK
    <3>2. CallsTypeOK' /\ Hands'
      BY <1>1, <2>1, <2>2, <2>4 DEF Start, CallsTypeOK, CallerAt, Hands, Dispatching
    <3>3. QED
      BY <2>2, <3>1, <3>2, PartsType DEF BaseInv
  <2>5. CASE Fetch(c)
    <3>1. queue \in Seq(Ids) /\ queue # <<>> /\ queue' = Tail(queue)
      BY <1>1, <2>5 DEF Fetch, BusTypeOK
    <3>2. Head(queue) \in Ids /\ queue' \in Seq(Ids) /\ Len(queue') <= Len(queue)
          /\ Len(queue) \in Nat /\ Len(queue') \in Nat
      BY <3>1
    <3>3. BusTypeOK'
      BY <1>1, <2>5, <3>2 DEF Fetch, BusTypeOK
    <3>4. 0 \notin Ids
      BY IdsFacts
    <3>5. CallsTypeOK' /\ Hands'
      BY <1>1, <2>1, <2>2, <2>5, <3>2, <3>4 DEF Fetch, Take, CallsTypeOK, CallerAt, Hands, Dispatching
    <3>6. QED
      BY <2>2, <3>3, <3>5, PartsType DEF BaseInv
  <2>6. CASE LoopEnds(c)
    <3>1. BusTypeOK'
      BY <1>1, <2>6, BusTypeKept DEF LoopEnds
    <3>2. CallsTypeOK' /\ Hands'
      BY <1>1, <2>1, <2>2, <2>6 DEF LoopEnds, CallsTypeOK, CallerAt, Hands, Dispatching
    <3>3. QED
      BY <2>2, <3>1, <3>2, PartsType DEF BaseInv
  <2>7. QED
    BY <1>7, <2>3, <2>4, <2>5, <2>6
<1>8. QED
  BY <1>2, <1>3, <1>7, <1>4, <1>5, <1>6 DEF CallerStep

\* What ReleaseEnd does to the callers.
LEMMA ReleaseCalls ==
  ASSUME BaseInv, NEW a \in Aggregates, ReleaseEnd(a)
  PROVE  /\ \A c \in Callers : \/ dpc'[c] = dpc[c]
                               \/ dpc[c] = "send" /\ dpc'[c] = "closed"
                               \/ dpc[c] = "spin" /\ dpc'[c] = "retry"
         /\ \A c \in Callers : dpc'[c] = "send" => dpc[c] = "send" /\ AggregateOf(hand[c]) # a
         /\ dpc' \in [Callers -> CallerAt]
<1>1. dpc \in [Callers -> CallerAt] /\ Hands
  BY DEF BaseInv, TypeOK, DispatcherTypeOK
<1>2. \A c \in Callers : \/ dpc'[c] = dpc[c]
                         \/ dpc[c] = "send" /\ dpc'[c] = "closed"
                         \/ dpc[c] = "spin" /\ dpc'[c] = "retry"
  BY DEF ReleaseEnd
<1>3. \A c \in Callers : dpc'[c] = "send" => dpc[c] = "send" /\ AggregateOf(hand[c]) # a
  BY <1>1 DEF ReleaseEnd, Hands, Dispatching
<1>4. dpc' \in [Callers -> CallerAt]
  <2>1. \A c \in Callers : dpc'[c] \in CallerAt
    BY <1>1, <1>2 DEF CallerAt
  <2>2. dpc' = [c \in Callers |-> dpc'[c]]
    BY DEF ReleaseEnd
  <2>3. QED
    BY <2>1, <2>2
<1>5. QED
  BY <1>2, <1>3, <1>4

LEMMA MailboxesBase ==
  ASSUME BaseInv, UNCHANGED bus, NEW a \in Aggregates,
         MailboxStep(a) \/ HandleDies(a) \/ Release(a)
  PROVE  BaseInv' /\ UNCHANGED <<kind, registration>>
<1>1. TypeOK /\ RegistrationTypeOK /\ CallsTypeOK /\ MailboxesTypeOK /\ BusTypeOK /\ Hands /\ Homes
  BY TypeParts DEF BaseInv
<1>2. UNCHANGED <<kind, registration>>
  BY DEF MailboxStep, Receive, Handle, HandleDies, Release, DrainEnd, ReleaseEnd
<1>3. RegistrationTypeOK' /\ BusTypeOK' /\ UNCHANGED tables
  BY <1>1, <1>2, RegistrationKept, BusTypeKept
<1>4. UNCHANGED calls => CallsTypeOK' /\ Hands'
  BY <1>1, <1>2, RegistrationKept, CallsTypeKept DEF Hands, calls
<1>5. CASE Receive(a)
  <2>1. Head(inbox[a]) \in Ids /\ Tail(inbox[a]) \in Seq(Ids)
    BY <1>1, <1>5, TailFacts DEF Receive, MailboxesTypeOK
  <2>2. MailboxesTypeOK'
    BY <1>1, <1>3, <1>5, <2>1 DEF Receive, MailboxesTypeOK, ends
  <2>3. Homes'
    BY <1>1, <1>5 DEF Receive, MailboxesTypeOK, Homes, calls, AggregateOf
  <2>4. QED
    BY <1>2, <1>3, <1>4, <1>5, <2>2, <2>3, PartsType DEF BaseInv, Receive
<1>6. CASE Handle(a)
  <2>1. handled' \in Seq(Ids)
    BY <1>1, <1>6, AppendFacts DEF Handle, MailboxesTypeOK
  <2>2. partly' \in BOOLEAN
    BY <1>6 DEF Handle
  <2>3. drained' \in [Aggregates -> Nat]
    BY <1>1, <1>6 DEF Handle, MailboxesTypeOK
  <2>4. MailboxesTypeOK'
    BY <1>1, <1>3, <1>6, <2>1, <2>2, <2>3 DEF Handle, MailboxesTypeOK
  <2>5. Homes'
    BY <1>1, <1>6 DEF Handle, MailboxesTypeOK, Homes, calls, AggregateOf
  <2>6. QED
    BY <1>2, <1>3, <1>4, <1>6, <2>4, <2>5, PartsType DEF BaseInv, Handle
<1>7. CASE HandleDies(a)
  <2>1. MailboxesTypeOK' /\ Homes'
    BY <1>1, <1>3, <1>7 DEF HandleDies, MailboxesTypeOK, Homes, mailboxes, calls, AggregateOf
  <2>2. QED
    BY <1>2, <1>3, <1>4, <1>7, <2>1, PartsType DEF BaseInv, HandleDies
<1>8. CASE Release(a) \/ DrainEnd(a)
  <2>1. UNCHANGED <<calls, held, inbox, busy, drained, ends>>
    BY <1>8 DEF Release, DrainEnd
  <2>2. MailboxesTypeOK'
    BY <1>1, <1>3, <1>8, <2>1 DEF Release, DrainEnd, MailboxesTypeOK, MailboxAt, ends
  <2>3. Homes'
    BY <1>1, <1>8, <2>1 DEF Release, DrainEnd, Homes, MailboxesTypeOK, calls, AggregateOf
  <2>4. QED
    BY <1>2, <1>3, <1>4, <2>1, <2>2, <2>3, PartsType DEF BaseInv
<1>9. CASE ReleaseEnd(a)
  <2>1. /\ held' = [held EXCEPT ![a] = NoMailbox] /\ inbox' = [inbox EXCEPT ![a] = <<>>]
        /\ life' = [life EXCEPT ![a] = "serving"] /\ drained' = [drained EXCEPT ![a] = 0]
        /\ lost' = lost \cup ToSet(inbox[a])
        /\ UNCHANGED <<hand, got, used, busy, handled, partly, dead>>
        /\ life[a] = "closing"
    BY <1>9 DEF ReleaseEnd
  <2>2. CallsTypeOK' /\ Hands'
    BY <1>1, <1>3, <1>9, <2>1, ReleaseCalls DEF CallsTypeOK, Hands, Dispatching
  <2>3. lost' \subseteq Ids
    BY <1>1, <2>1 DEF MailboxesTypeOK, ToSet
  <2>4. MailboxesTypeOK'
    BY <1>1, <1>3, <2>1, <2>3 DEF MailboxesTypeOK, MailboxAt, NoMailbox, RegistrationTypeOK
  <2>5. Homes'
    <3>1. \A b \in Aggregates \ {a} : held'[b] = held[b] /\ inbox'[b] = inbox[b] /\ life'[b] = life[b]
      BY <1>1, <2>1 DEF MailboxesTypeOK
    <3>2. inbox'[a] = <<>> /\ busy'[a] = 0 /\ life'[a] = "serving"
      BY <1>1, <2>1 DEF MailboxesTypeOK, Homes
    <3>3. \A c \in Callers : dpc'[c] = "send" =>
            /\ AggregateOf(hand[c]) \in Aggregates \ {a}
            /\ held[AggregateOf(hand[c])] # NoMailbox
      <4>1. \A c \in Callers : dpc'[c] = "send" => dpc[c] = "send" /\ AggregateOf(hand[c]) # a
        BY <1>9, ReleaseCalls
      <4>2. \A c \in Callers : dpc[c] = "send" => hand[c] \in Ids
        BY <1>1 DEF Hands, Dispatching, CallsTypeOK
      <4>3. QED
        BY <1>1, <4>1, <4>2, IdsFacts DEF Homes
    <3>4. QED
      BY <1>1, <2>1, <3>1, <3>2, <3>3 DEF Homes, AggregateOf
  <2>6. QED
    BY <1>2, <1>3, <2>2, <2>4, <2>5, PartsType DEF BaseInv
<1>10. QED
  BY <1>5, <1>6, <1>7, <1>8, <1>9 DEF MailboxStep

LEMMA BusBase ==
  ASSUME BaseInv, Publish \/ StopBegin \/ StopDrained \/ StopEnd
  PROVE  BaseInv' /\ UNCHANGED dispatcherVars
<1>1. TypeOK /\ RegistrationTypeOK /\ CallsTypeOK /\ MailboxesTypeOK /\ BusTypeOK /\ Hands /\ Homes
  BY TypeParts DEF BaseInv
<1>2. UNCHANGED dispatcherVars
  BY DEF Publish, StopBegin, StopDrained, StopEnd
<1>3. UNCHANGED <<kind, registration, calls, mailboxes, ends>>
  BY <1>2 DEF dispatcherVars
<1>4. RegistrationTypeOK' /\ CallsTypeOK' /\ MailboxesTypeOK'
  BY <1>1, <1>3, RegistrationKept, CallsTypeKept, MailboxesTypeKept
<1>5. Hands' /\ Homes'
  BY <1>1, <1>3 DEF Hands, Homes, calls, mailboxes
<1>6. CASE Publish
  <2>1. published' \in Ids /\ published' \in 0..Len(Messages)
    BY <1>1, <1>6, IdsFacts DEF Publish, NextMessage, BusTypeOK
  <2>2. queue' \in Seq(Ids) /\ Len(queue') <= BufferSize
    BY <1>1, <1>6, <2>1, AppendFacts DEF Publish, BusTypeOK
  <2>3. BusTypeOK'
    BY <1>1, <1>6, <2>1, <2>2 DEF Publish, BusTypeOK
  <2>4. QED
    BY <1>2, <1>4, <1>5, <2>3, PartsType DEF BaseInv
<1>7. CASE StopBegin \/ StopDrained \/ StopEnd
  <2>1. BusTypeOK'
    BY <1>1, <1>7 DEF StopBegin, StopDrained, StopEnd, BusTypeOK
  <2>2. QED
    BY <1>2, <1>4, <1>5, <2>1, PartsType DEF BaseInv
<1>8. QED
  BY <1>6, <1>7

LEMMA BaseStutter == BaseInv /\ UNCHANGED vars => BaseInv'
<1> SUFFICES ASSUME BaseInv, UNCHANGED vars PROVE BaseInv'
  OBVIOUS
<1>1. UNCHANGED <<kind, registration, calls, mailboxes, ends, bus>>
  BY DEF vars, dispatcherVars
<1>2. TypeOK'
  BY <1>1, TypeParts, PartsType, RegistrationKept, CallsTypeKept, MailboxesTypeKept, BusTypeKept
     DEF BaseInv
<1>3. QED
  BY <1>1, <1>2 DEF BaseInv, Hands, Homes, calls, mailboxes

LEMMA BaseStep == BaseInv /\ [Next]_vars => BaseInv'
  BY BaseStutter, RegisterBase, CallsBase, MailboxesBase, BusBase DEF Next, DispatcherStep

\* Every variable of a dispatcher and its bus keeps its type: the channel never holds
\* more than BufferSize, and no mailbox or caller refers to a table that was not made.
THEOREM TypeCorrect == Spec => []TypeOK
<1>1. Spec => []BaseInv
  BY BaseInit, BaseStep, PTL DEF Spec
<1>2. BaseInv => TypeOK
  BY DEF BaseInv
<1>3. QED
  BY <1>1, <1>2, PTL

-----------------------------------------------------------------------------
(* The tables.                                                             *)

\* The entries s are of the first of the handlers hs, with k proxies around each.
Wraps(s, hs, k) ==
  Len(s) <= Len(hs) /\ \A j \in DOMAIN s : s[j] = <<hs[j], k>>

LEMMA WrapsEmpty == \A hs \in Seq(Handlers) : \A k : Wraps(<<>>, hs, k)
  BY DEF Wraps

\* So they do when another handler is subscribed, and when the next one is wrapped.
LEMMA WrapsLonger ==
  ASSUME NEW s \in Seq(Entries), NEW hs \in Seq(Handlers), NEW k, NEW h \in Handlers,
         Wraps(s, hs, k)
  PROVE  Wraps(s, Append(hs, h), k)
<1>1. Len(s) \in Nat /\ DOMAIN s = 1..Len(s)
  OBVIOUS
<1>2. QED
  BY <1>1, AppendFacts DEF Wraps

LEMMA WrapsMore ==
  ASSUME NEW s \in Seq(Entries), NEW hs \in Seq(Handlers), NEW k \in 0..MaxProxies,
         Wraps(s, hs, k), Len(s) < Len(hs)
  PROVE  /\ Wraps(Append(s, <<hs[Len(s) + 1], k>>), hs, k)
         /\ Len(Append(s, <<hs[Len(s) + 1], k>>)) = Len(s) + 1
<1>1. Len(s) \in Nat /\ Len(hs) \in Nat /\ Len(s) + 1 \in 1..Len(hs)
  OBVIOUS
<1>2. <<hs[Len(s) + 1], k>> \in Entries
  BY <1>1 DEF Entries
<1>3. QED
  BY <1>1, <1>2, AppendFacts DEF Wraps

LEMMA WrapsAll ==
  ASSUME NEW s \in Seq(Entries), NEW hs \in Seq(Handlers), NEW k \in 0..MaxProxies,
         Wraps(s, hs, k), Len(s) = Len(hs)
  PROVE  s = [j \in DOMAIN hs |-> <<hs[j], k>>]
  BY DEF Wraps

\* The number of handlers of t that are missing in the current table.
Missing(t) == Len(handlers[t]) - Len(Lookup(current, t))

\* The current table has handlers in all proxies, so that its entries are right as
\* far as they go; and they go as far as the lock says.
CurrentFits == \A t \in Types : Wraps(Lookup(current, t), handlers[t], proxies)

AsLocked ==
  /\ lock = "free" => \A t \in Types : Missing(t) = 0
  /\ lock = "subscribe" =>
       \E t \in Types : Missing(t) = 1 /\ \A u \in Types \ {t} : Missing(u) = 0

TableInv == TablesAreUniform /\ CurrentFits /\ AsLocked

LEMMA LookupFacts ==
  ASSUME TypeOK, NEW t \in Types
  PROVE  /\ handlers[t] \in Seq(Handlers) /\ Len(handlers[t]) \in Nat
         /\ Lookup(current, t) \in Seq(Entries) /\ Len(Lookup(current, t)) \in Nat
         /\ proxies \in 0..MaxProxies
         /\ \A i \in DOMAIN tables : tables[i][t] \in Seq(Entries) /\ Len(tables[i][t]) \in Nat
<1>1. /\ handlers[t] \in Seq(Handlers) /\ proxies \in 0..MaxProxies
      /\ tables \in Seq([Types -> Seq(Entries)])
  BY DEF TypeOK, DispatcherTypeOK
<1>2. Lookup(current, t) \in Seq(Entries)
  BY WrappedFacts
<1>3. \A i \in DOMAIN tables : tables[i][t] \in Seq(Entries)
  BY <1>1
<1>4. QED
  BY <1>1, <1>2, <1>3

LEMMA FitsWraps ==
  \A i, t, k : Fits(i, t, k) <=> Wraps(tables[i][t], handlers[t], k)
  BY DEF Fits, Wraps

\* WriteEntry keeps the tables uniform and brings the current one nearer to completion.
LEMMA WriteTables ==
  ASSUME TypeOK, TablesAreUniform, CurrentFits, NEW t \in Types, Written(t),
         Len(Lookup(current, t)) < Len(handlers[t]), UNCHANGED registered
  PROVE  /\ TablesAreUniform' /\ CurrentFits'
         /\ Missing(t)' = Missing(t) - 1
         /\ \A u \in Types \ {t} : Missing(u)' = Missing(u)
<1> DEFINE s == Lookup(current, t)
           longer == Append(s, <<handlers[t][Len(s) + 1], proxies>>)
<1>1. /\ current' \in DOMAIN tables'
      /\ \A u \in Types : Lookup(current, u)' = tables'[current'][u]
  BY DEF Written, Lookup, Nil
<1>2. UNCHANGED <<handlers, proxies>> /\ proxies \in 0..MaxProxies
  BY LookupFacts DEF registered
<1>3. Wraps(longer, handlers[t], proxies) /\ Len(longer) = Len(s) + 1
  <2>1. /\ s \in Seq(Entries) /\ handlers[t] \in Seq(Handlers)
        /\ Wraps(s, handlers[t], proxies)
    BY LookupFacts DEF CurrentFits
  <2>2. QED
    BY <1>2, <2>1, WrapsMore
<1>4. Lookup(current, t)' = longer
  BY <1>1 DEF Written
<1>5. \A u \in Types \ {t} : Lookup(current, u)' = Lookup(current, u)
  BY <1>1 DEF Written
<1> HIDE DEF longer
<1>6. \A u \in Types : Wraps(Lookup(current, u)', handlers[u], proxies)
  BY <1>3, <1>4, <1>5 DEF CurrentFits
<1>7. CurrentFits'
  BY <1>2, <1>6 DEF CurrentFits
<1>8. ASSUME NEW i \in DOMAIN tables'
      PROVE \E k \in 0..proxies' : \A u \in Types : Wraps(tables'[i][u], handlers'[u], k)
  <2>1. CASE i = current'
    BY <1>1, <1>2, <1>6, <2>1
  <2>2. CASE i # current'
    <3>1. i \in DOMAIN tables /\ tables'[i] = tables[i]
      BY <2>2, <1>8 DEF Written
    <3>2. PICK k \in 0..proxies : \A u \in Types : Wraps(tables[i][u], handlers[u], k)
      BY <3>1, FitsWraps DEF TablesAreUniform
    <3>3. QED
      BY <1>2, <3>1, <3>2
  <2>3. QED
    BY <2>1, <2>2
<1>9. TablesAreUniform'
  BY <1>8 DEF TablesAreUniform, Fits, Wraps
<1>10. Missing(t)' = Missing(t) - 1
  <2>1. Len(s) \in Nat /\ Len(handlers[t]) \in Nat
    BY LookupFacts
  <2>2. Missing(t)' = Len(handlers[t]) - (Len(s) + 1)
    BY <1>2, <1>3, <1>4 DEF Missing
  <2>3. Missing(t) = Len(handlers[t]) - Len(s)
    BY DEF Missing
  <2>4. QED
    BY <2>1, <2>2, <2>3
<1>11. \A u \in Types \ {t} : Missing(u)' = Missing(u)
  BY <1>2, <1>5 DEF Missing
<1>12. QED
  BY <1>7, <1>9, <1>10, <1>11

LEMMA TableInit == Init => TableInv
<1> SUFFICES ASSUME Init PROVE TableInv
  OBVIOUS
<1>1. TypeOK
  BY BaseInit DEF BaseInv
<1>2. \A t \in Types : handlers[t] = <<>> /\ Lookup(current, t) = <<>>
  BY DEF Init, DispatcherInit, Lookup
<1>3. lock = "free" /\ tables = <<>>
  BY DEF Init, DispatcherInit
<1>4. CurrentFits
  BY <1>2, LookupFacts, <1>1, WrapsEmpty DEF CurrentFits
<1>5. AsLocked
  BY <1>2, <1>3 DEF AsLocked, Missing
<1>6. TablesAreUniform
  BY <1>3 DEF TablesAreUniform
<1>7. QED
  BY <1>4, <1>5, <1>6 DEF TableInv

LEMMA TableKept ==
  ASSUME TableInv, UNCHANGED <<registered, table, lock>>
  PROVE  TableInv'
  BY DEF TableInv, TablesAreUniform, CurrentFits, AsLocked, Missing, Fits, Lookup, registered, table

LEMMA SubscribeTables ==
  ASSUME TypeOK, TableInv, NEW t \in Types, Subscribe(t)
  PROVE  TableInv'
<1>1. PICK h \in Handlers : handlers' = [handlers EXCEPT ![t] = Append(handlers[t], h)]
  BY SubscribeType
<1>2. UNCHANGED <<proxies, tables, current>> /\ lock = "free" /\ lock' = "subscribe"
  BY DEF Subscribe, table
<1>3. \A u \in Types : handlers'[u] = IF u = t THEN Append(handlers[t], h) ELSE handlers[u]
  BY <1>1 DEF TypeOK, DispatcherTypeOK
<1>4. \A u \in Types : Lookup(current, u)' = Lookup(current, u)
  BY <1>2 DEF Lookup
<1>5. ASSUME NEW s \in Seq(Entries), NEW u \in Types, NEW k, Wraps(s, handlers[u], k)
      PROVE  Wraps(s, handlers'[u], k)
  BY <1>3, <1>5, WrapsLonger, LookupFacts
<1>6. CurrentFits'
  BY <1>2, <1>4, <1>5, LookupFacts DEF CurrentFits, TableInv
<1>7. TablesAreUniform'
  <2>1. ASSUME NEW i \in DOMAIN tables
        PROVE \E k \in 0..proxies : \A u \in Types : Wraps(tables[i][u], handlers'[u], k)
    <3>1. PICK k \in 0..proxies : \A u \in Types : Wraps(tables[i][u], handlers[u], k)
      BY FitsWraps DEF TablesAreUniform, TableInv
    <3>2. QED
      BY <1>5, <3>1, LookupFacts
  <2>2. QED
    BY <1>2, <2>1 DEF TablesAreUniform, Fits, Wraps
<1>8. AsLocked'
  <2>1. \A u \in Types : Len(handlers[u]) \in Nat /\ Len(Lookup(current, u)) \in Nat
    BY LookupFacts
  <2>2. Len(handlers'[t]) = Len(handlers[t]) + 1
    <3>1. handlers[t] \in Seq(Handlers) /\ handlers'[t] = Append(handlers[t], h)
      BY <1>3, LookupFacts
    <3>2. QED
      BY <3>1, AppendFacts
  <2>3. \A u \in Types : Missing(u) = 0
    BY <1>2 DEF TableInv, AsLocked
  <2>4. Missing(t)' = 1
    BY <1>4, <2>1, <2>2, <2>3 DEF Missing
  <2>5. \A u \in Types \ {t} : Missing(u)' = 0
    BY <1>3, <1>4, <2>3 DEF Missing
  <2>6. QED
    BY <1>2, <2>4, <2>5 DEF AsLocked
<1>9. QED
  BY <1>6, <1>7, <1>8 DEF TableInv

LEMMA AddProxyTables ==
  ASSUME TypeOK, TableInv, AddProxy
  PROVE  TableInv'
<1>1. proxies \in Nat /\ proxies' = proxies + 1 /\ lock' = "add" /\ UNCHANGED handlers
  BY DEF AddProxy, TypeOK, DispatcherTypeOK
<1>2. \A t \in Types : Lookup(current, t)' = <<>>
  BY AddProxyType DEF Lookup, TypeOK, DispatcherTypeOK, Nil
<1>3. CurrentFits'
  BY <1>1, <1>2, WrapsEmpty, LookupFacts DEF CurrentFits
<1>4. ASSUME NEW i \in DOMAIN tables'
      PROVE \E k \in 0..proxies' : \A t \in Types : Wraps(tables'[i][t], handlers[t], k)
  <2>1. CASE i \in DOMAIN tables
    <3>1. tables'[i] = tables[i]
      BY <2>1, AddProxyType
    <3>2. PICK k \in 0..proxies : \A t \in Types : Wraps(tables[i][t], handlers[t], k)
      BY <2>1, FitsWraps DEF TablesAreUniform, TableInv
    <3>3. QED
      BY <1>1, <3>1, <3>2
  <2>2. CASE i \notin DOMAIN tables
    <3>1. i = current' /\ \A t \in Types : tables'[i][t] = <<>>
      BY <1>4, <2>2, AddProxyType DEF RegistrationTypeOK, TypeOK, DispatcherTypeOK
    <3>2. QED
      BY <1>1, <3>1, WrapsEmpty, LookupFacts
  <2>3. QED
    BY <2>1, <2>2
<1>5. TablesAreUniform'
  BY <1>1, <1>4 DEF TablesAreUniform, Fits, Wraps
<1>6. QED
  BY <1>1, <1>3, <1>5 DEF TableInv, AsLocked

LEMMA TableStep == TypeOK /\ TableInv /\ [Next]_vars => TableInv'
<1> SUFFICES ASSUME TypeOK, TableInv, [Next]_vars PROVE TableInv'
  OBVIOUS
<1>1. ASSUME NEW t \in Types, Subscribe(t) PROVE TableInv'
  BY <1>1, SubscribeTables
<1>2. CASE AddProxy
  BY <1>2, AddProxyTables
<1>3. ASSUME NEW t \in Types, SubscribeWrapped(t) \/ AddProxyWrap(t) PROVE TableInv'
  <2>1. Written(t) /\ Len(Lookup(current, t)) < Len(handlers[t]) /\ UNCHANGED registered
    BY <1>3, WriteType DEF SubscribeWrapped, AddProxyWrap
  <2>2. /\ TablesAreUniform' /\ CurrentFits' /\ Missing(t)' = Missing(t) - 1
        /\ \A u \in Types \ {t} : Missing(u)' = Missing(u)
    BY <2>1, WriteTables DEF TableInv
  <2>3. CASE SubscribeWrapped(t)
    <3>1. Missing(t) # 0
      BY <2>1, LookupFacts DEF Missing
    <3>2. Missing(t) = 1 /\ \A u \in Types \ {t} : Missing(u) = 0
      BY <2>3, <3>1 DEF TableInv, AsLocked, SubscribeWrapped
    <3>3. \A u \in Types : Missing(u)' = 0
      BY <2>2, <3>2
    <3>4. QED
      BY <2>2, <2>3, <3>3 DEF TableInv, AsLocked, SubscribeWrapped
  <2>4. CASE AddProxyWrap(t)
    BY <2>2, <2>4 DEF TableInv, AsLocked, AddProxyWrap
  <2>5. QED
    BY <1>3, <2>3, <2>4
<1>4. CASE AddProxyEnd
  <2>1. \A t \in Types : Missing(t)' = 0
    BY <1>4, LookupFacts DEF AddProxyEnd, Complete, Missing, Lookup, registered, table
  <2>2. TablesAreUniform' /\ CurrentFits'
    BY <1>4 DEF AddProxyEnd, TableInv, TablesAreUniform, CurrentFits, Fits, Lookup, registered, table
  <2>3. QED
    BY <1>4, <2>1, <2>2 DEF AddProxyEnd, TableInv, AsLocked
<1>5. CASE UNCHANGED <<registered, table, lock>>
  BY <1>5, TableKept
<1>6. UNCHANGED <<registration>> => UNCHANGED <<registered, table, lock>>
  BY DEF registration
<1>7. ASSUME NEW c \in Callers, \/ CallerStep(c) \/ Deliver(c) \/ Send(c)
                              \/ Start(c) \/ Fetch(c) \/ LoopEnds(c)
      PROVE  TableInv'
  BY <1>5, <1>6, <1>7
     DEF CallerStep, ReadTable, GetMailbox, SendPanics, Retry, Deliver, Send, Start, Fetch,
         LoopEnds, Take
<1>8. ASSUME NEW a \in Aggregates, MailboxStep(a) \/ HandleDies(a) \/ Release(a)
      PROVE  TableInv'
  BY <1>5, <1>6, <1>8
     DEF MailboxStep, Receive, Handle, DrainEnd, ReleaseEnd, HandleDies, Release
<1>9. CASE Publish \/ StopBegin \/ StopDrained \/ StopEnd
  BY <1>5, <1>6, <1>9 DEF Publish, StopBegin, StopDrained, StopEnd, dispatcherVars
<1>10. CASE UNCHANGED vars
  BY <1>5, <1>6, <1>10 DEF vars, dispatcherVars
<1>11. QED
  BY <1>1, <1>2, <1>3, <1>4, <1>7, <1>8, <1>9, <1>10 DEF Next, DispatcherStep, Register

LEMMA TablesFollow == TypeOK /\ TableInv => TablesCorrect
<1> SUFFICES ASSUME TypeOK, TableInv PROVE TablesCorrect
  OBVIOUS
<1>1. ASSUME lock = "free", NEW t \in Types PROVE Lookup(current, t) = Wrapped(t)
  <2>1. Wraps(Lookup(current, t), handlers[t], proxies) /\ Missing(t) = 0
    BY <1>1 DEF TableInv, CurrentFits, AsLocked
  <2>2. Len(Lookup(current, t)) = Len(handlers[t])
    BY <2>1, LookupFacts DEF Missing
  <2>3. QED
    BY <2>1, <2>2, LookupFacts, WrapsAll DEF Wrapped
<1>2. QED
  BY <1>1 DEF TableInv, TablesCorrect, TableIsCurrent

\* Subscribe and AddProxy agree on the table, whatever is subscribed, in whatever order
\* and however often a proxy is added: when nobody holds the lock it has exactly the
\* subscribed handlers in all proxies, and no table ever mixes handlers with different
\* proxies.  Dispatch does not take the lock: while somebody registers it may find a table
\* that is empty or half filled, of which only the second part speaks.
THEOREM TablesCorrectCorrect == Spec => []TablesCorrect
<1>1. Init => BaseInv /\ TableInv
  BY BaseInit, TableInit
<1>2. (BaseInv /\ TableInv) /\ [Next]_vars => (BaseInv /\ TableInv)'
  BY BaseStep, TableStep DEF BaseInv
<1>3. BaseInv /\ TableInv => TablesCorrect
  BY TablesFollow DEF BaseInv
<1>4. QED
  BY <1>1, <1>2, <1>3, PTL DEF Spec

-----------------------------------------------------------------------------
(* Setting up before the first message.                                    *)

\* Once the table has been read nobody registers any more, unless that is late; so the
\* callers and the mailboxes have the current table, which is complete.
SetUpInv ==
  ~ late =>
    /\ ~ partly /\ dead # "lookup"
    /\ used => lock = "free"
    /\ \A c \in Callers : dpc[c] = "dispatch" => used /\ got[c] = current
    /\ \A a \in Aggregates : held[a] # NoMailbox => used /\ held[a] = current

LEMMA SetUpInit == Init => SetUpInv
  BY DEF Init, DispatcherInit, SetUpInv, NoMailbox

LEMMA SetUpStep == BaseInv /\ TableInv /\ SetUpInv /\ [Next]_vars => SetUpInv'
<1> SUFFICES ASSUME BaseInv, TableInv, SetUpInv, [Next]_vars, ~ late' PROVE SetUpInv'
  BY DEF SetUpInv
<1> USE DEF SetUpInv
<1>0. /\ dpc \in [Callers -> CallerAt]
      /\ got \in [Callers -> 0..Len(tables)]
      /\ held \in [Aggregates -> NoMailbox..Len(tables)]
      /\ busy \in [Aggregates -> Ids \cup {0}]
  BY DEF BaseInv, TypeOK, DispatcherTypeOK
<1>1. CASE Register /\ UNCHANGED bus
  <2>1. UNCHANGED <<calls, mailboxes, ends>>
    BY <1>1, RegisterBase
  <2>2. CASE AddProxyEnd
    BY <2>1, <2>2 DEF AddProxyEnd, calls, mailboxes, ends, table
  <2>3. CASE ~ AddProxyEnd
    <3>1. ~ late /\ ~ used
      BY <1>1, <2>3 DEF Register, Subscribe, SubscribeWrapped, AddProxyWrap, AddProxy, ChangeTable
    <3>2. QED
      BY <2>1, <3>1 DEF calls, mailboxes, ends
  <2>4. QED
    BY <2>2, <2>3
<1>2. ASSUME NEW c \in Callers, ReadTable(c) PROVE SetUpInv'
  BY <1>0, <1>2 DEF ReadTable, mailboxes, ends, table
<1>3. ASSUME NEW c \in Callers, GetMailbox(c) PROVE SetUpInv'
  <2>1. /\ ~ late /\ used /\ got[c] = current
        /\ UNCHANGED <<late, lock, used, current, partly, dead>>
    BY <1>3 DEF GetMailbox, registration, table, ends
  <2>2. \A d \in Callers : dpc'[d] = "dispatch" => dpc[d] = "dispatch" /\ got'[d] = got[d]
    BY <1>0, <1>3 DEF GetMailbox
  <2>3. \A a \in Aggregates : held'[a] \in {held[a], got[c]}
    BY <1>0, <1>3 DEF GetMailbox
  <2>4. QED
    BY <2>1, <2>2, <2>3
<1>9. ASSUME NEW c \in Callers, Deliver(c) \/ SendPanics(c) \/ Retry(c) PROVE SetUpInv'
  <2>1. UNCHANGED <<late, lock, used, current, held, partly>>
    BY <1>9 DEF Deliver, SendPanics, Retry, registration, table, mailboxes, ends
  <2>2. dead' = "lookup" => dead = "lookup"
    BY <1>9 DEF Deliver, SendPanics, Retry, ends
  <2>3. \A d \in Callers : dpc'[d] = "dispatch" => dpc[d] = "dispatch" /\ got'[d] = got[d]
    BY <1>0, <1>9 DEF Deliver, SendPanics, Retry, LetGo
  <2>4. QED
    BY <2>1, <2>2, <2>3
<1>4. ASSUME NEW c \in Callers, Send(c) \/ Start(c) \/ Fetch(c) \/ LoopEnds(c) PROVE SetUpInv'
  <2>1. UNCHANGED <<registration, got, used, mailboxes, ends>>
    BY <1>4 DEF Send, Start, Fetch, LoopEnds, Take
  <2>2. \A d \in Callers : dpc'[d] = "dispatch" => dpc[d] = "dispatch"
    BY <1>0, <1>4 DEF Send, Start, Fetch, LoopEnds, Take
  <2>3. QED
    BY <2>1, <2>2 DEF registration, table, mailboxes, ends
<1>5. ASSUME NEW a \in Aggregates, Receive(a) \/ Release(a) \/ DrainEnd(a) PROVE SetUpInv'
  <2>1. UNCHANGED <<registration, calls, held, ends>>
    BY <1>5 DEF Receive, Release, DrainEnd
  <2>2. QED
    BY <2>1 DEF registration, table, calls, ends
<1>10. ASSUME NEW a \in Aggregates, ReleaseEnd(a) PROVE SetUpInv'
  <2>1. UNCHANGED <<registration, got, used, partly, dead>>
    BY <1>10 DEF ReleaseEnd
  <2>2. \A b \in Aggregates : held'[b] \in {held[b], NoMailbox}
    BY <1>0, <1>10 DEF ReleaseEnd
  <2>3. \A c \in Callers : dpc'[c] = "dispatch" => dpc[c] = "dispatch"
    BY <1>10, ReleaseCalls
  <2>4. QED
    BY <2>1, <2>2, <2>3 DEF registration, table
<1>6. ASSUME NEW a \in Aggregates, Handle(a) \/ HandleDies(a) PROVE SetUpInv'
  <2>1. UNCHANGED <<registration, calls, held>>
    BY <1>6 DEF Handle, HandleDies, mailboxes
  <2>2. busy[a] \in Ids /\ TypeOf(busy[a]) \in Types
    BY <1>0, <1>6, IdsFacts DEF Handle, HandleDies
  <2>3. lock = "free" /\ held[a] = current
    <3>1. ~ late
      BY <2>1 DEF registration
    <3>2. held[a] # NoMailbox
      BY <1>6 DEF BaseInv, Homes, Handle, HandleDies
    <3>3. QED
      BY <3>1, <3>2
  <2>4. Lookup(held[a], TypeOf(busy[a])) = Wrapped(TypeOf(busy[a]))
    BY <2>2, <2>3, TablesFollow DEF BaseInv, TablesCorrect, TableIsCurrent
  <2>5. ~ HandleDies(a)
    BY <2>3 DEF HandleDies
  <2>6. ~ partly' /\ dead' # "lookup"
    <3>1. ~ late
      BY <2>1 DEF registration
    <3>2. /\ UNCHANGED dead
          /\ partly' = (partly \/ Lookup(held[a], TypeOf(busy[a])) # Wrapped(TypeOf(busy[a])))
      BY <1>6, <2>5 DEF Handle
    <3>3. QED
      BY <2>4, <3>1, <3>2
  <2>7. QED
    BY <2>1, <2>6 DEF registration, table, calls
<1>7. CASE Publish \/ StopBegin \/ StopDrained \/ StopEnd \/ UNCHANGED vars
  <2>1. UNCHANGED <<registration, calls, mailboxes, ends>>
    BY <1>7 DEF Publish, StopBegin, StopDrained, StopEnd, vars, dispatcherVars
  <2>2. QED
    BY <2>1 DEF registration, table, calls, mailboxes, ends
<1>8. QED
  BY <1>1, <1>2, <1>3, <1>4, <1>5, <1>6, <1>7, <1>9, <1>10
     DEF Next, DispatcherStep, CallerStep, MailboxStep

\* Set up before the first message, a dispatcher passes every message to all its handlers
\* in all proxies, and no lookup meets a write, although nothing locks the lookups.
THEOREM SetUpFirstCorrect == Spec => []SetUpFirst
<1> DEFINE Inv == BaseInv /\ TableInv /\ SetUpInv
<1>1. Init => Inv
  BY BaseInit, TableInit, SetUpInit
<1>2. Inv /\ [Next]_vars => Inv'
  BY BaseStep, TableStep, SetUpStep DEF BaseInv
<1>3. Inv => SetUpFirst
  BY DEF SetUpInv, SetUpFirst
<1>4. QED
  BY <1>1, <1>2, <1>3, PTL DEF Spec

-----------------------------------------------------------------------------
(* The order of the streams.                                               *)

\* Messages that are past the callers.
Delivered ==
  {i \in Ids : \/ \E a \in Aggregates : i \in ToSet(inbox[a]) \/ i = busy[a]
              \/ i \in ToSet(handled)}

\* All message numbers of s are below n.
Below(s, n) == \A j \in DOMAIN s : s[j] < n

Rising(s) == \A j, k \in DOMAIN s : j < k => s[j] < s[k]

\* One loop, and what it has taken is between what is in the channel and what has been
\* delivered.
OneLoop == \A c, d \in Callers : Alive(c) /\ Alive(d) => c = d

LineUp ==
  /\ Rising(queue)
  /\ Below(queue, published + 1)
  /\ \A c \in Callers : hand[c] # 0 => hand[c] <= published /\ \A j \in DOMAIN queue : hand[c] < queue[j]
  /\ \A i \in Delivered : /\ i <= published
                          /\ \A j \in DOMAIN queue : i < queue[j]
                          /\ \A c \in Callers : hand[c] # 0 => i < hand[c]

\* The same in the mailbox of an aggregate, and in what it has handled.
Past(a) == {j \in DOMAIN handled : AggregateOf(handled[j]) = a}

InLine(a) ==
  /\ Rising(inbox[a])
  /\ \A j \in DOMAIN inbox[a] : AggregateOf(inbox[a][j]) = a
  /\ busy[a] # 0 => AggregateOf(busy[a]) = a /\ \A j \in DOMAIN inbox[a] : busy[a] < inbox[a][j]
  /\ \A k \in Past(a) : /\ busy[a] # 0 => handled[k] < busy[a]
                        /\ \A j \in DOMAIN inbox[a] : handled[k] < inbox[a][j]
                        /\ \A j \in Past(a) : j < k => handled[j] < handled[k]

MailboxOrder == \A a \in Aggregates : InLine(a)

OrderInv == kind = "event" /\ ~ overlapped => OneLoop /\ LineUp /\ MailboxOrder

LEMMA NumberFacts ==
  /\ Ids \subseteq Nat /\ 0 \notin Ids
  /\ BaseInv => /\ queue \in Seq(Ids) /\ published \in Nat
                /\ hand \in [Callers -> Nat]
                /\ inbox \in [Aggregates -> Seq(Ids)]
                /\ busy \in [Aggregates -> Nat] /\ \A a \in Aggregates : busy[a] # 0 => busy[a] \in Ids
                /\ handled \in Seq(Ids)
<1>1. Ids \subseteq Nat /\ 0 \notin Ids
  BY IdsFacts
<1> SUFFICES ASSUME BaseInv
             PROVE  /\ queue \in Seq(Ids) /\ published \in Nat
                    /\ hand \in [Callers -> Nat]
                    /\ inbox \in [Aggregates -> Seq(Ids)]
                    /\ busy \in [Aggregates -> Nat]
                    /\ \A a \in Aggregates : busy[a] # 0 => busy[a] \in Ids
                    /\ handled \in Seq(Ids)
  BY <1>1
<1>2. /\ queue \in Seq(Ids) /\ published \in 0..Len(Messages)
      /\ hand \in [Callers -> Ids \cup {0}]
      /\ inbox \in [Aggregates -> Seq(Ids)]
      /\ busy \in [Aggregates -> Ids \cup {0}]
      /\ handled \in Seq(Ids)
  BY DEF BaseInv, TypeOK, DispatcherTypeOK
<1>3. QED
  BY <1>1, <1>2, IdsFacts

LEMMA OrderInit == Init => OrderInv
<1> SUFFICES ASSUME Init, kind = "event" PROVE OneLoop /\ LineUp /\ MailboxOrder
  BY DEF OrderInv
<1> USE DEF Init, DispatcherInit
<1>1. queue = <<>> /\ handled = <<>> /\ \A a \in Aggregates : inbox[a] = <<>> /\ busy[a] = 0
  OBVIOUS
<1>2. Delivered = {}
  BY <1>1, NumberFacts DEF Delivered, ToSet
<1>3. LineUp
  BY <1>1, <1>2 DEF LineUp, Rising, Below
<1>4. MailboxOrder
  BY <1>1 DEF MailboxOrder, InLine, Rising, Past
<1>5. OneLoop
  BY DEF OneLoop, Alive
<1>6. QED
  BY <1>3, <1>4, <1>5

\* The steps that move no message.
LEMMA OrderKept ==
  ASSUME OrderInv,
         UNCHANGED <<kind, hand, queue, published, inbox, busy, handled, overlapped>>,
         \A c \in Callers : Alive(c)' => Alive(c)
  PROVE  OrderInv'
<1>1. Delivered' = Delivered /\ \A a : Past(a)' = Past(a)
  BY DEF Delivered, Past
<1>2. QED
  BY <1>1 DEF OrderInv, OneLoop, LineUp, MailboxOrder, InLine, Rising, Below

\* A message that is lost leaves no gap that matters: what remains is in line.
LEMMA OrderLess ==
  ASSUME BaseInv, OrderInv,
         UNCHANGED <<kind, queue, published, busy, handled, overlapped>>,
         \A c \in Callers : /\ Alive(c)' => Alive(c)
                            /\ hand'[c] # 0 => hand'[c] = hand[c],
         \A a \in Aggregates : inbox'[a] = inbox[a] \/ inbox'[a] = <<>>
  PROVE  OrderInv'
<1> SUFFICES ASSUME kind = "event", ~ overlapped, OneLoop, LineUp, MailboxOrder
             PROVE  OneLoop' /\ LineUp' /\ MailboxOrder'
  BY DEF OrderInv
<1>1. OneLoop'
  BY DEF OneLoop
<1>2. Delivered' \subseteq Delivered
  <2>1. \A a \in Aggregates : ToSet(inbox'[a]) \subseteq ToSet(inbox[a])
    BY DEF ToSet
  <2>2. QED
    BY <2>1 DEF Delivered
<1>3. LineUp'
  BY <1>2 DEF LineUp, Rising, Below
<1>4. ASSUME NEW a \in Aggregates PROVE InLine(a)'
  <2>1. InLine(a) /\ Past(a)' = Past(a)
    BY DEF MailboxOrder, Past
  <2>2. QED
    BY <2>1 DEF InLine, Rising
<1>5. QED
  BY <1>1, <1>3, <1>4 DEF MailboxOrder

LEMMA DeliveredKept ==
  ASSUME UNCHANGED <<inbox, busy, handled>>
  PROVE  Delivered' = Delivered /\ (MailboxOrder => MailboxOrder')
  BY DEF Delivered, MailboxOrder, InLine, Past, Rising

\* In what follows there has been one loop at a time.
LEMMA PublishOrder ==
  ASSUME BaseInv, OneLoop, LineUp, MailboxOrder, Publish
  PROVE  OneLoop' /\ LineUp' /\ MailboxOrder'
<1>1. queue \in Seq(Ids) /\ published \in Nat
  BY NumberFacts
<1>2. /\ UNCHANGED <<dpc, hand, inbox, busy, handled>>
      /\ published' = published + 1 /\ queue' = Append(queue, published + 1)
  BY DEF Publish, NextMessage, dispatcherVars, calls, mailboxes, ends
<1>3. published + 1 \in Ids
  BY <1>1, IdsFacts DEF Publish, NextMessage, BaseInv, TypeOK
<1>4. /\ \A j \in DOMAIN queue : queue'[j] = queue[j] /\ queue[j] \in Nat
      /\ \A j \in DOMAIN queue' : j \in DOMAIN queue \/ j = Len(queue) + 1
      /\ queue'[Len(queue) + 1] = published + 1
      /\ DOMAIN queue = 1..Len(queue) /\ Len(queue) \in Nat
  <2>1. queue \in Seq(Ids) /\ published + 1 \in Ids /\ Ids \subseteq Nat
    BY <1>1, <1>3, NumberFacts
  <2>2. \A j \in DOMAIN queue : queue[j] \in Nat
    <3>1. \A j \in DOMAIN queue : queue[j] \in Ids
      BY <2>1
    <3>2. QED
      BY <2>1, <3>1
  <2>3. QED
    BY <1>2, <2>1, <2>2, AppendFacts
<1>5. Rising(queue') /\ Below(queue', published' + 1)
  BY <1>1, <1>2, <1>4 DEF LineUp, Rising, Below
<1>6. Delivered' = Delivered /\ MailboxOrder'
  BY <1>2, DeliveredKept
<1>7. \A i \in Int : i <= published /\ (\A j \in DOMAIN queue : i < queue[j])
        => i <= published' /\ \A j \in DOMAIN queue' : i < queue'[j]
  BY <1>1, <1>2, <1>4
<1>8. \A c \in Callers : hand[c] \in Int
  BY NumberFacts
<1>9. Delivered \subseteq Int
  <2>1. Delivered \subseteq Ids
    BY DEF Delivered
  <2>2. QED
    BY <2>1, NumberFacts
<1>10. LineUp'
  BY <1>2, <1>5, <1>6, <1>7, <1>8, <1>9 DEF LineUp
<1>11. QED
  BY <1>2, <1>6, <1>10 DEF OneLoop, Alive

\* The one loop takes the first stream of the channel; nobody else holds one.
LEMMA FetchOrder ==
  ASSUME BaseInv, OneLoop, LineUp, MailboxOrder, NEW c \in Callers, Fetch(c)
  PROVE  OneLoop' /\ LineUp' /\ MailboxOrder'
<1>1. /\ queue \in Seq(Ids) /\ queue # <<>> /\ queue' = Tail(queue)
      /\ UNCHANGED <<published, inbox, busy, handled>>
      /\ dpc[c] = "select"
  BY NumberFacts DEF Fetch, Take, mailboxes, ends
<1>2. /\ hand' = [hand EXCEPT ![c] = queue[1]] /\ 1 \in DOMAIN queue
      /\ hand \in [Callers -> Nat]
      /\ \A j \in DOMAIN queue' : /\ j \in Nat /\ j + 1 \in DOMAIN queue /\ 1 < j + 1
                                  /\ queue'[j] = queue[j + 1]
  BY <1>1, TailFacts, NumberFacts DEF Fetch, Take
<1>3. ASSUME NEW d \in Callers, d # c PROVE hand'[d] = 0
  <2>1. hand[d] # 0 => Alive(d) /\ Alive(c)
    BY <1>1 DEF BaseInv, Hands, Dispatching, Alive
  <2>2. QED
    BY <1>2, <1>3, <2>1 DEF OneLoop
<1>4. hand'[c] = queue[1]
  BY <1>2
<1>5. \A j \in DOMAIN queue' : queue[1] < queue'[j]
  BY <1>2 DEF LineUp, Rising
<1>6. Rising(queue')
  <2>1. ASSUME NEW j \in DOMAIN queue', NEW k \in DOMAIN queue', j < k PROVE queue'[j] < queue'[k]
    <3>1. j + 1 < k + 1
      BY <1>2, <2>1
    <3>2. QED
      BY <1>2, <3>1 DEF LineUp, Rising
  <2>2. QED
    BY <2>1 DEF Rising
<1>7. Below(queue', published' + 1) /\ queue[1] <= published
  <2>1. queue[1] \in Nat /\ published \in Nat
    <3>1. queue[1] \in Ids
      BY <1>1, <1>2
    <3>2. QED
      BY <3>1, NumberFacts
  <2>2. QED
    BY <1>1, <1>2, <2>1 DEF LineUp, Below
<1>8. Delivered' = Delivered /\ MailboxOrder'
  BY <1>1, DeliveredKept
<1>9. \A i \in Delivered : i <= published /\ i < queue[1] /\ \A j \in DOMAIN queue' : i < queue'[j]
  BY <1>2 DEF LineUp
<1>10. LineUp'
  <2>1. \A d \in Callers : hand'[d] # 0 => hand'[d] = queue[1]
    BY <1>3, <1>4
  <2>2. QED
    BY <1>1, <1>5, <1>6, <1>7, <1>8, <1>9, <2>1 DEF LineUp
<1>11. OneLoop'
  <2>1. \A d \in Callers : Alive(d)' => Alive(d)
    BY <1>1 DEF Fetch, Take, Alive, BaseInv, TypeOK, DispatcherTypeOK
  <2>2. QED
    BY <2>1 DEF OneLoop
<1>12. QED
  BY <1>8, <1>10, <1>11

\* It goes to the end of the line of its aggregate.
LEMMA DeliverOrder ==
  ASSUME BaseInv, OneLoop, LineUp, MailboxOrder, NEW c \in Callers, Deliver(c), UNCHANGED bus
  PROVE  OneLoop' /\ LineUp' /\ MailboxOrder'
<1>0. PICK i \in Ids : i = hand[c]
  BY NumberFacts, IdsFacts DEF BaseInv, Hands, Dispatching, Deliver, TypeOK, DispatcherTypeOK
<1>a. PICK a \in Aggregates : a = AggregateOf(i)
  BY IdsFacts
<1>1. i \in Ids /\ i # 0 /\ i \in Nat /\ a \in Aggregates
  BY NumberFacts
<1>2. /\ inbox' = [inbox EXCEPT ![a] = Append(inbox[a], i)]
      /\ hand' = [hand EXCEPT ![c] = 0] /\ dpc[c] = "send"
      /\ UNCHANGED <<queue, published, busy, handled>>
  BY <1>0, <1>a DEF Deliver, LetGo, bus, ends
<1>3. /\ hand \in [Callers -> Nat] /\ inbox \in [Aggregates -> Seq(Ids)]
      /\ inbox[a] \in Seq(Ids)
  BY <1>1, NumberFacts
<1>4. \A d \in Callers : hand'[d] = 0
  <2>1. \A d \in Callers : hand[d] # 0 => Alive(d)
    BY DEF BaseInv, Hands, Dispatching, Alive
  <2>2. Alive(c)
    BY <1>2 DEF Alive
  <2>3. QED
    BY <1>2, <1>3, <2>1, <2>2 DEF OneLoop
<1>5. \A b \in Aggregates : inbox'[b] = IF b = a THEN Append(inbox[a], i) ELSE inbox[b]
  BY <1>2, <1>3
<1>6. /\ DOMAIN Append(inbox[a], i) = 1..(Len(inbox[a]) + 1) /\ DOMAIN inbox[a] = 1..Len(inbox[a])
      /\ Len(inbox[a]) \in Nat
      /\ \A j \in DOMAIN inbox[a] : Append(inbox[a], i)[j] = inbox[a][j]
      /\ Append(inbox[a], i)[Len(inbox[a]) + 1] = i
      /\ \A j \in DOMAIN Append(inbox[a], i) : j \in DOMAIN inbox[a] \/ j = Len(inbox[a]) + 1
  BY <1>1, <1>3, AppendFacts
<1>7. Delivered' \subseteq Delivered \cup {i}
  <2>1. \A b \in Aggregates : ToSet(inbox'[b]) \subseteq ToSet(inbox[b]) \cup {i}
    BY <1>5, <1>6 DEF ToSet
  <2>2. QED
    BY <1>2, <2>1 DEF Delivered
<1>8. LineUp'
  <2>1. i <= published /\ \A j \in DOMAIN queue : i < queue[j]
    BY <1>0, <1>1 DEF LineUp
  <2>2. QED
    BY <1>2, <1>4, <1>7, <2>1 DEF LineUp
<1>9. \A k \in Delivered : k < i
  BY <1>0, <1>1 DEF LineUp
<1>10. /\ \A j \in DOMAIN inbox[a] : inbox[a][j] < i
       /\ busy[a] # 0 => busy[a] < i
       /\ \A j \in DOMAIN handled : handled[j] < i
  <2>1. \A j \in DOMAIN inbox[a] : inbox[a][j] \in Delivered
    BY <1>1, <1>3 DEF Delivered, ToSet
  <2>2. busy[a] # 0 => busy[a] \in Delivered
    BY <1>1, NumberFacts DEF Delivered
  <2>3. \A j \in DOMAIN handled : handled[j] \in Delivered
    <3>1. handled \in Seq(Ids)
      BY NumberFacts
    <3>2. QED
      BY <3>1 DEF Delivered, ToSet
  <2>4. QED
    BY <1>9, <2>1, <2>2, <2>3
<1>11. MailboxOrder'
  <2>1. \A b \in Aggregates : Past(b)' = Past(b)
    BY <1>2 DEF Past
  <2>2. ASSUME NEW b \in Aggregates, b # a
        PROVE  InLine(b)'
    <3>1. inbox'[b] = inbox[b]
      BY <1>5, <2>2
    <3>2. InLine(b) /\ Past(b)' = Past(b) /\ busy'[b] = busy[b] /\ UNCHANGED handled
      BY <1>2, <2>1 DEF MailboxOrder
    <3>3. QED
      BY <3>1, <3>2 DEF InLine, Rising
  <2>3. inbox'[a] = Append(inbox[a], i) /\ AggregateOf(i) = a
    BY <1>1, <1>5, <1>a
  <2>4. Rising(inbox'[a])
    BY <1>1, <1>6, <1>10, <2>3 DEF MailboxOrder, InLine, Rising
  <2>5. \A j \in DOMAIN inbox'[a] : /\ AggregateOf(inbox'[a][j]) = a
                                    /\ busy[a] # 0 => busy[a] < inbox'[a][j]
                                    /\ \A k \in Past(a) : handled[k] < inbox'[a][j]
    BY <1>1, <1>6, <1>10, <2>3 DEF MailboxOrder, InLine, Past
  <2>6. InLine(a)'
    <3>1. InLine(a) /\ UNCHANGED <<busy, handled>> /\ Past(a)' = Past(a)
      BY <1>2, <2>1 DEF MailboxOrder
    <3>2. QED
      BY <2>4, <2>5, <3>1 DEF InLine
  <2>7. QED
    BY <2>2, <2>6 DEF MailboxOrder
<1>12. OneLoop'
  <2>1. \A d \in Callers : Alive(d)' => Alive(d)
    BY DEF Deliver, LetGo, Alive, BaseInv, TypeOK, DispatcherTypeOK
  <2>2. QED
    BY <2>1 DEF OneLoop
<1>13. QED
  BY <1>8, <1>11, <1>12

LEMMA ReceiveOrder ==
  ASSUME BaseInv, LineUp, MailboxOrder, NEW a \in Aggregates, Receive(a), UNCHANGED bus
  PROVE  LineUp' /\ MailboxOrder'
<1>1. /\ inbox \in [Aggregates -> Seq(Ids)] /\ inbox[a] \in Seq(Ids) /\ inbox[a] # <<>>
      /\ busy \in [Aggregates -> Nat] /\ busy[a] = 0
  BY NumberFacts DEF Receive
<1>2. /\ busy' = [busy EXCEPT ![a] = Head(inbox[a])] /\ inbox' = [inbox EXCEPT ![a] = Tail(inbox[a])]
      /\ UNCHANGED <<queue, published, hand, handled>>
  BY DEF Receive, bus, calls, ends
<1>3. /\ busy'[a] = inbox[a][1] /\ 1 \in DOMAIN inbox[a]
      /\ inbox'[a] = Tail(inbox[a])
      /\ \A j \in DOMAIN inbox'[a] : /\ j \in Nat /\ j + 1 \in DOMAIN inbox[a] /\ 1 < j + 1
                                     /\ inbox'[a][j] = inbox[a][j + 1]
  BY <1>1, <1>2, TailFacts
<1>4. \A b \in Aggregates \ {a} : inbox'[b] = inbox[b] /\ busy'[b] = busy[b]
  BY <1>1, <1>2
<1>5. Delivered' \subseteq Delivered
  <2>1. ToSet(inbox'[a]) \subseteq ToSet(inbox[a]) /\ busy'[a] \in ToSet(inbox[a])
    BY <1>3 DEF ToSet
  <2>2. QED
    BY <1>2, <1>4, <2>1 DEF Delivered
<1>6. LineUp'
  BY <1>2, <1>5 DEF LineUp
<1>7. \A b : Past(b)' = Past(b)
  BY <1>2 DEF Past
<1>8. ASSUME NEW b \in Aggregates, b # a PROVE InLine(b)'
  BY <1>2, <1>4, <1>7, <1>8 DEF MailboxOrder, InLine, Rising
<1>9. InLine(a)'
  <2>1. InLine(a)
    BY DEF MailboxOrder
  <2>2. Rising(inbox'[a])
    <3>1. ASSUME NEW j \in DOMAIN inbox'[a], NEW k \in DOMAIN inbox'[a], j < k
          PROVE  inbox'[a][j] < inbox'[a][k]
      <4>1. j + 1 < k + 1
        BY <1>3, <3>1
      <4>2. QED
        BY <1>3, <2>1, <4>1 DEF InLine, Rising
    <3>2. QED
      BY <3>1 DEF Rising
  <2>3. /\ AggregateOf(busy'[a]) = a
        /\ \A j \in DOMAIN inbox'[a] : AggregateOf(inbox'[a][j]) = a /\ busy'[a] < inbox'[a][j]
    BY <1>3, <2>1 DEF InLine, Rising
  <2>4. \A k \in Past(a) : /\ handled[k] < busy'[a]
                           /\ \A j \in DOMAIN inbox'[a] : handled[k] < inbox'[a][j]
    BY <1>3, <2>1 DEF InLine
  <2>5. QED
    BY <1>2, <1>7, <2>1, <2>2, <2>3, <2>4 DEF InLine
<1>10. QED
  BY <1>6, <1>8, <1>9 DEF MailboxOrder

LEMMA HandleOrder ==
  ASSUME BaseInv, LineUp, MailboxOrder, NEW a \in Aggregates, Handle(a), UNCHANGED bus
  PROVE  LineUp' /\ MailboxOrder'
<1>1. busy \in [Aggregates -> Nat] /\ busy[a] # 0 /\ busy[a] \in Ids /\ handled \in Seq(Ids)
  BY NumberFacts DEF Handle
<1>2. /\ busy' = [busy EXCEPT ![a] = 0] /\ handled' = Append(handled, busy[a])
      /\ UNCHANGED <<queue, published, hand, inbox>>
  BY DEF Handle, bus, calls
<1>3. \A b \in Aggregates : busy'[b] = IF b = a THEN 0 ELSE busy[b]
  BY <1>1, <1>2
<1>4. /\ \A j \in DOMAIN handled : handled'[j] = handled[j]
      /\ handled'[Len(handled) + 1] = busy[a]
      /\ DOMAIN handled' = 1..(Len(handled) + 1) /\ DOMAIN handled = 1..Len(handled)
      /\ \A j \in DOMAIN handled' : j \in DOMAIN handled \/ j = Len(handled) + 1
      /\ Len(handled) \in Nat
  BY <1>1, <1>2, AppendFacts
<1>5. Delivered' \subseteq Delivered
  <2>1. ToSet(handled') \subseteq ToSet(handled) \cup {busy[a]}
    BY <1>4 DEF ToSet
  <2>2. 0 \notin Ids
    BY NumberFacts
  <2>3. QED
    BY <1>2, <1>3, <2>1, <2>2 DEF Delivered
<1>6. LineUp'
  BY <1>2, <1>5 DEF LineUp
<1>7. AggregateOf(busy[a]) = a /\ InLine(a)
  BY <1>1 DEF MailboxOrder, InLine
<1>8. ASSUME NEW b \in Aggregates, b # a PROVE InLine(b)'
  <2>1. Past(b)' = Past(b)
    BY <1>4, <1>7, <1>8 DEF Past
  <2>2. \A k \in Past(b) : handled'[k] = handled[k]
    BY <1>4 DEF Past
  <2>3. InLine(b)
    BY DEF MailboxOrder
  <2>4. QED
    BY <1>2, <1>3, <1>8, <2>1, <2>2, <2>3 DEF InLine, Rising
<1>9. InLine(a)'
  <2>1. Past(a)' = Past(a) \cup {Len(handled) + 1}
    BY <1>4, <1>7 DEF Past
  <2>2. \A k \in Past(a) : k \in 1..Len(handled) /\ handled'[k] = handled[k]
    BY <1>4 DEF Past
  <2>3. busy'[a] = 0 /\ inbox'[a] = inbox[a]
    BY <1>2, <1>3
  <2>4. \A j \in DOMAIN inbox[a] : \A k \in Past(a)' : handled'[k] < inbox[a][j]
    BY <1>1, <1>4, <1>7, <2>1, <2>2 DEF InLine
  <2>5. \A j, k \in Past(a)' : j < k => handled'[j] < handled'[k]
    BY <1>1, <1>4, <1>7, <2>1, <2>2 DEF InLine
  <2>6. QED
    BY <1>7, <2>3, <2>4, <2>5 DEF InLine, Rising
<1>10. QED
  BY <1>6, <1>8, <1>9 DEF MailboxOrder

LEMMA OrderStep == BaseInv /\ OrderInv /\ [Next]_vars => OrderInv'
<1> SUFFICES ASSUME BaseInv, OrderInv, [Next]_vars PROVE OrderInv'
  OBVIOUS
<1> USE DEF OrderInv
<1>1. dpc \in [Callers -> CallerAt]
  BY DEF BaseInv, TypeOK, DispatcherTypeOK
<1>2. CASE Register /\ UNCHANGED bus
  BY <1>2, RegisterBase, OrderKept DEF calls, mailboxes, ends, bus, Alive
<1>3. ASSUME NEW c \in Callers, ReadTable(c) \/ GetMailbox(c) \/ Retry(c), UNCHANGED bus
      PROVE  OrderInv'
  <2>1. UNCHANGED <<kind, hand, queue, published, inbox, busy, handled, overlapped>>
    BY <1>3 DEF ReadTable, GetMailbox, Retry, mailboxes, ends, bus
  <2>2. \A d \in Callers : Alive(d)' => Alive(d)
    BY <1>1, <1>3 DEF ReadTable, GetMailbox, Retry, Alive
  <2>3. QED
    BY <2>1, <2>2, OrderKept
<1>4. ASSUME NEW c \in Callers, Deliver(c), UNCHANGED bus PROVE OrderInv'
  BY <1>4, DeliverOrder DEF Deliver, bus
<1>5. ASSUME NEW c \in Callers, Send(c) PROVE OrderInv'
  BY <1>5 DEF Send, Take
<1>6. ASSUME NEW c \in Callers, Start(c) PROVE OrderInv'
  <2>1. UNCHANGED <<kind, hand, queue, published, inbox, busy, handled>>
    BY <1>6 DEF Start, mailboxes, ends
  <2>2. CASE ~ overlapped'
    <3>1. ~ overlapped /\ \A d \in Callers : ~ Alive(d)
      BY <1>6, <2>2 DEF Start
    <3>2. \A d \in Callers : Alive(d)' => d = c
      BY <1>1, <1>6, <3>1 DEF Start, Alive
    <3>3. LineUp' <=> LineUp
      BY <2>1, DeliveredKept DEF LineUp, Rising, Below
    <3>4. QED
      BY <2>1, <3>1, <3>2, <3>3, DeliveredKept DEF OneLoop
  <2>3. QED
    BY <2>2
<1>7. ASSUME NEW c \in Callers, Fetch(c) PROVE OrderInv'
  BY <1>7, FetchOrder DEF Fetch, Take
<1>8. ASSUME NEW c \in Callers, LoopEnds(c) PROVE OrderInv'
  <2>1. UNCHANGED <<kind, hand, queue, published, inbox, busy, handled, overlapped>>
    BY <1>8 DEF LoopEnds, mailboxes, ends, bus
  <2>2. \A d \in Callers : Alive(d)' => Alive(d)
    BY <1>1, <1>8 DEF LoopEnds, Alive
  <2>3. QED
    BY <2>1, <2>2, OrderKept
<1>9. ASSUME NEW a \in Aggregates, Receive(a), UNCHANGED bus PROVE OrderInv'
  BY <1>9, ReceiveOrder DEF Receive, bus, calls, OneLoop, Alive
<1>10. ASSUME NEW a \in Aggregates, Handle(a), UNCHANGED bus PROVE OrderInv'
  BY <1>10, HandleOrder DEF Handle, bus, calls, OneLoop, Alive
<1>11. ASSUME NEW a \in Aggregates, HandleDies(a) \/ Release(a) \/ DrainEnd(a), UNCHANGED bus
       PROVE  OrderInv'
  <2>1. UNCHANGED <<kind, dpc, hand, queue, published, inbox, busy, handled, overlapped>>
    BY <1>11 DEF HandleDies, Release, DrainEnd, mailboxes, calls, ends, bus
  <2>2. QED
    BY <2>1, OrderKept DEF Alive
<1>15. ASSUME NEW c \in Callers, SendPanics(c), UNCHANGED bus PROVE OrderInv'
  <2>1. UNCHANGED <<kind, queue, published, inbox, busy, handled, overlapped>>
    BY <1>15 DEF SendPanics, mailboxes, bus
  <2>2. \A d \in Callers : Alive(d)' => Alive(d)
    BY <1>1, <1>15 DEF SendPanics, LetGo, Alive
  <2>3. \A d \in Callers : hand'[d] # 0 => hand'[d] = hand[d]
    BY <1>15, NumberFacts DEF SendPanics, LetGo
  <2>4. QED
    BY <2>1, <2>2, <2>3, OrderLess
<1>16. ASSUME NEW a \in Aggregates, ReleaseEnd(a), UNCHANGED bus PROVE OrderInv'
  <2>1. UNCHANGED <<kind, hand, queue, published, busy, handled, overlapped>>
    BY <1>16 DEF ReleaseEnd, bus
  <2>2. \A d \in Callers : Alive(d)' => Alive(d)
    BY <1>16, ReleaseCalls DEF Alive
  <2>3. \A b \in Aggregates : inbox'[b] = inbox[b] \/ inbox'[b] = <<>>
    BY <1>16, NumberFacts DEF ReleaseEnd
  <2>4. QED
    BY <2>1, <2>2, <2>3, OrderLess
<1>12. CASE Publish
  BY <1>12, PublishOrder DEF Publish, dispatcherVars
<1>13. CASE StopBegin \/ StopDrained \/ StopEnd \/ UNCHANGED vars
  <2>1. UNCHANGED <<kind, dpc, hand, queue, published, inbox, busy, handled, overlapped>>
    BY <1>13 DEF StopBegin, StopDrained, StopEnd, vars, bus, dispatcherVars, calls, mailboxes, ends
  <2>2. QED
    BY <2>1, OrderKept DEF Alive
<1>14. QED
  BY <1>2, <1>3, <1>4, <1>5, <1>6, <1>7, <1>8, <1>9, <1>10, <1>11, <1>12, <1>13, <1>15, <1>16
     DEF Next, DispatcherStep, CallerStep, MailboxStep

\* The streams of an aggregate that are handled are handled in the order of publication,
\* through mailboxes that are released (and may lose some) and made anew, and any number
\* of restarts, unless two loops have been alive at once.
THEOREM InOrderWithOneLoopCorrect == Spec => []InOrderWithOneLoop
<1>1. Init => BaseInv /\ OrderInv
  BY BaseInit, OrderInit
<1>2. (BaseInv /\ OrderInv) /\ [Next]_vars => (BaseInv /\ OrderInv)'
  BY BaseStep, OrderStep
<1>3. BaseInv /\ OrderInv => InOrderWithOneLoop
  <2> SUFFICES ASSUME BaseInv, OrderInv, kind = "event", ~ overlapped,
                      NEW j \in DOMAIN handled, NEW k \in DOMAIN handled, j < k,
                      AggregateOf(handled[j]) = AggregateOf(handled[k])
               PROVE  handled[j] < handled[k]
    BY DEF InOrderWithOneLoop
  <2>1. handled[k] \in Ids
    BY NumberFacts
  <2>2. PICK a \in Aggregates : AggregateOf(handled[k]) = a
    BY <2>1, IdsFacts
  <2>3. InLine(a) /\ j \in Past(a) /\ k \in Past(a)
    BY <2>2 DEF OrderInv, MailboxOrder, Past
  <2>4. QED
    BY <2>3 DEF InLine
<1>4. QED
  BY <1>1, <1>2, <1>3, PTL DEF Spec

-----------------------------------------------------------------------------
(* Every message is in one place.                                          *)

\* The messages at each of the first five stations of their way; the sixth is lost.
Queued == ToSet(queue)
Taken == {hand[c] : c \in Callers} \ {0}
Waiting == {i \in Ids : i \in ToSet(inbox[AggregateOf(i)])}
AtWork == {i \in Ids : busy[AggregateOf(i)] = i}
Done == ToSet(handled)

\* What has been published is at exactly one of them.
Apart(Q, T, W, A, D, L, n) ==
  /\ Q \cup T \cup W \cup A \cup D \cup L = 1..n
  /\ Q \cap (T \cup W \cup A \cup D \cup L) = {}
  /\ T \cap (W \cup A \cup D \cup L) = {}
  /\ W \cap (A \cup D \cup L) = {}
  /\ A \cap (D \cup L) = {}
  /\ D \cap L = {}

NoDouble(s) == \A j, k \in DOMAIN s : s[j] = s[k] => j = k

\* Messages come to the mailbox of their aggregate only.
AtHome ==
  \A a \in Aggregates : /\ \A j \in DOMAIN inbox[a] : AggregateOf(inbox[a][j]) = a
                        /\ busy[a] # 0 => AggregateOf(busy[a]) = a

OnceEach ==
  /\ NoDouble(queue) /\ NoDouble(handled)
  /\ \A a \in Aggregates : NoDouble(inbox[a])
  /\ \A c, d \in Callers : hand[c] # 0 /\ hand[c] = hand[d] => c = d

PlaceInv ==
  /\ AtHome
  /\ OnceEach
  /\ Apart(Queued, Taken, Waiting, AtWork, Done, lost, published)

\* A message goes from one station to another, or comes to the first one.
LEMMA Moves ==
  ASSUME NEW Q, NEW T, NEW W, NEW A, NEW D, NEW L, NEW n, Apart(Q, T, W, A, D, L, n), NEW x
  PROVE  /\ x \in Q => Apart(Q \ {x}, T \cup {x}, W, A, D, L, n)
         /\ x \in T => Apart(Q, T \ {x}, W \cup {x}, A, D, L, n)
         /\ x \in T => Apart(Q, T \ {x}, W, A, D, L \cup {x}, n)
         /\ x \in W => Apart(Q, T, W \ {x}, A \cup {x}, D, L, n)
         /\ x \in A => Apart(Q, T, W, A \ {x}, D \cup {x}, L, n)
<1>1. x \in Q => Apart(Q \ {x}, T \cup {x}, W, A, D, L, n)
  BY DEF Apart
<1>2. x \in T => Apart(Q, T \ {x}, W \cup {x}, A, D, L, n)
  BY DEF Apart
<1>3. x \in T => Apart(Q, T \ {x}, W, A, D, L \cup {x}, n)
  BY DEF Apart
<1>4. x \in W => Apart(Q, T, W \ {x}, A \cup {x}, D, L, n)
  BY DEF Apart
<1>5. x \in A => Apart(Q, T, W, A \ {x}, D \cup {x}, L, n)
  BY DEF Apart
<1>6. QED
  BY <1>1, <1>2, <1>3, <1>4, <1>5

\* All that waits in a mailbox is lost together.
LEMMA Stays ==
  ASSUME NEW Q, NEW T, NEW W, NEW A, NEW D, NEW L, NEW n, Apart(Q, T, W, A, D, L, n),
         NEW S \in SUBSET W
  PROVE  Apart(Q, T, W \ S, A, D, L \cup S, n)
  BY DEF Apart

LEMMA Comes ==
  ASSUME NEW Q, NEW T, NEW W, NEW A, NEW D, NEW L, NEW n \in Nat, Apart(Q, T, W, A, D, L, n)
  PROVE  /\ Apart(Q \cup {n + 1}, T, W, A, D, L, n + 1)
         /\ Apart(Q, T \cup {n + 1}, W, A, D, L, n + 1)
         /\ n + 1 \notin Q \cup T \cup W \cup A \cup D \cup L
<1>1. 1..(n + 1) = 1..n \cup {n + 1} /\ n + 1 \notin 1..n
  OBVIOUS
<1>2. n + 1 \notin Q \cup T \cup W \cup A \cup D \cup L
  BY <1>1 DEF Apart
<1>3. Apart(Q \cup {n + 1}, T, W, A, D, L, n + 1)
  BY <1>1, <1>2 DEF Apart
<1>4. Apart(Q, T \cup {n + 1}, W, A, D, L, n + 1)
  BY <1>1, <1>2 DEF Apart
<1>5. QED
  BY <1>2, <1>3, <1>4

LEMMA AppendOnce ==
  ASSUME NEW s \in Seq(Ids), NEW x \in Ids
  PROVE  /\ ToSet(Append(s, x)) = ToSet(s) \cup {x}
         /\ NoDouble(s) /\ x \notin ToSet(s) => NoDouble(Append(s, x))
<1>1. /\ Len(s) \in Nat /\ DOMAIN s = 1..Len(s)
      /\ DOMAIN Append(s, x) = 1..(Len(s) + 1)
      /\ \A i \in DOMAIN s : Append(s, x)[i] = s[i]
      /\ Append(s, x)[Len(s) + 1] = x
      /\ \A i \in DOMAIN Append(s, x) : i \in DOMAIN s \/ i = Len(s) + 1
  BY AppendFacts
<1>2. DOMAIN s \subseteq DOMAIN Append(s, x) /\ Len(s) + 1 \in DOMAIN Append(s, x)
  BY <1>1
<1> DEFINE t == Append(s, x)
<1> HIDE DEF t
<1>3. ToSet(t) = ToSet(s) \cup {x}
  <2>1. ASSUME NEW y \in ToSet(t) PROVE y \in ToSet(s) \cup {x}
    BY <1>1, <2>1 DEF ToSet, t
  <2>2. ASSUME NEW y \in ToSet(s) PROVE y \in ToSet(t)
    <3>1. PICK i \in DOMAIN s : s[i] = y
      BY DEF ToSet
    <3>2. i \in DOMAIN t /\ t[i] = y
      BY <1>1, <1>2, <3>1 DEF t
    <3>3. QED
      BY <3>2 DEF ToSet
  <2>3. x \in ToSet(t)
    BY <1>1, <1>2 DEF ToSet, t
  <2>4. QED
    BY <2>1, <2>2, <2>3
<1>4. NoDouble(s) /\ x \notin ToSet(s) => NoDouble(t)
  BY <1>1 DEF NoDouble, ToSet, t
<1>5. QED
  BY <1>3, <1>4 DEF t

LEMMA TailOnce ==
  ASSUME NEW s \in Seq(Ids), s # <<>>, NoDouble(s)
  PROVE  /\ Head(s) \in ToSet(s) /\ Head(s) \in Ids
         /\ ToSet(Tail(s)) = ToSet(s) \ {Head(s)}
         /\ NoDouble(Tail(s))
<1>1. /\ Head(s) \in Ids /\ Head(s) = s[1] /\ 1 \in DOMAIN s /\ Tail(s) \in Seq(Ids)
      /\ \A i \in DOMAIN Tail(s) : /\ i \in Nat /\ i + 1 \in DOMAIN s /\ 1 < i + 1
                                   /\ Tail(s)[i] = s[i + 1]
  BY TailFacts
<1>2. \A j \in DOMAIN s : j = 1 \/ /\ j - 1 \in DOMAIN Tail(s)
                                   /\ Tail(s)[j - 1] = s[j]
  OBVIOUS
<1> DEFINE t == Tail(s)
<1> HIDE DEF t
<1>3. NoDouble(t)
  <2> SUFFICES ASSUME NEW j \in DOMAIN t, NEW k \in DOMAIN t, t[j] = t[k]
               PROVE  j = k
    BY DEF NoDouble
  <2>1. j + 1 = k + 1 /\ j \in Nat /\ k \in Nat
    BY <1>1 DEF NoDouble, t
  <2>2. QED
    BY <2>1
<1>4. ToSet(t) = ToSet(s) \ {s[1]}
  <2>1. ASSUME NEW y \in ToSet(t) PROVE y \in ToSet(s) /\ y # s[1]
    <3>1. PICK i \in DOMAIN t : t[i] = y
      BY DEF ToSet
    <3>2. i + 1 \in DOMAIN s /\ s[i + 1] = y /\ i + 1 # 1
      BY <1>1, <3>1 DEF t
    <3>3. QED
      BY <1>1, <3>2 DEF ToSet, NoDouble
  <2>2. ASSUME NEW y \in ToSet(s), y # s[1] PROVE y \in ToSet(t)
    <3>1. PICK j \in DOMAIN s : s[j] = y
      BY DEF ToSet
    <3>2. j - 1 \in DOMAIN t /\ t[j - 1] = y
      BY <1>2, <2>2, <3>1 DEF t
    <3>3. QED
      BY <3>2 DEF ToSet
  <2>3. QED
    BY <2>1, <2>2
<1>5. QED
  BY <1>1, <1>3, <1>4 DEF ToSet, t

LEMMA PlaceInit == Init => PlaceInv
<1> SUFFICES ASSUME Init PROVE PlaceInv
  OBVIOUS
<1>1. /\ queue = <<>> /\ handled = <<>> /\ published = 0 /\ lost = {}
      /\ \A a \in Aggregates : inbox[a] = <<>> /\ busy[a] = 0
      /\ \A c \in Callers : hand[c] = 0
  BY DEF Init, DispatcherInit
<1>2. Queued = {} /\ Done = {}
  BY <1>1 DEF Queued, Done, ToSet
<1>3. Taken = {}
  BY <1>1 DEF Taken
<1>4. Waiting = {}
  BY <1>1, IdsFacts DEF Waiting, ToSet
<1>5. AtWork = {}
  BY <1>1, IdsFacts, NumberFacts DEF AtWork
<1>6. Apart(Queued, Taken, Waiting, AtWork, Done, lost, published)
  BY <1>1, <1>2, <1>3, <1>4, <1>5 DEF Apart
<1>7. AtHome /\ OnceEach
  BY <1>1 DEF AtHome, OnceEach, NoDouble
<1>8. QED
  BY <1>6, <1>7 DEF PlaceInv

LEMMA PlaceKept ==
  ASSUME PlaceInv, UNCHANGED <<hand, queue, published, inbox, busy, handled, lost>>
  PROVE  PlaceInv'
<1>1. UNCHANGED <<Queued, Taken, Waiting, AtWork, Done>>
  BY DEF Queued, Taken, Waiting, AtWork, Done
<1>2. AtHome' /\ OnceEach'
  BY DEF PlaceInv, AtHome, OnceEach, NoDouble, AggregateOf
<1>3. QED
  BY <1>1, <1>2 DEF PlaceInv, Apart

LEMMA MailboxPlacesKept ==
  ASSUME UNCHANGED <<inbox, busy>>
  PROVE  /\ Waiting' = Waiting /\ AtWork' = AtWork
         /\ AtHome => AtHome'
  BY DEF AtHome, Waiting, AtWork, ToSet

LEMMA PublishPlaces ==
  ASSUME BaseInv, PlaceInv, Publish
  PROVE  PlaceInv'
<1>1. queue \in Seq(Ids) /\ published \in Nat
  BY NumberFacts
<1>2. /\ UNCHANGED <<hand, inbox, busy, handled, lost>>
      /\ published' = published + 1 /\ queue' = Append(queue, published + 1)
  BY DEF Publish, NextMessage, dispatcherVars, calls, mailboxes, ends
<1>3. published + 1 \in Ids
  BY <1>1, IdsFacts DEF Publish, NextMessage, BaseInv, TypeOK
<1>4. UNCHANGED <<Taken, Waiting, AtWork, Done>> /\ AtHome'
  BY <1>2, MailboxPlacesKept DEF PlaceInv, Taken, Done
<1>5. Apart(Queued, Taken, Waiting, AtWork, Done, lost, published) /\ OnceEach
  BY DEF PlaceInv
<1>6. Queued' = Queued \cup {published + 1}
  BY <1>1, <1>2, <1>3, AppendOnce DEF Queued
<1>7. published + 1 \notin Queued
  BY <1>1, <1>5, Comes
<1>8. NoDouble(queue')
  BY <1>1, <1>2, <1>3, <1>5, <1>7, AppendOnce DEF Queued, OnceEach
<1>9. OnceEach'
  BY <1>2, <1>5, <1>8 DEF OnceEach, NoDouble
<1>10. Apart(Queued', Taken', Waiting', AtWork', Done', lost', published')
  BY <1>1, <1>2, <1>4, <1>5, <1>6, Comes
<1>11. QED
  BY <1>4, <1>9, <1>10 DEF PlaceInv, Apart

\* A caller that takes x has nothing in hand, and nobody else has x.
LEMMA TakeFacts ==
  ASSUME BaseInv, OnceEach, NEW c \in Callers, NEW x \in Ids, x \notin Taken, Take(c, x)
  PROVE  /\ Taken' = Taken \cup {x}
         /\ \A d, e \in Callers : hand'[d] # 0 /\ hand'[d] = hand'[e] => d = e
<1>1. /\ hand[c] = 0 /\ hand' = [hand EXCEPT ![c] = x]
      /\ hand \in [Callers -> Nat] /\ x # 0
  BY NumberFacts DEF Take, BaseInv, Hands, Dispatching
<1>2. hand'[c] = x /\ \A d \in Callers \ {c} : hand'[d] = hand[d]
  BY <1>1
<1>3. Taken' = Taken \cup {x}
  BY <1>1, <1>2 DEF Taken
<1>4. \A d \in Callers : hand[d] # x
  BY <1>1 DEF Taken
<1>5. \A d, e \in Callers : hand'[d] # 0 /\ hand'[d] = hand'[e] => d = e
  BY <1>2, <1>4 DEF OnceEach
<1>6. QED
  BY <1>3, <1>5

LEMMA SendPlaces ==
  ASSUME BaseInv, PlaceInv, NEW c \in Callers, Send(c)
  PROVE  PlaceInv'
<1> DEFINE x == published + 1
<1>1. published \in Nat /\ x \in Ids
  BY NumberFacts, IdsFacts DEF Send, NextMessage, BaseInv, TypeOK
<1>2. /\ UNCHANGED <<queue, inbox, busy, handled, lost>>
      /\ published' = x /\ Take(c, x)
  BY DEF Send, NextMessage, Take, mailboxes, ends
<1>3. UNCHANGED <<Queued, Waiting, AtWork, Done>> /\ AtHome'
  BY <1>2, MailboxPlacesKept DEF PlaceInv, Queued, Done
<1>4. Apart(Queued, Taken, Waiting, AtWork, Done, lost, published) /\ OnceEach
  BY DEF PlaceInv
<1>5. x \notin Taken
  BY <1>1, <1>4, Comes
<1>6. /\ Taken' = Taken \cup {x}
      /\ \A d, e \in Callers : hand'[d] # 0 /\ hand'[d] = hand'[e] => d = e
  BY <1>1, <1>2, <1>4, <1>5, TakeFacts
<1>7. OnceEach'
  BY <1>2, <1>4, <1>6 DEF OnceEach, NoDouble
<1>8. Apart(Queued', Taken', Waiting', AtWork', Done', lost', published')
  BY <1>1, <1>2, <1>3, <1>4, <1>6, Comes
<1>9. QED
  BY <1>3, <1>7, <1>8 DEF PlaceInv, Apart

LEMMA FetchPlaces ==
  ASSUME BaseInv, PlaceInv, NEW c \in Callers, Fetch(c)
  PROVE  PlaceInv'
<1> DEFINE x == Head(queue)
<1>1. queue \in Seq(Ids) /\ queue # <<>>
  BY NumberFacts DEF Fetch
<1>2. /\ UNCHANGED <<inbox, busy, handled, lost, published>>
      /\ queue' = Tail(queue) /\ Take(c, x)
  BY DEF Fetch, Take, mailboxes, ends
<1>3. UNCHANGED <<Waiting, AtWork, Done>> /\ AtHome'
  BY <1>2, MailboxPlacesKept DEF PlaceInv, Done
<1>4. Apart(Queued, Taken, Waiting, AtWork, Done, lost, published) /\ OnceEach
  BY DEF PlaceInv
<1>5. x \in Queued /\ x \in Ids /\ Queued' = Queued \ {x} /\ NoDouble(queue')
  BY <1>1, <1>2, <1>4, TailOnce DEF OnceEach, Queued
<1>6. x \notin Taken
  BY <1>4, <1>5 DEF Apart
<1>7. /\ Taken' = Taken \cup {x}
      /\ \A d, e \in Callers : hand'[d] # 0 /\ hand'[d] = hand'[e] => d = e
  BY <1>2, <1>4, <1>5, <1>6, TakeFacts
<1>8. OnceEach'
  BY <1>2, <1>4, <1>5, <1>7 DEF OnceEach, NoDouble
<1>9. Apart(Queued', Taken', Waiting', AtWork', Done', lost', published')
  BY <1>2, <1>3, <1>4, <1>5, <1>7, Moves
<1>10. QED
  BY <1>3, <1>8, <1>9 DEF PlaceInv, Apart

LEMMA DeliverPlaces ==
  ASSUME BaseInv, PlaceInv, NEW c \in Callers, Deliver(c), UNCHANGED <<queue, published>>
  PROVE  PlaceInv'
<1> DEFINE x == hand[c]
           b == AggregateOf(x)
<1>1. /\ x \in Ids /\ x # 0 /\ b \in Aggregates
      /\ hand \in [Callers -> Nat] /\ inbox \in [Aggregates -> Seq(Ids)]
  BY NumberFacts, IdsFacts DEF Deliver, BaseInv, Hands, Dispatching, TypeOK, DispatcherTypeOK
<1>2. /\ UNCHANGED <<busy, handled, lost>>
      /\ hand' = [hand EXCEPT ![c] = 0]
      /\ inbox' = [inbox EXCEPT ![b] = Append(inbox[b], x)]
  BY DEF Deliver, LetGo, ends
<1>3. Apart(Queued, Taken, Waiting, AtWork, Done, lost, published) /\ OnceEach /\ AtHome
  BY DEF PlaceInv
<1>4. UNCHANGED <<Queued, AtWork, Done, lost>>
  BY <1>2 DEF Queued, AtWork, Done
<1>5. x \in Taken /\ x \notin Waiting
  BY <1>1, <1>3 DEF Taken, Apart
<1>6. Taken' = Taken \ {x}
  <2>1. hand'[c] = 0 /\ \A d \in Callers \ {c} : hand'[d] = hand[d]
    BY <1>1, <1>2
  <2>2. \A d \in Callers \ {c} : hand[d] # x
    BY <1>1, <1>3 DEF OnceEach
  <2>3. QED
    BY <2>1, <2>2 DEF Taken
<1>7. x \notin ToSet(inbox[b])
  BY <1>1, <1>5 DEF Waiting
<1> HIDE DEF x, b
<1>8. /\ inbox'[b] = Append(inbox[b], x) /\ \A a \in Aggregates \ {b} : inbox'[a] = inbox[a]
      /\ inbox[b] \in Seq(Ids) /\ b = AggregateOf(x)
  BY <1>1, <1>2 DEF b
<1>9. ToSet(inbox'[b]) = ToSet(inbox[b]) \cup {x} /\ NoDouble(inbox'[b])
  BY <1>1, <1>3, <1>7, <1>8, AppendOnce DEF OnceEach
<1>10. Waiting' = Waiting \cup {x}
  <2>1. ASSUME NEW i \in Ids
        PROVE  i \in ToSet(inbox'[AggregateOf(i)]) <=> i \in ToSet(inbox[AggregateOf(i)]) \/ i = x
    <3>1. AggregateOf(i) \in Aggregates
      BY IdsFacts
    <3>2. CASE AggregateOf(i) = b
      BY <1>9, <3>2
    <3>3. CASE AggregateOf(i) # b
      BY <1>8, <3>1, <3>3
    <3>4. QED
      BY <3>2, <3>3
  <2>2. Waiting' = {i \in Ids : i \in ToSet(inbox'[AggregateOf(i)])}
    BY DEF Waiting
  <2>3. QED
    BY <1>1, <2>1, <2>2 DEF Waiting
<1>11. Apart(Queued', Taken', Waiting', AtWork', Done', lost', published')
  BY <1>3, <1>4, <1>5, <1>6, <1>10, Moves
<1>12. OnceEach'
  <2>1. \A a \in Aggregates : NoDouble(inbox'[a])
    BY <1>3, <1>8, <1>9 DEF OnceEach
  <2>2. \A d, e \in Callers : hand'[d] # 0 /\ hand'[d] = hand'[e] => d = e
    BY <1>1, <1>2, <1>3 DEF OnceEach
  <2>3. QED
    BY <1>2, <1>3, <2>1, <2>2 DEF OnceEach, NoDouble
<1>13. AtHome'
  <2>1. ASSUME NEW a \in Aggregates, NEW j \in DOMAIN inbox'[a]
        PROVE  AggregateOf(inbox'[a][j]) = a
    <3>1. CASE a = b
      <4>1. inbox'[a][j] \in ToSet(inbox[b]) \cup {x}
        BY <1>9, <3>1 DEF ToSet
      <4>2. QED
        BY <1>1, <1>3, <1>8, <3>1, <4>1 DEF AtHome, ToSet
    <3>2. CASE a # b
      BY <1>3, <1>8, <3>2 DEF AtHome
    <3>3. QED
      BY <3>1, <3>2
  <2>2. QED
    BY <1>2, <1>3, <2>1 DEF AtHome, AggregateOf
<1>14. QED
  BY <1>11, <1>12, <1>13 DEF PlaceInv, Apart

LEMMA ReceivePlaces ==
  ASSUME BaseInv, PlaceInv, NEW b \in Aggregates, Receive(b),
         UNCHANGED <<hand, queue, published, handled, lost>>
  PROVE  PlaceInv'
<1> DEFINE x == Head(inbox[b])
<1>1. /\ inbox \in [Aggregates -> Seq(Ids)] /\ busy \in [Aggregates -> Nat]
      /\ inbox[b] # <<>> /\ busy[b] = 0
      /\ busy' = [busy EXCEPT ![b] = x]
      /\ inbox' = [inbox EXCEPT ![b] = Tail(inbox[b])]
  BY NumberFacts DEF Receive
<1>2. Apart(Queued, Taken, Waiting, AtWork, Done, lost, published) /\ OnceEach /\ AtHome
  BY DEF PlaceInv
<1>3. UNCHANGED <<Queued, Taken, Done>>
  BY DEF Queued, Taken, Done
<1>4. /\ x \in ToSet(inbox[b]) /\ x \in Ids
      /\ ToSet(Tail(inbox[b])) = ToSet(inbox[b]) \ {x}
      /\ NoDouble(Tail(inbox[b]))
  BY <1>1, <1>2, TailOnce DEF OnceEach
<1>5. AggregateOf(x) = b
  BY <1>2, <1>4 DEF AtHome, ToSet
<1> HIDE DEF x
<1>6. /\ inbox'[b] = Tail(inbox[b]) /\ \A a \in Aggregates \ {b} : inbox'[a] = inbox[a]
      /\ busy'[b] = x /\ \A a \in Aggregates \ {b} : busy'[a] = busy[a]
  BY <1>1
<1>7. Waiting' = Waiting \ {x} /\ x \in Waiting
  <2>1. ASSUME NEW i \in Ids
        PROVE  i \in ToSet(inbox'[AggregateOf(i)]) <=> i \in ToSet(inbox[AggregateOf(i)]) /\ i # x
    <3>1. AggregateOf(i) \in Aggregates
      BY IdsFacts
    <3>2. CASE AggregateOf(i) = b
      BY <1>4, <1>6, <3>2
    <3>3. CASE AggregateOf(i) # b
      BY <1>5, <1>6, <3>1, <3>3
    <3>4. QED
      BY <3>2, <3>3
  <2>2. Waiting' = {i \in Ids : i \in ToSet(inbox'[AggregateOf(i)])}
    BY DEF Waiting
  <2>3. QED
    BY <1>4, <1>5, <2>1, <2>2 DEF Waiting
<1>8. AtWork' = AtWork \cup {x}
  <2>1. ASSUME NEW i \in Ids
        PROVE  busy'[AggregateOf(i)] = i <=> busy[AggregateOf(i)] = i \/ i = x
    <3>1. AggregateOf(i) \in Aggregates /\ i # 0
      BY IdsFacts, NumberFacts
    <3>2. CASE AggregateOf(i) = b
      BY <1>1, <1>6, <3>1, <3>2
    <3>3. CASE AggregateOf(i) # b
      BY <1>5, <1>6, <3>1, <3>3
    <3>4. QED
      BY <3>2, <3>3
  <2>2. AtWork' = {i \in Ids : busy'[AggregateOf(i)] = i}
    BY DEF AtWork
  <2>3. QED
    BY <1>4, <2>1, <2>2 DEF AtWork
<1>9. Apart(Queued', Taken', Waiting', AtWork', Done', lost', published')
  BY <1>2, <1>3, <1>7, <1>8, Moves
<1>10. OnceEach'
  <2>1. \A a \in Aggregates : NoDouble(inbox'[a])
    BY <1>2, <1>4, <1>6 DEF OnceEach
  <2>2. QED
    BY <1>2, <2>1 DEF OnceEach, NoDouble
<1>11. AtHome'
  <2>1. ASSUME NEW a \in Aggregates
        PROVE  /\ \A j \in DOMAIN inbox'[a] : AggregateOf(inbox'[a][j]) = a
               /\ busy'[a] # 0 => AggregateOf(busy'[a]) = a
    <3>1. CASE a = b
      <4>1. ASSUME NEW j \in DOMAIN inbox'[a] PROVE AggregateOf(inbox'[a][j]) = a
        <5>1. inbox'[a][j] \in ToSet(inbox[b])
          BY <1>4, <1>6, <3>1 DEF ToSet
        <5>2. QED
          BY <1>2, <3>1, <5>1 DEF AtHome, ToSet
      <4>2. QED
        BY <1>5, <1>6, <3>1, <4>1
    <3>2. CASE a # b
      BY <1>2, <1>6, <3>2 DEF AtHome
    <3>3. QED
      BY <3>1, <3>2
  <2>2. QED
    BY <2>1 DEF AtHome, AggregateOf
<1>12. QED
  BY <1>9, <1>10, <1>11 DEF PlaceInv, Apart

LEMMA HandlePlaces ==
  ASSUME BaseInv, PlaceInv, NEW b \in Aggregates, Handle(b),
         UNCHANGED <<hand, queue, published, inbox, lost>>
  PROVE  PlaceInv'
<1> DEFINE x == busy[b]
<1>1. /\ busy \in [Aggregates -> Nat] /\ x # 0 /\ x \in Ids
      /\ handled \in Seq(Ids)
      /\ busy' = [busy EXCEPT ![b] = 0] /\ handled' = Append(handled, x)
  BY NumberFacts DEF Handle
<1>2. Apart(Queued, Taken, Waiting, AtWork, Done, lost, published) /\ OnceEach /\ AtHome
  BY DEF PlaceInv
<1>3. UNCHANGED <<Queued, Taken, Waiting>>
  BY DEF Queued, Taken, Waiting
<1>4. AggregateOf(x) = b /\ x \in AtWork
  BY <1>1, <1>2 DEF AtHome, AtWork
<1>5. x \notin Done
  BY <1>2, <1>4 DEF Apart
<1> HIDE DEF x
<1>6. x = busy[b] /\ busy'[b] = 0 /\ \A a \in Aggregates \ {b} : busy'[a] = busy[a]
  BY <1>1 DEF x
<1>7. AtWork' = AtWork \ {x}
  <2>1. ASSUME NEW i \in Ids
        PROVE  busy'[AggregateOf(i)] = i <=> busy[AggregateOf(i)] = i /\ i # x
    <3>1. AggregateOf(i) \in Aggregates /\ i # 0
      BY IdsFacts, NumberFacts
    <3>2. CASE AggregateOf(i) = b
      BY <1>6, <3>1, <3>2
    <3>3. CASE AggregateOf(i) # b
      BY <1>4, <1>6, <3>1, <3>3
    <3>4. QED
      BY <3>2, <3>3
  <2>2. AtWork' = {i \in Ids : busy'[AggregateOf(i)] = i}
    BY DEF AtWork
  <2>3. QED
    BY <2>1, <2>2 DEF AtWork
<1>8. Done' = Done \cup {x} /\ NoDouble(handled')
  BY <1>1, <1>2, <1>5, AppendOnce DEF Done, OnceEach
<1>9. Apart(Queued', Taken', Waiting', AtWork', Done', lost', published')
  BY <1>2, <1>3, <1>4, <1>7, <1>8, Moves
<1>10. OnceEach' /\ AtHome'
  BY <1>2, <1>6, <1>8 DEF OnceEach, AtHome, NoDouble, AggregateOf
<1>11. QED
  BY <1>9, <1>10 DEF PlaceInv, Apart

LEMMA SendPanicsPlaces ==
  ASSUME BaseInv, PlaceInv, NEW c \in Callers, SendPanics(c), UNCHANGED <<queue, published>>
  PROVE  PlaceInv'
<1> DEFINE x == hand[c]
<1>1. x \in Ids /\ x # 0 /\ hand \in [Callers -> Nat]
  BY NumberFacts DEF SendPanics, BaseInv, Hands, Dispatching, TypeOK, DispatcherTypeOK
<1>2. /\ UNCHANGED <<inbox, busy, handled>>
      /\ hand' = [hand EXCEPT ![c] = 0] /\ lost' = lost \cup {x}
  BY DEF SendPanics, LetGo, mailboxes
<1>3. Apart(Queued, Taken, Waiting, AtWork, Done, lost, published) /\ OnceEach
  BY DEF PlaceInv
<1>4. UNCHANGED <<Queued, Waiting, AtWork, Done>> /\ AtHome'
  BY <1>2, MailboxPlacesKept DEF PlaceInv, Queued, Done
<1>5. x \in Taken
  BY <1>1 DEF Taken
<1>6. hand'[c] = 0 /\ \A d \in Callers \ {c} : hand'[d] = hand[d] /\ hand[d] # x
  BY <1>1, <1>2, <1>3 DEF OnceEach
<1> HIDE DEF x
<1>7. Taken' = Taken \ {x}
  BY <1>6 DEF Taken, x
<1>8. Apart(Queued', Taken', Waiting', AtWork', Done', lost', published')
  BY <1>2, <1>3, <1>4, <1>5, <1>7, Moves
<1>9. OnceEach'
  BY <1>2, <1>3, <1>6 DEF OnceEach, NoDouble
<1>10. QED
  BY <1>4, <1>8, <1>9 DEF PlaceInv, Apart

LEMMA ReleaseEndPlaces ==
  ASSUME BaseInv, PlaceInv, NEW b \in Aggregates, ReleaseEnd(b), UNCHANGED <<queue, published>>
  PROVE  PlaceInv'
<1> DEFINE S == ToSet(inbox[b])
<1>1. /\ inbox \in [Aggregates -> Seq(Ids)]
      /\ inbox' = [inbox EXCEPT ![b] = <<>>] /\ lost' = lost \cup S
      /\ UNCHANGED <<hand, busy, handled>>
  BY NumberFacts DEF ReleaseEnd
<1>2. Apart(Queued, Taken, Waiting, AtWork, Done, lost, published) /\ OnceEach /\ AtHome
  BY DEF PlaceInv
<1>3. UNCHANGED <<Queued, Taken, AtWork, Done>>
  BY <1>1 DEF Queued, Taken, AtWork, Done
<1>4. inbox'[b] = <<>> /\ \A a \in Aggregates \ {b} : inbox'[a] = inbox[a]
  BY <1>1
<1>5. \A i \in S : i \in Ids /\ AggregateOf(i) = b
  <2>1. inbox[b] \in Seq(Ids) /\ \A j \in DOMAIN inbox[b] : AggregateOf(inbox[b][j]) = b
    BY <1>1, <1>2 DEF AtHome
  <2>2. QED
    BY <2>1 DEF ToSet
<1>6. S \in SUBSET Waiting
  BY <1>5 DEF Waiting
<1>7. Waiting' = Waiting \ S
  <2>1. ASSUME NEW i \in Ids
        PROVE  i \in ToSet(inbox'[AggregateOf(i)]) <=> i \in ToSet(inbox[AggregateOf(i)]) /\ i \notin S
    <3>1. AggregateOf(i) \in Aggregates
      BY IdsFacts
    <3>2. CASE AggregateOf(i) = b
      BY <1>4, <3>2 DEF ToSet
    <3>3. CASE AggregateOf(i) # b
      BY <1>4, <1>5, <3>1, <3>3
    <3>4. QED
      BY <3>2, <3>3
  <2>2. Waiting' = {i \in Ids : i \in ToSet(inbox'[AggregateOf(i)])}
    BY DEF Waiting
  <2>3. QED
    BY <2>1, <2>2 DEF Waiting
<1> HIDE DEF S
<1>8. Apart(Queued', Taken', Waiting', AtWork', Done', lost', published')
  BY <1>1, <1>2, <1>3, <1>6, <1>7, Stays
<1>9. OnceEach'
  BY <1>1, <1>2, <1>4 DEF OnceEach, NoDouble
<1>10. AtHome'
  BY <1>1, <1>2, <1>4 DEF AtHome, AggregateOf
<1>11. QED
  BY <1>8, <1>9, <1>10 DEF PlaceInv, Apart

LEMMA PlaceStep == BaseInv /\ PlaceInv /\ [Next]_vars => PlaceInv'
<1> SUFFICES ASSUME BaseInv, PlaceInv, [Next]_vars PROVE PlaceInv'
  OBVIOUS
<1>1. CASE Register /\ UNCHANGED bus
  BY <1>1, RegisterBase, PlaceKept DEF calls, mailboxes, ends, bus
<1>2. ASSUME NEW c \in Callers, ReadTable(c) \/ GetMailbox(c) \/ Retry(c), UNCHANGED bus
      PROVE  PlaceInv'
  BY <1>2, PlaceKept DEF ReadTable, GetMailbox, Retry, mailboxes, ends, bus
<1>3. ASSUME NEW c \in Callers, LoopEnds(c) PROVE PlaceInv'
  BY <1>3, PlaceKept DEF LoopEnds, mailboxes, ends, bus
<1>4. ASSUME NEW c \in Callers, Start(c) PROVE PlaceInv'
  BY <1>4, PlaceKept DEF Start, mailboxes, ends
<1>5. ASSUME NEW c \in Callers, Deliver(c), UNCHANGED bus PROVE PlaceInv'
  BY <1>5, DeliverPlaces DEF bus
<1>6. ASSUME NEW c \in Callers, Send(c) PROVE PlaceInv'
  BY <1>6, SendPlaces
<1>7. ASSUME NEW c \in Callers, Fetch(c) PROVE PlaceInv'
  BY <1>7, FetchPlaces
<1>8. ASSUME NEW a \in Aggregates, Receive(a), UNCHANGED bus PROVE PlaceInv'
  BY <1>8, ReceivePlaces DEF Receive, bus, calls, ends
<1>9. ASSUME NEW a \in Aggregates, Handle(a), UNCHANGED bus PROVE PlaceInv'
  BY <1>9, HandlePlaces DEF Handle, bus, calls
<1>10. ASSUME NEW a \in Aggregates, HandleDies(a) \/ Release(a) \/ DrainEnd(a), UNCHANGED bus
       PROVE  PlaceInv'
  <2>1. UNCHANGED <<hand, queue, published, inbox, busy, handled, lost>>
    BY <1>10 DEF HandleDies, Release, DrainEnd, mailboxes, calls, ends, bus
  <2>2. QED
    BY <2>1, PlaceKept
<1>14. ASSUME NEW c \in Callers, SendPanics(c), UNCHANGED bus PROVE PlaceInv'
  BY <1>14, SendPanicsPlaces DEF bus
<1>15. ASSUME NEW a \in Aggregates, ReleaseEnd(a), UNCHANGED bus PROVE PlaceInv'
  BY <1>15, ReleaseEndPlaces DEF bus
<1>11. CASE Publish
  BY <1>11, PublishPlaces
<1>12. CASE StopBegin \/ StopDrained \/ StopEnd \/ UNCHANGED vars
  <2>1. UNCHANGED <<hand, queue, published, inbox, busy, handled, lost>>
    BY <1>12 DEF StopBegin, StopDrained, StopEnd, vars, bus, dispatcherVars, calls, mailboxes, ends
  <2>2. QED
    BY <2>1, PlaceKept
<1>13. QED
  BY <1>1, <1>2, <1>3, <1>4, <1>5, <1>6, <1>7, <1>8, <1>9, <1>10, <1>11, <1>12, <1>14, <1>15
     DEF Next, DispatcherStep, CallerStep, MailboxStep

LEMMA PlacesFacts ==
  ASSUME NEW i, NEW p
  PROVE  p \in Places(i) <=>
           \/ \E j \in DOMAIN queue : queue[j] = i /\ p = <<"queue", j>>
           \/ \E c \in Callers : hand[c] = i /\ p = <<"hand", c>>
           \/ \E a \in Aggregates : \E j \in DOMAIN inbox[a] : inbox[a][j] = i /\ p = <<"inbox", a, j>>
           \/ \E a \in Aggregates : busy[a] = i /\ p = <<"busy", a>>
           \/ \E j \in DOMAIN handled : handled[j] = i /\ p = <<"handled", j>>
           \/ i \in lost /\ p = <<"lost">>
<1> DEFINE Q == {<<"queue", j>> : j \in {k \in DOMAIN queue : queue[k] = i}}
           H == {<<"hand", c>> : c \in {d \in Callers : hand[d] = i}}
           W(a) == {<<"inbox", a, j>> : j \in {k \in DOMAIN inbox[a] : inbox[a][k] = i}}
           B == {<<"busy", a>> : a \in {b \in Aggregates : busy[b] = i}}
           D == {<<"handled", j>> : j \in {k \in DOMAIN handled : handled[k] = i}}
           L == IF i \in lost THEN {<<"lost">>} ELSE {}
<1>1. p \in Places(i) <=>
        p \in Q \/ p \in H \/ (\E a \in Aggregates : p \in W(a)) \/ p \in B \/ p \in D \/ p \in L
  <2>1. Places(i) = Q \cup H \cup (UNION {W(a) : a \in Aggregates}) \cup B \cup D \cup L
    BY DEF Places
  <2> HIDE DEF Q, H, W, B, D, L
  <2>2. p \in UNION {W(a) : a \in Aggregates} <=> \E a \in Aggregates : p \in W(a)
    OBVIOUS
  <2>3. QED
    BY <2>1, <2>2
<1>2. p \in Q <=> \E j \in DOMAIN queue : queue[j] = i /\ p = <<"queue", j>>
  OBVIOUS
<1>3. p \in H <=> \E c \in Callers : hand[c] = i /\ p = <<"hand", c>>
  OBVIOUS
<1>4. \A a \in Aggregates : p \in W(a) <=>
        \E j \in DOMAIN inbox[a] : inbox[a][j] = i /\ p = <<"inbox", a, j>>
  OBVIOUS
<1>5. p \in B <=> \E a \in Aggregates : busy[a] = i /\ p = <<"busy", a>>
  OBVIOUS
<1>6. p \in D <=> \E j \in DOMAIN handled : handled[j] = i /\ p = <<"handled", j>>
  OBVIOUS
<1>7. p \in L <=> i \in lost /\ p = <<"lost">>
  OBVIOUS
<1> HIDE DEF Q, H, W, B, D, L
<1>8. QED
  BY <1>1, <1>2, <1>3, <1>4, <1>5, <1>6, <1>7

\* A station where i is names one place, the others none.
LEMMA InOnePlace ==
  ASSUME BaseInv, PlaceInv
  PROVE  OnePlace
<1> SUFFICES ASSUME NEW i \in 1..published PROVE Cardinality(Places(i)) = 1
  BY DEF OnePlace
<1> DEFINE home == AggregateOf(i)
<1>1. i \in Ids /\ i # 0 /\ home \in Aggregates
  <2>1. published \in 0..Len(Messages)
    BY DEF BaseInv, TypeOK
  <2>2. QED
    BY <2>1, IdsFacts
<1>2. /\ (\E j \in DOMAIN queue : queue[j] = i) <=> i \in Queued
      /\ (\E c \in Callers : hand[c] = i) <=> i \in Taken
      /\ (\E j \in DOMAIN handled : handled[j] = i) <=> i \in Done
  BY <1>1 DEF Queued, Taken, Done, ToSet
<1>3. \A a \in Aggregates :
        /\ (\E j \in DOMAIN inbox[a] : inbox[a][j] = i) <=> i \in Waiting /\ a = home
        /\ busy[a] = i <=> i \in AtWork /\ a = home
  <2> SUFFICES ASSUME NEW a \in Aggregates
               PROVE  /\ (\E j \in DOMAIN inbox[a] : inbox[a][j] = i) <=> i \in Waiting /\ a = home
                      /\ busy[a] = i <=> i \in AtWork /\ a = home
    OBVIOUS
  <2>1. /\ \A j \in DOMAIN inbox[a] : AggregateOf(inbox[a][j]) = a
        /\ busy[a] # 0 => AggregateOf(busy[a]) = a
    BY DEF PlaceInv, AtHome
  <2>2. i \in Waiting <=> \E j \in DOMAIN inbox[home] : inbox[home][j] = i
    BY <1>1 DEF Waiting, ToSet
  <2>3. i \in AtWork <=> busy[home] = i
    BY <1>1 DEF AtWork
  <2>4. QED
    BY <1>1, <2>1, <2>2, <2>3
<1> HIDE DEF home
<1>4. /\ i \in Queued \/ i \in Taken \/ i \in Waiting \/ i \in AtWork \/ i \in Done \/ i \in lost
      /\ ~ (i \in Queued /\ (\/ i \in Taken \/ i \in Waiting \/ i \in AtWork
                             \/ i \in Done \/ i \in lost))
      /\ ~ (i \in Taken /\ (i \in Waiting \/ i \in AtWork \/ i \in Done \/ i \in lost))
      /\ ~ (i \in Waiting /\ (i \in AtWork \/ i \in Done \/ i \in lost))
      /\ ~ (i \in AtWork /\ (i \in Done \/ i \in lost))
      /\ ~ (i \in Done /\ i \in lost)
  BY DEF PlaceInv, Apart
<1>5. /\ \A j, k \in DOMAIN queue : queue[j] = i /\ queue[k] = i => j = k
      /\ \A c, d \in Callers : hand[c] = i /\ hand[d] = i => c = d
      /\ \A j, k \in DOMAIN inbox[home] : inbox[home][j] = i /\ inbox[home][k] = i => j = k
      /\ \A j, k \in DOMAIN handled : handled[j] = i /\ handled[k] = i => j = k
  BY <1>1 DEF PlaceInv, OnceEach, NoDouble
<1>6. Cardinality(Places(i)) = 1
  <2>1. CASE i \in Queued
    <3>1. PICK j \in DOMAIN queue : queue[j] = i
      BY <1>2, <2>1
    <3>2. \A p : p \in Places(i) <=> p = <<"queue", j>>
      BY <1>2, <1>3, <1>4, <1>5, <2>1, <3>1, PlacesFacts
    <3>3. Places(i) = {<<"queue", j>>}
      BY <3>2
    <3>4. QED
      BY <3>3, FS_Singleton
  <2>2. CASE i \in Taken
    <3>1. PICK c \in Callers : hand[c] = i
      BY <1>2, <2>2
    <3>2. \A p : p \in Places(i) <=> p = <<"hand", c>>
      BY <1>2, <1>3, <1>4, <1>5, <2>2, <3>1, PlacesFacts
    <3>3. Places(i) = {<<"hand", c>>}
      BY <3>2
    <3>4. QED
      BY <3>3, FS_Singleton
  <2>3. CASE i \in Waiting
    <3>1. PICK j \in DOMAIN inbox[home] : inbox[home][j] = i
      BY <1>1, <1>3, <2>3
    <3>2. \A p : p \in Places(i) <=> p = <<"inbox", home, j>>
      BY <1>1, <1>2, <1>3, <1>4, <1>5, <2>3, <3>1, PlacesFacts
    <3>3. Places(i) = {<<"inbox", home, j>>}
      BY <3>2
    <3>4. QED
      BY <3>3, FS_Singleton
  <2>4. CASE i \in AtWork
    <3>1. \A p : p \in Places(i) <=> p = <<"busy", home>>
      BY <1>1, <1>2, <1>3, <1>4, <2>4, PlacesFacts
    <3>2. Places(i) = {<<"busy", home>>}
      BY <3>1
    <3>3. QED
      BY <3>2, FS_Singleton
  <2>5. CASE i \in Done
    <3>1. PICK j \in DOMAIN handled : handled[j] = i
      BY <1>2, <2>5
    <3>2. \A p : p \in Places(i) <=> p = <<"handled", j>>
      BY <1>2, <1>3, <1>4, <1>5, <2>5, <3>1, PlacesFacts
    <3>3. Places(i) = {<<"handled", j>>}
      BY <3>2
    <3>4. QED
      BY <3>3, FS_Singleton
  <2>6. CASE i \in lost
    <3>1. \A p : p \in Places(i) <=> p = <<"lost">>
      BY <1>2, <1>3, <1>4, <2>6, PlacesFacts
    <3>2. Places(i) = {<<"lost">>}
      BY <3>1
    <3>3. QED
      BY <3>2, FS_Singleton
  <2>7. QED
    BY <1>4, <2>1, <2>2, <2>3, <2>4, <2>5, <2>6
<1>7. QED
  BY <1>6

\* A published stream or sent command is in one place, whatever Stop, Start, a second loop
\* and the mailboxes that come and go do: none is doubled, and none vanishes but at the
\* release of its mailbox, which may leave it in the closed channel or refuse it with a
\* panic.
THEOREM OnePlaceCorrect == Spec => []OnePlace
<1>1. Init => BaseInv /\ PlaceInv
  BY BaseInit, PlaceInit
<1>2. (BaseInv /\ PlaceInv) /\ [Next]_vars => (BaseInv /\ PlaceInv)'
  BY BaseStep, PlaceStep
<1>3. BaseInv /\ PlaceInv => OnePlace
  BY InOnePlace
<1>4. QED
  BY <1>1, <1>2, <1>3, PTL DEF Spec
=============================================================================
