----------------------- MODULE SnapshotStoreSaverProofs -----------------------
(***************************************************************************)
(* Theorems about SnapshotStoreSaver, for any aggregates, versions, shards *)
(* and batch sizes, any number of starts and a store that fails anywhere.  *)
(***************************************************************************)
EXTENDS SnapshotStoreSaver, FiniteSetTheorems, TLAPS

LEMMA AppendFacts ==
  ASSUME NEW S, NEW s \in Seq(S), NEW x \in S
  PROVE  /\ Append(s, x) \in Seq(S)
         /\ Len(s) \in Nat /\ Len(Append(s, x)) = Len(s) + 1
         /\ \A i \in DOMAIN s : i \in Nat /\ i <= Len(s) /\ Append(s, x)[i] = s[i]
         /\ Append(s, x)[Len(s) + 1] = x
         /\ \A i \in DOMAIN Append(s, x) : i \in DOMAIN s \/ i = Len(s) + 1
  OBVIOUS

LEMMA TailFacts ==
  ASSUME NEW S, NEW s \in Seq(S), s # <<>>
  PROVE  /\ Head(s) \in S /\ Head(s) = s[1] /\ 1 \in DOMAIN s
         /\ Tail(s) \in Seq(S) /\ Len(Tail(s)) <= Len(s) /\ Len(s) \in Nat /\ Len(Tail(s)) \in Nat
         /\ \A i \in DOMAIN Tail(s) : /\ i \in Nat /\ i + 1 \in DOMAIN s /\ 1 < i + 1
                                      /\ Tail(s)[i] = s[i + 1]
  OBVIOUS

-----------------------------------------------------------------------------
USE SaverLoopAssumption, SnapshotStoreSaverAssumption
    DEF SaverLoopAssumption, SnapshotStoreSaverAssumption

LEMMA ItemFacts ==
  /\ \A x \in Items : /\ x = <<x[1], x[2]>> /\ x[1] \in Aggregates
                      /\ x[2] \in Nat /\ x[2] \in 1..MaxVersion[x[1]]
  /\ \A a \in Aggregates : \A v \in 1..MaxVersion[a] : <<a, v>> \in Items
  BY DEF Items

LEMMA TypeInit == Init => TypeOK
<1> SUFFICES ASSUME Init PROVE TypeOK
  OBVIOUS
<1>1. /\ queue \in Seq(Items) /\ Len(queue) <= Capacity /\ starts \in 0..MaxStarts
      /\ shards \in [Shards -> SUBSET Items] /\ saving \in [Shards -> SUBSET Items]
      /\ jpc \in [Shards -> {"append"} \cup {"none"}] /\ timed \subseteq Shards
  BY DEF Init, LoopInit, Capacity
<1>2. /\ counts \in [Aggregates -> Nat] /\ saved \in [Aggregates -> Nat]
      /\ given \in [Aggregates -> Nat] /\ taken \in [Aggregates -> Nat]
      /\ heard \in [Aggregates -> SUBSET Nat]
      /\ wpc \in [Aggregates -> {"idle", "send", "stuck"}]
  BY DEF Init
<1>3. failed \in BOOLEAN
  BY DEF Init
<1>4. QED
  BY <1>1, <1>2, <1>3 DEF Init, LoopInit, TypeOK, LoopTypeOK

\* What the loop does with the items of a batch keeps the types.
LEMMA BeginType ==
  ASSUME NEW S \in SUBSET Shards, NEW collected \in [Shards -> SUBSET Items],
         saving \in [Shards -> SUBSET Items], jpc \in [Shards -> {"append", "none"}],
         Begin(S, collected)
  PROVE  /\ saving' \in [Shards -> SUBSET Items] /\ shards' \in [Shards -> SUBSET Items]
         /\ jpc' \in [Shards -> {"append", "none"}]
  BY DEF Begin

\* The variables that a step of the callers, the loop or a batch leaves alone.
LoopPartOK == LoopTypeOK(Items, {"append"})

OwnPartOK ==
  /\ counts \in [Aggregates -> Nat]
  /\ saved \in [Aggregates -> Nat]
  /\ wpc \in [Aggregates -> {"idle", "send", "stuck"}]
  /\ given \in [Aggregates -> Nat]
  /\ heard \in [Aggregates -> SUBSET Nat]
  /\ taken \in [Aggregates -> Nat]
  /\ failed \in BOOLEAN

LEMMA TypeParts == /\ TypeOK <=> LoopPartOK /\ OwnPartOK
                   /\ TypeOK' <=> LoopPartOK' /\ OwnPartOK'
  BY DEF TypeOK, LoopPartOK, OwnPartOK

LEMMA PartsKept ==
  /\ LoopPartOK /\ UNCHANGED loopVars => LoopPartOK'
  /\ OwnPartOK /\ UNCHANGED own => OwnPartOK'
  BY DEF LoopPartOK, LoopTypeOK, loopVars, life, channel, sorting, batches,
         OwnPartOK, own, callers, counting, store

\* What the loop takes from the channel.
LEMMA ReceiveFacts ==
  ASSUME TypeOK, queue # <<>>, NEW a, NEW v, a = Head(queue)[1], v = Head(queue)[2]
  PROVE  /\ queue \in Seq(Items) /\ Head(queue) = <<a, v>> /\ <<a, v>> \in Items
         /\ a \in Aggregates /\ v \in Nat /\ v \in 1..MaxVersion[a]
         /\ ShardOf[a] \in Shards
<1>1. queue \in Seq(Items)
  BY DEF TypeOK, LoopTypeOK
<1>2. Head(queue) \in Items
  BY <1>1, TailFacts
<1>3. QED
  BY <1>1, <1>2, ItemFacts

\* The parts of Receive: the counts with the snapshot counted, whether that makes enough,
\* and what is in the shard then.
CountNow(a, v) == IF counts[a] < v THEN [counts EXCEPT ![a] = @ + 1] ELSE counts
Enough(a, v) == counts[a] < v /\ CountNow(a, v)[a] >= MinDiff
ItemsNow(a, v) ==
  IF Enough(a, v) THEN Replace(shards[ShardOf[a]], <<a, v>>) ELSE shards[ShardOf[a]]
Full(a, v) == Cardinality(ItemsNow(a, v)) >= BatchSize

\* Receive, with the item <<a, v>> that is taken out of the channel.
Received(a, v) ==
  /\ queue \in Seq(Items) /\ queue # <<>> /\ Head(queue) = <<a, v>>
  /\ <<a, v>> \in Items /\ v >= MinDiff /\ ShardOf[a] \in Shards
  /\ lpc = "select" /\ queue' = Tail(queue)
  /\ lpc' = IF Full(a, v) THEN "batch" ELSE "select"
  /\ Begin(IF Full(a, v) THEN {ShardOf[a]} ELSE {}, [shards EXCEPT ![ShardOf[a]] = ItemsNow(a, v)])
  /\ timed' = IF Full(a, v) THEN timed \ {ShardOf[a]} ELSE timed \cup {ShardOf[a]}
  /\ counts' = IF Full(a, v) THEN Forget(CountNow(a, v), ItemsNow(a, v)) ELSE CountNow(a, v)
  /\ heard' = [heard EXCEPT ![a] = @ \cup {v}]
  /\ taken' = IF <<a, v>> \in ItemsNow(a, v) THEN [taken EXCEPT ![a] = v] ELSE taken
  /\ UNCHANGED <<life, chan, callers, store>>

LEMMA ReceiveParts ==
  ASSUME TypeOK, Receive
  PROVE  \E a \in Aggregates, v \in Nat : Received(a, v)
<1>1. queue # <<>>
  BY DEF Receive
<1> DEFINE a == Head(queue)[1]
           v == Head(queue)[2]
<1>2. /\ queue \in Seq(Items) /\ Head(queue) = <<a, v>> /\ <<a, v>> \in Items
      /\ a \in Aggregates /\ v \in Nat /\ ShardOf[a] \in Shards
  BY <1>1, ReceiveFacts
<1>3. /\ Sort(ShardOf[a], ItemsNow(a, v)) /\ v >= MinDiff
      /\ counts' = IF Full(a, v) THEN Forget(CountNow(a, v), ItemsNow(a, v)) ELSE CountNow(a, v)
      /\ heard' = [heard EXCEPT ![a] = @ \cup {v}]
      /\ taken' = IF <<a, v>> \in ItemsNow(a, v) THEN [taken EXCEPT ![a] = v] ELSE taken
      /\ UNCHANGED <<callers, store>>
  BY DEF Receive, ItemsNow, CountNow, Enough, Full
<1> HIDE DEF a, v
<1>4. /\ lpc = "select" /\ queue' = Tail(queue)
      /\ lpc' = IF Full(a, v) THEN "batch" ELSE "select"
      /\ Begin(IF Full(a, v) THEN {ShardOf[a]} ELSE {}, [shards EXCEPT ![ShardOf[a]] = ItemsNow(a, v)])
      /\ timed' = IF Full(a, v) THEN timed \ {ShardOf[a]} ELSE timed \cup {ShardOf[a]}
      /\ UNCHANGED <<life, chan>>
  BY <1>3 DEF Sort, Full
<1>5. QED
  BY <1>1, <1>2, <1>3, <1>4 DEF Received

LEMMA ReceiveType == TypeOK /\ Receive => TypeOK'
<1> SUFFICES ASSUME TypeOK, Receive PROVE TypeOK'
  OBVIOUS
<1>1. LoopPartOK /\ OwnPartOK
  BY TypeParts
<1>2. PICK a \in Aggregates, v \in Nat : Received(a, v)
  BY ReceiveParts
<1> DEFINE s == ShardOf[a]
           items == ItemsNow(a, v)
           S == IF Full(a, v) THEN {s} ELSE {}
<1>3. shards \in [Shards -> SUBSET Items] /\ saving \in [Shards -> SUBSET Items]
      /\ jpc \in [Shards -> {"append", "none"}] /\ timed \subseteq Shards
  BY <1>1 DEF LoopPartOK, LoopTypeOK
<1>4. items \in SUBSET Items
  BY <1>2, <1>3 DEF ItemsNow, Replace, Received
<1> HIDE DEF items
<1>5. [shards EXCEPT ![s] = items] \in [Shards -> SUBSET Items]
  BY <1>2, <1>3, <1>4 DEF Received
<1>6. /\ saving' \in [Shards -> SUBSET Items] /\ shards' \in [Shards -> SUBSET Items]
      /\ jpc' \in [Shards -> {"append", "none"}]
  BY <1>2, <1>3, <1>5, BeginType DEF items, Received
<1>7. queue' \in Seq(Items) /\ Len(queue') <= Capacity
  <2>1. Len(queue) <= Capacity /\ Capacity \in Nat
    BY <1>1 DEF LoopPartOK, LoopTypeOK, Capacity
  <2>2. QED
    BY <1>2, <2>1, TailFacts DEF Received
<1>8. LoopPartOK'
  <2>1. timed' \subseteq Shards
    BY <1>2, <1>3 DEF Received
  <2>2. QED
    BY <1>1, <1>2, <1>6, <1>7, <2>1 DEF LoopPartOK, LoopTypeOK, life, Received
<1>9. OwnPartOK'
  <2>1. CountNow(a, v) \in [Aggregates -> Nat]
    BY <1>1 DEF CountNow, OwnPartOK
  <2>2. counts' \in [Aggregates -> Nat]
    BY <1>2, <2>1 DEF Forget, Received
  <2>3. heard' \in [Aggregates -> SUBSET Nat] /\ taken' \in [Aggregates -> Nat]
    BY <1>1, <1>2 DEF OwnPartOK, Received
  <2>4. QED
    BY <1>1, <1>2, <2>2, <2>3 DEF OwnPartOK, callers, store, Received
<1>10. QED
  BY <1>8, <1>9, TypeParts

\* A snapshot on its way is one that was handed over.
Sending == \A a \in Aggregates : wpc[a] = "send" => given[a] \in 1..MaxVersion[a]

LEMMA CallerType ==
  ASSUME TypeOK, Sending, NEW a \in Aggregates, CallerStep(a)
  PROVE  TypeOK' /\ Sending'
<1>1. LoopPartOK /\ OwnPartOK
  BY TypeParts
<1>2. ASSUME NEW v \in 1..MaxVersion[a], Save(a, v) PROVE TypeOK' /\ Sending'
  <2>1. v \in Nat
    OBVIOUS
  <2>2. OwnPartOK' /\ Sending'
    BY <1>1, <1>2, <2>1 DEF OwnPartOK, Sending, Save, counting, store
  <2>3. QED
    BY <1>1, <1>2, <2>2, PartsKept, TypeParts DEF Save
<1>3. CASE Send(a)
  <2>1. OwnPartOK' /\ Sending'
    BY <1>1, <1>3 DEF OwnPartOK, Sending, Send, counting, store
  <2>2. <<a, given[a]>> \in Items
    BY <1>3, ItemFacts DEF Sending, Send
  <2>3. queue' \in Seq(Items) /\ Len(queue') <= Capacity
    BY <1>1, <1>3, <2>2, AppendFacts
       DEF LoopPartOK, LoopTypeOK, Send, Enqueue, CanSend, Capacity
  <2>4. LoopPartOK'
    BY <1>1, <1>3, <2>3 DEF LoopPartOK, LoopTypeOK, Send, Enqueue, life, sorting, batches
  <2>5. QED
    BY <2>1, <2>4, TypeParts
<1>4. CASE SendFails(a)
  <2>1. OwnPartOK' /\ Sending'
    BY <1>1, <1>4 DEF OwnPartOK, Sending, SendFails, counting, store
  <2>2. QED
    BY <1>1, <1>4, <2>1, PartsKept, TypeParts DEF SendFails
<1>5. QED
  BY <1>2, <1>3, <1>4 DEF CallerStep

\* What the loop, Start and Stop do apart from Receive.
OtherLoopStep ==
  \/ ReceiveYoung
  \/ LifeStep
  \/ (Start \/ StopBegin) /\ UNCHANGED own
  \/ \E due \in SUBSET timed : TickForgets(due)

LEMMA LoopType ==
  ASSUME TypeOK, OtherLoopStep
  PROVE  TypeOK' /\ UNCHANGED <<callers, store>>
<1>1. LoopPartOK /\ OwnPartOK
  BY TypeParts
<1>2. CASE ReceiveYoung
  <2>1. queue' \in Seq(Items) /\ Len(queue') <= Capacity
    <3>1. queue \in Seq(Items) /\ queue # <<>> /\ Len(queue) <= Capacity /\ Capacity \in Nat
      BY <1>1, <1>2 DEF ReceiveYoung, LoopPartOK, LoopTypeOK, Capacity
    <3>2. QED
      BY <1>2, <3>1, TailFacts DEF ReceiveYoung
  <2>2. LoopPartOK'
    BY <1>1, <1>2, <2>1 DEF ReceiveYoung, LoopPartOK, LoopTypeOK, life, sorting, batches
  <2>3. QED
    BY <1>1, <1>2, <2>2, PartsKept, TypeParts DEF ReceiveYoung, own
<1>3. CASE MakeMaps
  <2>1. /\ queue' \in Seq(Items) /\ Len(queue') <= Capacity
        /\ shards' \in [Shards -> SUBSET Items] /\ timed' \subseteq Shards
    BY <1>3 DEF MakeMaps, MakeChannel, Capacity
  <2>2. LoopPartOK'
    BY <1>1, <1>3, <2>1 DEF LoopPartOK, LoopTypeOK, MakeMaps, MakeChannel, life, batches
  <2>3. OwnPartOK'
    BY <1>1, <1>3 DEF MakeMaps, OwnPartOK, callers, store
  <2>4. QED
    BY <1>3, <2>2, <2>3, TypeParts DEF MakeMaps
<1>4. CASE \/ (ReceiveClosed \/ Saved \/ CheckStatus \/ StopClose \/ Start \/ StopBegin) /\ UNCHANGED own
           \/ StopEnd(\A a \in Aggregates : ~ InSave(a)) /\ UNCHANGED own
  <2>1. LoopPartOK'
    BY <1>1, <1>4 DEF LoopPartOK, LoopTypeOK, ReceiveClosed, Saved, CheckStatus, StopClose, Start,
                      StopBegin, StopEnd, life, channel, sorting, batches
  <2>2. QED
    BY <1>1, <1>4, <2>1, PartsKept, TypeParts DEF own
<1>5. ASSUME NEW due \in SUBSET timed, TickForgets(due) PROVE TypeOK' /\ UNCHANGED <<callers, store>>
  <2>1. /\ shards \in [Shards -> SUBSET Items] /\ saving \in [Shards -> SUBSET Items]
        /\ jpc \in [Shards -> {"append", "none"}] /\ timed \subseteq Shards
    BY <1>1 DEF LoopPartOK, LoopTypeOK
  <2>2. /\ saving' \in [Shards -> SUBSET Items] /\ shards' \in [Shards -> SUBSET Items]
        /\ jpc' \in [Shards -> {"append", "none"}]
    <3>1. {s \in due : shards[s] # {}} \in SUBSET Shards
      BY <2>1
    <3>2. Begin({s \in due : shards[s] # {}}, shards)
      BY <1>5 DEF TickForgets, Tick
    <3>3. QED
      BY <2>1, <3>1, <3>2, BeginType
  <2>3. LoopPartOK'
    BY <1>1, <1>5, <2>1, <2>2 DEF LoopPartOK, LoopTypeOK, TickForgets, Tick, life, channel
  <2>4. OwnPartOK'
    BY <1>1, <1>5 DEF OwnPartOK, TickForgets, Forget, callers, store
  <2>5. QED
    BY <1>5, <2>3, <2>4, TypeParts DEF TickForgets
<1>6. QED
  BY <1>2, <1>3, <1>4, <1>5 DEF LifeStep, OtherLoopStep

LEMMA BatchType ==
  ASSUME TypeOK, NEW s \in Shards, SaveStep(s) \/ StoreFails(s)
  PROVE  TypeOK' /\ UNCHANGED <<callers, counting>>
<1>1. LoopPartOK /\ OwnPartOK
  BY TypeParts
<1>2. ASSUME NEW item \in saving[s], SaveOne(s, item) PROVE TypeOK' /\ UNCHANGED <<callers, counting>>
  <2>1. item[2] \in Nat
    BY <1>1, <1>2, ItemFacts DEF LoopPartOK, LoopTypeOK
  <2>2. OwnPartOK'
    BY <1>1, <1>2, <2>1 DEF OwnPartOK, SaveOne, callers, counting
  <2>3. QED
    BY <1>1, <1>2, <2>2, PartsKept, TypeParts DEF SaveOne
<1>3. CASE AllSaved(s) \/ StoreFails(s)
  <2>1. BatchDone(s)
    BY <1>3 DEF AllSaved, StoreFails
  <2>2. LoopPartOK'
    BY <1>1, <2>1 DEF LoopPartOK, LoopTypeOK, BatchDone, life, channel, sorting
  <2>3. failed' \in BOOLEAN
    BY <1>1, <1>3 DEF AllSaved, StoreFails, OwnPartOK
  <2>4. OwnPartOK'
    BY <1>1, <2>1, <2>3 DEF OwnPartOK, BatchDone, callers, counting
  <2>5. QED
    BY <2>1, <2>2, <2>4, TypeParts DEF BatchDone
<1>4. QED
  BY <1>2, <1>3 DEF SaveStep

LEMMA TypeStep == TypeOK /\ Sending /\ [Next]_vars => TypeOK' /\ Sending'
<1> SUFFICES ASSUME TypeOK, Sending, [Next]_vars PROVE TypeOK' /\ Sending'
  OBVIOUS
<1>1. UNCHANGED callers => Sending'
  BY DEF Sending, callers
<1>2. CASE Receive
  BY <1>1, <1>2, ReceiveType DEF Receive
<1>3. ASSUME NEW s \in Shards, SaveStep(s) \/ StoreFails(s) PROVE TypeOK' /\ Sending'
  BY <1>1, <1>3, BatchType
<1>4. CASE UNCHANGED vars
  BY <1>1, <1>4, PartsKept, TypeParts DEF vars, own
<1>5. CASE OtherLoopStep
  BY <1>1, <1>5, LoopType
<1>6. ASSUME NEW a \in Aggregates, CallerStep(a) PROVE TypeOK' /\ Sending'
  BY <1>6, CallerType
<1>7. QED
  BY <1>2, <1>3, <1>4, <1>5, <1>6 DEF Next, OtherLoopStep

\* Every variable keeps its type; the channel never holds more than two batches.
THEOREM TypeCorrect == Spec => []TypeOK
<1>1. Init => TypeOK /\ Sending
  BY TypeInit DEF Init, Sending
<1>2. QED
  BY <1>1, TypeStep, PTL DEF Spec

-----------------------------------------------------------------------------
(* Batches.                                                                *)

\* While a batch is saved the loop waits, and the shard it was taken from is empty.
BatchInv ==
  \A s \in Shards : /\ jpc[s] # "none" => lpc \in {"batch", "flush"}
                    /\ jpc[s] = "none" => saving[s] = {}
                    /\ saving[s] # {} => shards[s] = {}

LEMMA BatchInit == Init => BatchInv
  BY DEF Init, LoopInit, BatchInv

\* What Begin does if no batch is being saved.
LEMMA BeginFacts ==
  ASSUME BatchInv, lpc = "select", NEW S, NEW collected, Begin(S, collected)
  PROVE  \A s \in Shards :
           /\ saving[s] = {}
           /\ saving'[s] = IF s \in S THEN collected[s] ELSE {}
           /\ shards'[s] = IF s \in S THEN {} ELSE collected[s]
           /\ jpc'[s] = IF s \in S THEN "append" ELSE "none"
  BY DEF BatchInv, Begin

LEMMA BatchStep == TypeOK /\ BatchInv /\ [Next]_vars => BatchInv'
<1> SUFFICES ASSUME TypeOK, BatchInv, [Next]_vars PROVE BatchInv'
  OBVIOUS
<1>1. ASSUME UNCHANGED <<lpc, shards, jpc, saving>> PROVE BatchInv'
  BY <1>1 DEF BatchInv
<1>2. ASSUME NEW a \in Aggregates, CallerStep(a) PROVE BatchInv'
  BY <1>1, <1>2
     DEF CallerStep, Save, Send, SendFails, Enqueue, loopVars, sorting, batches
<1>3. CASE Receive
  <2>1. PICK a \in Aggregates, v \in Nat : Received(a, v)
    BY <1>3, ReceiveParts
  <2>2. CASE Full(a, v)
    BY <2>1, <2>2, BeginFacts DEF Received, BatchInv
  <2>3. CASE ~ Full(a, v)
    BY <2>1, <2>3, BeginFacts DEF Received, BatchInv
  <2>4. QED
    BY <2>2, <2>3
<1>4. CASE ReceiveYoung \/ StopClose \/ StopBegin
           \/ StopEnd(\A a \in Aggregates : ~ InSave(a)) \/ UNCHANGED vars
  BY <1>1, <1>4 DEF ReceiveYoung, StopClose, StopBegin, StopEnd, vars, loopVars, sorting, batches
<1>5. CASE MakeMaps
  BY <1>5 DEF MakeMaps, MakeChannel, BatchInv, batches
<1>6. CASE ReceiveClosed \/ Saved \/ CheckStatus \/ Start
  BY <1>6 DEF ReceiveClosed, Saved, CheckStatus, Start, BatchInv, sorting, batches
<1>7. ASSUME NEW due \in SUBSET timed, TickForgets(due) PROVE BatchInv'
  BY <1>7, BeginFacts DEF TickForgets, Tick, BatchInv
<1>8. ASSUME NEW s \in Shards, SaveStep(s) \/ StoreFails(s) PROVE BatchInv'
  <2>1. jpc \in [Shards -> {"append", "none"}] /\ saving \in [Shards -> SUBSET Items]
    BY TypeParts DEF LoopPartOK, LoopTypeOK
  <2>2. CASE BatchDone(s)
    BY <2>1, <2>2 DEF BatchDone, BatchInv, sorting
  <2>3. CASE UNCHANGED loopVars
    BY <1>1, <2>3 DEF loopVars, sorting, batches
  <2>4. QED
    BY <1>8, <2>2, <2>3 DEF SaveStep, SaveOne, AllSaved, StoreFails
<1>9. QED
  BY <1>2, <1>3, <1>4, <1>5, <1>6, <1>7, <1>8 DEF Next, LifeStep

-----------------------------------------------------------------------------
(* The versions that come.                                                 *)

\* The snapshots of an aggregate are in the channel in the order of their versions.
QueueInv ==
  /\ \A j, k \in DOMAIN queue :
       j < k /\ queue[j][1] = queue[k][1] => queue[j][2] < queue[k][2]
  /\ \A a \in Aggregates : \A j \in DOMAIN queue : queue[j][1] = a =>
       queue[j][2] <= given[a] /\ (wpc[a] = "send" => queue[j][2] < given[a])

\* The versions of a that the loop may still receive.
Coming(a) ==
  {w \in Nat : \/ w > given[a]
               \/ wpc[a] = "send" /\ w = given[a]
               \/ \E j \in DOMAIN queue : queue[j] = <<a, w>>}

LEMMA QueueInit == Init => QueueInv
  BY DEF Init, LoopInit, QueueInv

\* The versions that may still come get fewer.
LEMMA CallerQueue ==
  ASSUME TypeOK, QueueInv, NEW a \in Aggregates, CallerStep(a)
  PROVE  QueueInv' /\ \A b \in Aggregates : Coming(b)' \subseteq Coming(b)
<1>1. /\ queue \in Seq(Items) /\ given \in [Aggregates -> Nat]
      /\ wpc \in [Aggregates -> {"idle", "send", "stuck"}]
  BY DEF TypeOK, LoopTypeOK
<1>2. \A j \in DOMAIN queue : queue[j] \in Items
  BY <1>1
<1>3. \A j \in DOMAIN queue : queue[j] = <<queue[j][1], queue[j][2]>> /\ queue[j][2] \in Nat
  BY <1>2, ItemFacts
<1>4. ASSUME NEW v \in 1..MaxVersion[a], Save(a, v)
      PROVE  QueueInv' /\ \A b \in Aggregates : Coming(b)' \subseteq Coming(b)
  <2>1. /\ UNCHANGED queue /\ v \in Nat /\ v > given[a] /\ given' = [given EXCEPT ![a] = v]
        /\ wpc' = [wpc EXCEPT ![a] = "send"]
    BY <1>4 DEF Save, loopVars, channel
  <2>2. /\ given'[a] = v /\ \A b \in Aggregates \ {a} : given'[b] = given[b] /\ wpc'[b] = wpc[b]
    BY <1>1, <2>1
  <2>3. QueueInv'
    BY <1>1, <1>3, <2>1, <2>2 DEF QueueInv
  <2>4. \A b \in Aggregates : Coming(b)' \subseteq Coming(b)
    BY <1>1, <2>1, <2>2 DEF Coming
  <2>5. QED
    BY <2>3, <2>4
<1>5. CASE Send(a)
  <2>1. /\ wpc[a] = "send" /\ wpc' = [wpc EXCEPT ![a] = "idle"] /\ UNCHANGED given
        /\ queue' = Append(queue, <<a, given[a]>>)
    BY <1>5 DEF Send, Enqueue
  <2>2. /\ wpc'[a] = "idle" /\ \A b \in Aggregates \ {a} : wpc'[b] = wpc[b]
    BY <1>1, <2>1
  <2>3. /\ \A j \in DOMAIN queue : j \in Nat /\ j <= Len(queue) /\ queue'[j] = queue[j]
        /\ queue'[Len(queue) + 1] = <<a, given[a]>>
        /\ \A j \in DOMAIN queue' : j \in DOMAIN queue \/ j = Len(queue) + 1
        /\ Len(queue) \in Nat
    <3>1. queue \in Seq(Aggregates \X Nat) /\ <<a, given[a]>> \in Aggregates \X Nat
      BY <1>1, <1>2, ItemFacts
    <3>2. QED
      BY <2>1, <3>1, AppendFacts
  <2>4. QueueInv'
    <3>1. \A j, k \in DOMAIN queue' :
            j < k /\ queue'[j][1] = queue'[k][1] => queue'[j][2] < queue'[k][2]
      <4> SUFFICES ASSUME NEW j \in DOMAIN queue', NEW k \in DOMAIN queue',
                          j < k, queue'[j][1] = queue'[k][1]
                   PROVE  queue'[j][2] < queue'[k][2]
        OBVIOUS
      <4>1. j \in DOMAIN queue /\ queue'[j] = queue[j]
        BY <2>3
      <4>2. CASE k \in DOMAIN queue
        BY <2>3, <4>1, <4>2 DEF QueueInv
      <4>3. CASE k = Len(queue) + 1
        <5>1. queue[j][1] = a /\ queue'[k][2] = given[a]
          BY <2>3, <4>1, <4>3
        <5>2. queue[j][2] < given[a]
          BY <2>1, <4>1, <5>1 DEF QueueInv
        <5>3. QED
          BY <4>1, <5>1, <5>2
      <4>4. QED
        BY <2>3, <4>2, <4>3
    <3>2. \A b \in Aggregates : \A j \in DOMAIN queue' : queue'[j][1] = b =>
            queue'[j][2] <= given[b] /\ (wpc'[b] = "send" => queue'[j][2] < given[b])
      BY <1>1, <1>3, <2>1, <2>2, <2>3 DEF QueueInv
    <3>3. QED
      BY <2>1, <3>1, <3>2 DEF QueueInv
  <2>5. ASSUME NEW b \in Aggregates, NEW w \in Coming(b)' PROVE w \in Coming(b)
    <3>1. CASE w > given[b] \/ (wpc[b] = "send" /\ w = given[b])
      BY <2>5, <3>1, <2>1 DEF Coming
    <3>2. ASSUME NEW j \in DOMAIN queue', queue'[j] = <<b, w>> PROVE w \in Coming(b)
      <4>1. CASE j \in DOMAIN queue
        BY <2>3, <2>5, <3>2, <4>1 DEF Coming
      <4>2. CASE j = Len(queue) + 1
        <5>1. b = a /\ w = given[a]
          BY <2>3, <3>2, <4>2
        <5>2. QED
          BY <1>1, <2>1, <5>1 DEF Coming
      <4>3. QED
        BY <2>3, <4>1, <4>2
    <3>3. wpc'[b] = "send" => wpc[b] = "send"
      BY <2>1, <2>2
    <3>4. QED
      BY <2>1, <2>5, <3>1, <3>2, <3>3 DEF Coming
  <2>6. QED
    BY <2>4, <2>5
<1>6. CASE SendFails(a)
  <2>1. UNCHANGED <<queue, given>> /\ \A b \in Aggregates : wpc'[b] = "send" => wpc[b] = "send"
    BY <1>1, <1>6 DEF SendFails, loopVars, channel
  <2>2. QED
    BY <2>1 DEF QueueInv, Coming
<1>7. QED
  BY <1>4, <1>5, <1>6 DEF CallerStep

\* When the loop takes <<a, v>> from the channel, only later versions of a still come.
LEMMA ReceiveQueue ==
  ASSUME TypeOK, QueueInv, queue # <<>>, queue' = Tail(queue), UNCHANGED callers,
         NEW a \in Aggregates, NEW v \in Nat, Head(queue) = <<a, v>>
  PROVE  /\ QueueInv'
         /\ v \in Coming(a)
         /\ \A b \in Aggregates : Coming(b)' \subseteq Coming(b)
         /\ \A w \in Coming(a)' : w > v
<1>1. queue \in Seq(Items) /\ given \in [Aggregates -> Nat] /\ UNCHANGED <<wpc, given>>
  BY DEF TypeOK, LoopTypeOK, callers
<1>2. /\ \A j \in DOMAIN queue' : /\ j \in Nat /\ j + 1 \in DOMAIN queue /\ 1 < j + 1
                                  /\ queue'[j] = queue[j + 1]
      /\ queue[1] = <<a, v>> /\ 1 \in DOMAIN queue
  BY <1>1, TailFacts
<1>3. \A j \in DOMAIN queue : queue[j][2] \in Nat
  BY <1>1, ItemFacts
<1>4. QueueInv'
  <2>1. \A j, k \in DOMAIN queue' :
          j < k /\ queue'[j][1] = queue'[k][1] => queue'[j][2] < queue'[k][2]
    BY <1>2 DEF QueueInv
  <2>2. \A b \in Aggregates : \A j \in DOMAIN queue' : queue'[j][1] = b =>
          queue'[j][2] <= given[b] /\ (wpc[b] = "send" => queue'[j][2] < given[b])
    BY <1>2 DEF QueueInv
  <2>3. QED
    BY <1>1, <2>1, <2>2 DEF QueueInv
<1>5. v \in Coming(a)
  BY <1>2 DEF Coming
<1>6. \A b \in Aggregates : Coming(b)' \subseteq Coming(b)
  BY <1>1, <1>2 DEF Coming
<1>7. ASSUME NEW w \in Coming(a)' PROVE w > v
  <2>1. v <= given[a] /\ (wpc[a] = "send" => v < given[a])
    BY <1>2 DEF QueueInv
  <2>2. ASSUME NEW j \in DOMAIN queue', queue'[j] = <<a, w>> PROVE w > v
    <3>1. queue[j + 1] = <<a, w>> /\ j + 1 \in DOMAIN queue /\ 1 < j + 1
      BY <1>2, <2>2
    <3>2. queue[1][1] = queue[j + 1][1] /\ queue[1][2] = v /\ queue[j + 1][2] = w
      BY <1>2, <3>1
    <3>3. QED
      BY <1>2, <3>1, <3>2 DEF QueueInv
  <2>3. w \in Nat /\ given[a] \in Nat
    BY <1>1, <1>7 DEF Coming
  <2>4. QED
    BY <1>1, <1>7, <2>1, <2>2, <2>3 DEF Coming
<1>8. QED
  BY <1>4, <1>5, <1>6, <1>7

\* A step that leaves the channel to itself, or empties it, and no caller takes.
LEMMA RestQueue ==
  ASSUME TypeOK, QueueInv, UNCHANGED callers, (UNCHANGED queue) \/ queue' = <<>>
  PROVE  QueueInv' /\ \A b \in Aggregates : Coming(b)' \subseteq Coming(b)
<1>1. UNCHANGED <<wpc, given>>
  BY DEF callers
<1>2. DOMAIN queue' \subseteq DOMAIN queue /\ \A j \in DOMAIN queue' : queue'[j] = queue[j]
  OBVIOUS
<1>3. QED
  BY <1>1, <1>2 DEF QueueInv, Coming

-----------------------------------------------------------------------------
(* Counting.                                                               *)

\* The version that a snapshot must exceed to be counted, once version u is saved.
Floor(u) == IF u = 0 THEN MinDiff - 1 ELSE u

\* What waits in a shard is far enough from what is saved, and older than all that comes.
SortedInv(a) ==
  \A t \in Shards : \A v \in Nat : <<a, v>> \in shards[t] =>
    /\ t = ShardOf[a]
    /\ counts[a] >= MinDiff
    /\ v >= Floor(saved[a]) + MinDiff
    /\ \A w \in Coming(a) : w > v
    /\ \A w \in Nat : <<a, w>> \in shards[t] => w = v

\* So is what is being saved, unless the store has it already; it is counted no more.
SavingInv(a) ==
  \A t \in Shards : \A v \in Nat : <<a, v>> \in saving[t] =>
    /\ t = ShardOf[a]
    /\ counts[a] = 0
    /\ v >= MinDiff
    /\ v = saved[a] \/ v >= Floor(saved[a]) + MinDiff
    /\ \A w \in Coming(a) : w > v
    /\ \A w \in Nat : <<a, w>> \in saving[t] => w = v

\* What comes is newer than what is saved by more than the snapshots counted since.
AheadInv(a) == \A w \in Coming(a) : w >= MinDiff => w > Floor(saved[a]) + counts[a]

\* The versions heard that are newer than the last one taken.
Behind(a) == {v \in heard[a] : v > taken[a]}

\* They are those that have been counted, unless one has been taken.
HeardInv(a) ==
  /\ IsFiniteSet(heard[a])
  /\ \A w \in Coming(a) : w >= MinDiff => w > taken[a] /\ \A v \in heard[a] : w > v
  /\ Cardinality(Behind(a)) = IF counts[a] >= MinDiff THEN 0 ELSE counts[a]

CountInv(a) == SortedInv(a) /\ SavingInv(a) /\ AheadInv(a) /\ HeardInv(a)

Inv == TypeOK /\ BatchInv /\ QueueInv /\ \A a \in Aggregates : CountInv(a)

LEMMA CountInit == Init => \A a \in Aggregates : CountInv(a)
<1> SUFFICES ASSUME Init, NEW a \in Aggregates PROVE CountInv(a)
  OBVIOUS
<1>1. /\ counts[a] = 0 /\ saved[a] = 0 /\ heard[a] = {} /\ taken[a] = 0 /\ queue = <<>>
      /\ given[a] = 0 /\ wpc[a] = "idle"
      /\ \A t \in Shards : shards[t] = {} /\ saving[t] = {}
  BY DEF Init, LoopInit
<1>2. SortedInv(a) /\ SavingInv(a)
  BY <1>1 DEF SortedInv, SavingInv
<1>3. AheadInv(a)
  BY <1>1 DEF AheadInv, Floor, Coming
<1>4. Behind(a) = {}
  BY <1>1 DEF Behind
<1>5. HeardInv(a)
  BY <1>1, <1>4, FS_EmptySet DEF HeardInv, Coming
<1>6. QED
  BY <1>2, <1>3, <1>5 DEF CountInv

\* The types that the counting is about.
LEMMA CountTypes ==
  ASSUME TypeOK, NEW a \in Aggregates
  PROVE  /\ counts \in [Aggregates -> Nat] /\ saved \in [Aggregates -> Nat]
         /\ heard \in [Aggregates -> SUBSET Nat] /\ taken \in [Aggregates -> Nat]
         /\ counts[a] \in Nat /\ saved[a] \in Nat /\ taken[a] \in Nat /\ heard[a] \in SUBSET Nat
         /\ shards \in [Shards -> SUBSET Items] /\ saving \in [Shards -> SUBSET Items]
         /\ Floor(saved[a]) \in Nat /\ Coming(a) \subseteq Nat
  BY TypeParts, SMTT(30) DEF LoopPartOK, LoopTypeOK, OwnPartOK, Floor, Coming

\* Steps that leave the counting alone.
LEMMA CountKept ==
  ASSUME TypeOK, NEW a \in Aggregates, CountInv(a), Coming(a)' \subseteq Coming(a),
         UNCHANGED <<shards, saving, counts, saved, heard, taken>>
  PROVE  CountInv(a)'
<1>1. SortedInv(a)'
  BY DEF CountInv, SortedInv
<1>2. SavingInv(a)'
  BY DEF CountInv, SavingInv
<1>3. AheadInv(a)'
  BY DEF CountInv, AheadInv
<1>4. Behind(a)' = Behind(a)
  BY DEF Behind
<1>5. HeardInv(a)'
  BY <1>4 DEF CountInv, HeardInv
<1>6. QED
  BY <1>1, <1>2, <1>3, <1>5 DEF CountInv

\* A new run starts to count afresh.
LEMMA CountMake ==
  ASSUME TypeOK, BatchInv, NEW a \in Aggregates, CountInv(a), Coming(a)' \subseteq Coming(a), MakeMaps
  PROVE  CountInv(a)'
<1>1. /\ lpc = "make" /\ shards' = [s \in Shards |-> {}] /\ UNCHANGED <<saving, saved>>
      /\ counts'[a] = 0 /\ heard'[a] = {} /\ taken'[a] = 0
  BY DEF MakeMaps, MakeChannel, batches, store
<1>2. \A t \in Shards : saving[t] = {} /\ shards'[t] = {}
  BY <1>1 DEF BatchInv
<1>3. SortedInv(a)' /\ SavingInv(a)'
  BY <1>1, <1>2 DEF SortedInv, SavingInv
<1>4. AheadInv(a)'
  <2>1. counts[a] \in Nat /\ Floor(saved[a]) \in Nat /\ Coming(a) \subseteq Nat
    BY CountTypes
  <2>2. Floor(saved[a])' = Floor(saved[a])
    BY <1>1 DEF Floor
  <2>3. QED
    BY <1>1, <2>1, <2>2 DEF AheadInv, CountInv
<1>5. Behind(a)' = {}
  BY <1>1 DEF Behind
<1>6. \A w \in Coming(a)' : w \in Nat
  BY CountTypes
<1>7. HeardInv(a)'
  BY <1>1, <1>5, <1>6, FS_EmptySet DEF HeardInv
<1>8. QED
  BY <1>3, <1>4, <1>7 DEF CountInv

\* Snapshots of a stay in their shard, or all of them leave it, to be saved, with their
\* count.
LEMMA CountMoves ==
  ASSUME TypeOK, NEW a \in Aggregates, CountInv(a), Coming(a)' \subseteq Coming(a),
         saved'[a] = saved[a], heard'[a] = heard[a], taken'[a] = taken[a],
         \A t \in Shards : \A v \in Nat :
           <<a, v>> \in shards'[t] => <<a, v>> \in shards[t] /\ counts'[a] = counts[a],
         \A t \in Shards : \A v \in Nat :
           <<a, v>> \in saving'[t] => <<a, v>> \in shards[t] /\ counts'[a] = 0,
         counts'[a] = counts[a] \/ (counts'[a] = 0 /\ counts[a] >= MinDiff)
  PROVE  CountInv(a)'
<1>1. SortedInv(a)'
  BY DEF CountInv, SortedInv, Floor
<1>2. SavingInv(a)'
  <2> SUFFICES ASSUME NEW t \in Shards, NEW v \in Nat, <<a, v>> \in saving'[t]
               PROVE  /\ t = ShardOf[a]
                      /\ counts'[a] = 0
                      /\ v >= MinDiff
                      /\ v >= Floor(saved'[a]) + MinDiff
                      /\ \A w \in Coming(a)' : w > v
                      /\ \A w \in Nat : <<a, w>> \in saving'[t] => w = v
    BY DEF SavingInv, Floor
  <2>1. <<a, v>> \in shards[t]
    OBVIOUS
  <2>2. v >= Floor(saved[a]) + MinDiff /\ Floor(saved[a]) \in Nat
    BY <2>1, CountTypes DEF CountInv, SortedInv
  <2>3. v >= MinDiff
    BY <2>2
  <2>4. QED
    BY <2>1, <2>2, <2>3 DEF CountInv, SortedInv
<1>3. counts'[a] <= counts[a] /\ counts[a] \in Nat /\ counts'[a] \in Nat
  BY CountTypes
<1>4. AheadInv(a)'
  <2>1. Floor(saved[a])' = Floor(saved[a]) /\ Floor(saved[a]) \in Nat /\ Coming(a) \subseteq Nat
    BY CountTypes DEF Floor
  <2>2. QED
    BY <1>3, <2>1 DEF AheadInv, CountInv
<1>5. HeardInv(a)'
  <2>1. Behind(a)' = Behind(a)
    BY DEF Behind
  <2>2. Cardinality(Behind(a)') = IF counts'[a] >= MinDiff THEN 0 ELSE counts'[a]
    BY <2>1 DEF CountInv, HeardInv
  <2>3. QED
    BY <2>2 DEF CountInv, HeardInv
<1>6. QED
  BY <1>1, <1>2, <1>4, <1>5 DEF CountInv

\* The batches of a tick take their counts with them.
LEMMA CountTick ==
  ASSUME TypeOK, BatchInv, NEW a \in Aggregates, CountInv(a), Coming(a)' \subseteq Coming(a),
         NEW due \in SUBSET timed, TickForgets(due)
  PROVE  CountInv(a)'
<1> DEFINE S == {s \in due : shards[s] # {}}
           gone == \E t \in due : \E v \in Nat : <<a, v>> \in shards[t]
<1>1. /\ lpc = "select" /\ Begin(S, shards) /\ UNCHANGED <<saved, heard, taken>>
      /\ counts' = Forget(counts, UNION {shards[s] : s \in due})
  BY DEF TickForgets, Tick, store
<1>2. \A t \in Shards : /\ saving'[t] = IF t \in S THEN shards[t] ELSE {}
                        /\ shards'[t] = IF t \in S THEN {} ELSE shards[t]
  BY <1>1, BeginFacts
<1>3. due \subseteq Shards
  BY DEF TypeOK, LoopTypeOK
<1>4. counts'[a] = IF gone THEN 0 ELSE counts[a]
  <2>1. shards \in [Shards -> SUBSET Items]
    BY CountTypes
  <2>2. (\E item \in UNION {shards[s] : s \in due} : item[1] = a) <=> gone
    <3>1. ASSUME NEW t \in due, NEW item \in shards[t], item[1] = a PROVE gone
      <4>1. item = <<a, item[2]>> /\ item[2] \in Nat
        BY <1>3, <2>1, <3>1, ItemFacts
      <4>2. QED
        BY <3>1, <4>1
    <3>2. ASSUME NEW t \in due, NEW v \in Nat, <<a, v>> \in shards[t]
          PROVE  \E item \in UNION {shards[s] : s \in due} : item[1] = a
      BY <3>2
    <3>3. QED
      BY <3>1, <3>2
  <2>3. QED
    BY <1>1, <2>2 DEF Forget
<1>5. \A t \in Shards : \A v \in Nat :
        <<a, v>> \in shards'[t] => <<a, v>> \in shards[t] /\ counts'[a] = counts[a]
  <2> SUFFICES ASSUME NEW t \in Shards, NEW v \in Nat, <<a, v>> \in shards'[t]
               PROVE  <<a, v>> \in shards[t] /\ counts'[a] = counts[a]
    OBVIOUS
  <2>1. t \notin S /\ <<a, v>> \in shards[t]
    BY <1>2
  <2>2. t = ShardOf[a] /\ t \notin due
    BY <2>1 DEF CountInv, SortedInv
  <2>3. ASSUME NEW u \in due, NEW w \in Nat, <<a, w>> \in shards[u] PROVE FALSE
    BY <1>3, <2>2, <2>3 DEF CountInv, SortedInv
  <2>4. QED
    BY <1>4, <2>1, <2>3
<1>6. \A t \in Shards : \A v \in Nat :
        <<a, v>> \in saving'[t] => <<a, v>> \in shards[t] /\ counts'[a] = 0
  BY <1>2, <1>4
<1>7. counts'[a] = counts[a] \/ (counts'[a] = 0 /\ counts[a] >= MinDiff)
  BY <1>3, <1>4 DEF CountInv, SortedInv
<1>8. QED
  BY <1>1, <1>5, <1>6, <1>7, CountMoves

\* A snapshot that is received is counted, and taken if that makes enough.
LEMMA CountReceive ==
  ASSUME TypeOK, BatchInv, QueueInv, \A b \in Aggregates : CountInv(b),
         NEW a \in Aggregates, NEW v \in Nat, Received(a, v)
  PROVE  \A b \in Aggregates : CountInv(b)'
<1> DEFINE s == ShardOf[a]
           items == ItemsNow(a, v)
           full == Full(a, v)
           enough == Enough(a, v)
<1>1. /\ v \in Coming(a)
      /\ \A b \in Aggregates : Coming(b)' \subseteq Coming(b)
      /\ \A w \in Coming(a)' : w > v
  BY ReceiveQueue DEF Received
<1>2. /\ v >= MinDiff /\ s \in Shards /\ saved'[a] = saved[a]
      /\ v > Floor(saved[a]) + counts[a] /\ Floor(saved[a]) \in Nat /\ counts[a] \in Nat
  BY <1>1, CountTypes DEF Received, CountInv, AheadInv, store
<1>3. /\ CountNow(a, v)[a] = counts[a] + 1
      /\ \A b \in Aggregates \ {a} : CountNow(a, v)[b] = counts[b]
      /\ enough <=> counts[a] + 1 >= MinDiff
  <2>1. counts[a] < v
    BY <1>2
  <2>2. counts \in [Aggregates -> Nat]
    BY CountTypes
  <2>3. QED
    BY <2>1, <2>2 DEF CountNow, Enough
<1>4. \A t \in Shards : \A w \in Nat : <<a, w>> \in shards[t] => t = s /\ w < v /\ enough
  BY <1>1, <1>2, <1>3 DEF CountInv, SortedInv
<1>5. /\ \A w \in Nat : <<a, w>> \in items <=> enough /\ w = v
      /\ \A b \in Aggregates \ {a} : \A w \in Nat : <<b, w>> \in items <=> <<b, w>> \in shards[s]
  <2>1. CASE enough
    BY <2>1 DEF ItemsNow, Replace
  <2>2. CASE ~ enough
    BY <1>2, <1>4, <2>2 DEF ItemsNow
  <2>3. QED
    BY <2>1, <2>2
<1>6. \A t \in Shards :
        /\ saving'[t] = IF full /\ t = s THEN items ELSE {}
        /\ shards'[t] = IF t = s THEN IF full THEN {} ELSE items ELSE shards[t]
  <2> DEFINE S == IF full THEN {s} ELSE {}
             collected == [shards EXCEPT ![s] = items]
  <2>1. lpc = "select" /\ Begin(S, collected)
    BY DEF Received
  <2>2. \A t \in Shards : /\ saving'[t] = IF t \in S THEN collected[t] ELSE {}
                          /\ shards'[t] = IF t \in S THEN {} ELSE collected[t]
    <3> HIDE DEF S, collected
    <3>1. QED
      BY <2>1, BeginFacts
  <2>3. \A t \in Shards : collected[t] = IF t = s THEN items ELSE shards[t]
    BY CountTypes
  <2> HIDE DEF collected, items, full, s
  <2>4. QED
    BY <2>2, <2>3
<1>7. \A b \in Aggregates :
        counts'[b] = IF full /\ (\E w \in Nat : <<b, w>> \in items) THEN 0 ELSE CountNow(a, v)[b]
  <2>1. items \subseteq Items
    <3>1. shards[s] \subseteq Items
      BY <1>2, CountTypes
    <3>2. QED
      BY <3>1 DEF ItemsNow, Replace, Received
  <2>2. \A b \in Aggregates :
          (\E item \in items : item[1] = b) <=> (\E w \in Nat : <<b, w>> \in items)
    <3> SUFFICES ASSUME NEW b \in Aggregates
                 PROVE  (\E item \in items : item[1] = b) <=> (\E w \in Nat : <<b, w>> \in items)
      OBVIOUS
    <3> HIDE DEF items
    <3>1. ASSUME NEW item \in items, item[1] = b PROVE <<b, item[2]>> \in items /\ item[2] \in Nat
      BY <2>1, <3>1, ItemFacts
    <3>2. QED
      BY <3>1
  <2>3. counts' = IF full THEN Forget(CountNow(a, v), items) ELSE CountNow(a, v)
    BY DEF Received
  <2> HIDE DEF items, full
  <2>4. QED
    BY <2>2, <2>3 DEF Forget
<1>8. /\ heard'[a] = heard[a] \cup {v} /\ taken'[a] = IF enough THEN v ELSE taken[a]
      /\ \A b \in Aggregates \ {a} : heard'[b] = heard[b] /\ taken'[b] = taken[b]
  <2>1. <<a, v>> \in items <=> enough
    BY <1>5
  <2>2. /\ heard' = [heard EXCEPT ![a] = @ \cup {v}]
        /\ taken' = IF <<a, v>> \in items THEN [taken EXCEPT ![a] = v] ELSE taken
    BY DEF Received
  <2> HIDE DEF items, enough
  <2>3. QED
    BY <2>1, <2>2, CountTypes
<1> HIDE DEF items, full, enough, s
<1>9. ASSUME NEW b \in Aggregates \ {a} PROVE CountInv(b)'
  <2>1. \A t \in Shards : \A w \in Nat :
          <<b, w>> \in shards'[t] => <<b, w>> \in shards[t] /\ counts'[b] = counts[b]
    <3> SUFFICES ASSUME NEW t \in Shards, NEW w \in Nat, <<b, w>> \in shards'[t]
                 PROVE  <<b, w>> \in shards[t] /\ counts'[b] = counts[b]
      OBVIOUS
    <3>1. <<b, w>> \in shards[t] /\ ~ (full /\ t = s)
      BY <1>5, <1>6
    <3>2. full => \A u \in Nat : <<b, u>> \notin items
      BY <1>2, <1>5, <3>1 DEF CountInv, SortedInv
    <3>3. QED
      BY <1>3, <1>7, <3>1, <3>2
  <2>2. \A t \in Shards : \A w \in Nat :
          <<b, w>> \in saving'[t] => <<b, w>> \in shards[t] /\ counts'[b] = 0
    BY <1>5, <1>6, <1>7
  <2>3. counts'[b] = counts[b] \/ (counts'[b] = 0 /\ counts[b] >= MinDiff)
    BY <1>2, <1>3, <1>5, <1>7 DEF CountInv, SortedInv
  <2>4. saved'[b] = saved[b]
    BY DEF Received, store
  <2>5. QED
    BY <1>1, <1>8, <2>1, <2>2, <2>3, <2>4, CountMoves
<1>10. counts'[a] = IF full /\ enough THEN 0 ELSE counts[a] + 1
  BY <1>3, <1>5, <1>7
<1>11. SortedInv(a)'
  <2> SUFFICES ASSUME NEW t \in Shards, NEW w \in Nat, <<a, w>> \in shards'[t]
               PROVE  /\ t = ShardOf[a]
                      /\ counts'[a] >= MinDiff
                      /\ w >= Floor(saved[a]) + MinDiff
                      /\ \A x \in Coming(a)' : x > w
                      /\ \A x \in Nat : <<a, x>> \in shards'[t] => x = w
    BY <1>2 DEF SortedInv, Floor
  <2>1. t = s /\ ~ full /\ shards'[t] = items
    BY <1>4, <1>6
  <2>2. enough /\ w = v
    BY <1>5, <2>1
  <2>3. v >= Floor(saved[a]) + MinDiff
    BY <1>2, <1>3, <2>2
  <2>4. QED
    BY <1>1, <1>3, <1>5, <1>10, <2>1, <2>2, <2>3 DEF s
<1>12. SavingInv(a)'
  <2> SUFFICES ASSUME NEW t \in Shards, NEW w \in Nat, <<a, w>> \in saving'[t]
               PROVE  /\ t = ShardOf[a]
                      /\ counts'[a] = 0
                      /\ w >= MinDiff
                      /\ w >= Floor(saved[a]) + MinDiff
                      /\ \A x \in Coming(a)' : x > w
                      /\ \A x \in Nat : <<a, x>> \in saving'[t] => x = w
    BY <1>2 DEF SavingInv, Floor
  <2>1. t = s /\ full /\ saving'[t] = items
    BY <1>6
  <2>2. enough /\ w = v
    BY <1>5, <2>1
  <2>3. v >= Floor(saved[a]) + MinDiff
    BY <1>2, <1>3, <2>2
  <2>4. QED
    BY <1>1, <1>2, <1>5, <1>10, <2>1, <2>2, <2>3 DEF s
<1>13. AheadInv(a)'
  <2>1. Floor(saved[a])' = Floor(saved[a])
    BY <1>2 DEF Floor
  <2>2. \A w \in Coming(a)' : w \in Nat /\ w > v
    BY <1>1, CountTypes
  <2>3. counts'[a] <= counts[a] + 1 /\ counts'[a] \in Nat
    BY <1>2, <1>10
  <2>4. QED
    BY <1>2, <2>1, <2>2, <2>3 DEF AheadInv
<1>14. HeardInv(a)'
  <2>1. /\ IsFiniteSet(heard[a]) /\ v > taken[a] /\ \A w \in heard[a] : v > w
        /\ Cardinality(Behind(a)) = IF counts[a] >= MinDiff THEN 0 ELSE counts[a]
    BY <1>1, <1>2 DEF CountInv, HeardInv
  <2>2. IsFiniteSet(heard'[a])
    BY <1>8, <2>1, FS_AddElement
  <2>3. taken[a] \in Nat /\ heard[a] \in SUBSET Nat
    BY CountTypes
  <2>4. ASSUME NEW w \in Coming(a)' PROVE w > taken'[a] /\ \A x \in heard'[a] : w > x
    <3>1. w \in Nat /\ w > v
      BY <1>1, CountTypes
    <3>2. QED
      BY <1>8, <2>1, <2>3, <3>1
  <2>5. CASE enough
    <3>1. Behind(a)' = {}
      BY <1>8, <2>1, <2>3, <2>5 DEF Behind
    <3>2. counts'[a] = 0 \/ counts'[a] >= MinDiff
      BY <1>3, <1>10, <2>5
    <3>3. QED
      BY <2>2, <2>4, <3>1, <3>2, FS_EmptySet DEF HeardInv
  <2>6. CASE ~ enough
    <3>1. Behind(a)' = Behind(a) \cup {v} /\ v \notin Behind(a)
      BY <1>8, <2>1, <2>6 DEF Behind
    <3>2. counts'[a] = counts[a] + 1 /\ counts[a] + 1 < MinDiff
      BY <1>2, <1>3, <1>10, <2>6
    <3>3. IsFiniteSet(Behind(a))
      BY <2>1, FS_Subset DEF Behind
    <3>4. Cardinality(Behind(a)') = Cardinality(Behind(a)) + 1
      BY <3>1, <3>3, FS_AddElement
    <3>5. Cardinality(Behind(a)') = counts'[a] /\ ~ (counts'[a] >= MinDiff)
      BY <1>2, <2>1, <3>2, <3>4
    <3>6. QED
      BY <2>2, <2>4, <3>5 DEF HeardInv
  <2>7. QED
    BY <2>5, <2>6
<1>15. CountInv(a)'
  BY <1>11, <1>12, <1>13, <1>14 DEF CountInv
<1>16. QED
  BY <1>9, <1>15

\* What the store takes of a batch is what it has already, or far enough from it.
LEMMA SavedStep ==
  ASSUME TypeOK, NEW a \in Aggregates, SavingInv(a), NEW s \in Shards,
         NEW item \in saving[s], SaveOne(s, item), saved'[a] # saved[a]
  PROVE  /\ saved'[a] >= Floor(saved[a]) + MinDiff
         /\ saved'[a] \in Nat /\ <<a, saved'[a]>> \in saving[s]
<1>1. saved \in [Aggregates -> Nat] /\ item \in Items
  BY CountTypes
<1>2. item = <<item[1], item[2]>> /\ item[1] \in Aggregates /\ item[2] \in Nat
  BY <1>1, ItemFacts
<1>3. item[1] = a /\ saved'[a] = item[2]
  BY <1>1, <1>2 DEF SaveOne
<1>4. QED
  BY <1>2, <1>3 DEF SavingInv

LEMMA CountSave ==
  ASSUME TypeOK, BatchInv, NEW a \in Aggregates, CountInv(a), Coming(a)' \subseteq Coming(a),
         NEW s \in Shards, NEW item \in saving[s], SaveOne(s, item)
  PROVE  CountInv(a)'
<1>1. UNCHANGED <<shards, saving, counts, heard, taken>>
  BY DEF SaveOne, loopVars, sorting, batches, counting
<1>2. CASE saved'[a] = saved[a]
  <2>1. SortedInv(a)' /\ SavingInv(a)' /\ AheadInv(a)'
    BY <1>1, <1>2 DEF CountInv, SortedInv, SavingInv, AheadInv, Floor
  <2>2. Behind(a)' = Behind(a)
    BY <1>1 DEF Behind
  <2>3. HeardInv(a)'
    BY <1>1, <2>2 DEF CountInv, HeardInv
  <2>4. QED
    BY <2>1, <2>3 DEF CountInv
<1>3. CASE saved'[a] # saved[a]
  <2>1. PICK v \in Nat : v = saved'[a] /\ <<a, v>> \in saving[s] /\ v >= Floor(saved[a]) + MinDiff
    BY <1>3, SavedStep DEF CountInv
  <2>2. /\ s = ShardOf[a] /\ counts[a] = 0 /\ v >= MinDiff
        /\ \A w \in Coming(a) : w > v
        /\ \A w \in Nat : <<a, w>> \in saving[s] => w = v
    BY <2>1 DEF CountInv, SavingInv
  <2>3. SortedInv(a)'
    <3>1. shards[s] = {}
      BY <2>1 DEF BatchInv
    <3>2. \A t \in Shards : \A w \in Nat : <<a, w>> \notin shards'[t]
      BY <1>1, <2>2, <3>1 DEF CountInv, SortedInv
    <3>3. QED
      BY <3>2 DEF SortedInv
  <2>4. SavingInv(a)'
    BY <1>1, <2>1, <2>2 DEF CountInv, SavingInv
  <2>5. AheadInv(a)'
    <3>1. Floor(saved[a])' = v
      BY <2>1, <2>2 DEF Floor
    <3>2. QED
      BY <1>1, <2>2, <3>1 DEF AheadInv
  <2>6. Behind(a)' = Behind(a)
    BY <1>1 DEF Behind
  <2>7. HeardInv(a)'
    BY <1>1, <2>6 DEF CountInv, HeardInv
  <2>8. QED
    BY <2>3, <2>4, <2>5, <2>7 DEF CountInv
<1>4. QED
  BY <1>2, <1>3

LEMMA CountDone ==
  ASSUME TypeOK, NEW a \in Aggregates, CountInv(a), Coming(a)' \subseteq Coming(a),
         NEW s \in Shards, BatchDone(s)
  PROVE  CountInv(a)'
<1>1. UNCHANGED <<shards, counts, saved, heard, taken>> /\ saving' = [saving EXCEPT ![s] = {}]
  BY DEF BatchDone, sorting, counting
<1>2. \A t \in Shards : saving'[t] = saving[t] \/ saving'[t] = {}
  BY <1>1, CountTypes
<1>3. SortedInv(a)' /\ AheadInv(a)'
  BY <1>1 DEF CountInv, SortedInv, AheadInv, Floor
<1>4. SavingInv(a)'
  BY <1>1, <1>2 DEF CountInv, SavingInv
<1>5. Behind(a)' = Behind(a)
  BY <1>1 DEF Behind
<1>6. HeardInv(a)'
  BY <1>1, <1>5 DEF CountInv, HeardInv
<1>7. QED
  BY <1>3, <1>4, <1>6 DEF CountInv

LEMMA InvStep == Inv /\ [Next]_vars => QueueInv' /\ \A a \in Aggregates : CountInv(a)'
<1> SUFFICES ASSUME Inv, [Next]_vars PROVE QueueInv' /\ \A a \in Aggregates : CountInv(a)'
  OBVIOUS
<1>1. TypeOK /\ BatchInv /\ QueueInv /\ \A a \in Aggregates : CountInv(a)
  BY DEF Inv
<1>2. ASSUME NEW a \in Aggregates, CallerStep(a)
      PROVE  QueueInv' /\ \A b \in Aggregates : CountInv(b)'
  <2>1. QueueInv' /\ \A b \in Aggregates : Coming(b)' \subseteq Coming(b)
    BY <1>1, <1>2, CallerQueue
  <2>2. UNCHANGED <<shards, saving, counts, saved, heard, taken>>
    BY <1>2 DEF CallerStep, Save, Send, SendFails, Enqueue, loopVars, sorting, batches, counting, store
  <2>3. QED
    BY <1>1, <2>1, <2>2, CountKept
<1>3. CASE Receive
  <2>1. PICK a \in Aggregates, v \in Nat : Received(a, v)
    BY <1>1, <1>3, ReceiveParts
  <2>2. QueueInv'
    BY <1>1, <2>1, ReceiveQueue DEF Received
  <2>3. QED
    BY <1>1, <2>1, <2>2, CountReceive
<1>4. CASE ReceiveYoung
  <2>1. PICK a \in Aggregates, v \in Nat : Head(queue) = <<a, v>>
    BY <1>1, <1>4, ReceiveFacts DEF ReceiveYoung
  <2>2. queue # <<>> /\ queue' = Tail(queue) /\ UNCHANGED callers
    BY <1>4 DEF ReceiveYoung, own
  <2>3. QueueInv' /\ \A b \in Aggregates : Coming(b)' \subseteq Coming(b)
    BY <1>1, <2>1, <2>2, ReceiveQueue
  <2>4. UNCHANGED <<shards, saving, counts, saved, heard, taken>>
    BY <1>4 DEF ReceiveYoung, sorting, batches, own, counting, store
  <2>5. QED
    BY <1>1, <2>3, <2>4, CountKept
<1>5. CASE MakeMaps
  <2>1. queue' = <<>> /\ UNCHANGED callers
    BY <1>5 DEF MakeMaps, MakeChannel
  <2>2. QueueInv' /\ \A b \in Aggregates : Coming(b)' \subseteq Coming(b)
    BY <1>1, <2>1, RestQueue
  <2>3. QED
    BY <1>1, <1>5, <2>2, CountMake
<1>6. CASE \/ (ReceiveClosed \/ Saved \/ CheckStatus \/ StopClose \/ Start \/ StopBegin) /\ UNCHANGED own
           \/ StopEnd(\A a \in Aggregates : ~ InSave(a)) /\ UNCHANGED own
           \/ UNCHANGED vars
  <2>1. UNCHANGED <<shards, saving, counts, saved, heard, taken, queue, callers>>
    BY <1>6 DEF ReceiveClosed, Saved, CheckStatus, StopClose, Start, StopBegin, StopEnd, vars, loopVars,
                channel, sorting, batches, own, counting, store
  <2>2. QueueInv' /\ \A b \in Aggregates : Coming(b)' \subseteq Coming(b)
    BY <1>1, <2>1, RestQueue
  <2>3. QED
    BY <1>1, <2>1, <2>2, CountKept
<1>7. ASSUME NEW due \in SUBSET timed, TickForgets(due)
      PROVE  QueueInv' /\ \A a \in Aggregates : CountInv(a)'
  <2>1. UNCHANGED <<queue, callers>>
    BY <1>7 DEF TickForgets, Tick, channel
  <2>2. QueueInv' /\ \A b \in Aggregates : Coming(b)' \subseteq Coming(b)
    BY <1>1, <2>1, RestQueue
  <2>3. QED
    BY <1>1, <1>7, <2>2, CountTick
<1>8. ASSUME NEW s \in Shards, SaveStep(s) \/ StoreFails(s)
      PROVE  QueueInv' /\ \A a \in Aggregates : CountInv(a)'
  <2>1. UNCHANGED <<queue, callers>>
    BY <1>8 DEF SaveStep, SaveOne, AllSaved, StoreFails, BatchDone, loopVars, channel
  <2>2. QueueInv' /\ \A b \in Aggregates : Coming(b)' \subseteq Coming(b)
    BY <1>1, <2>1, RestQueue
  <2>3. CASE BatchDone(s)
    BY <1>1, <2>2, <2>3, CountDone
  <2>4. ASSUME NEW item \in saving[s], SaveOne(s, item) PROVE \A a \in Aggregates : CountInv(a)'
    BY <1>1, <2>2, <2>4, CountSave
  <2>5. QED
    BY <1>8, <2>2, <2>3, <2>4 DEF SaveStep, AllSaved, StoreFails
<1>9. QED
  BY <1>2, <1>3, <1>4, <1>5, <1>6, <1>7, <1>8 DEF Next, LifeStep

LEMMA InvHolds == Spec => [](Inv /\ Sending)
<1>1. Init => Inv /\ Sending
  BY TypeInit, BatchInit, QueueInit, CountInit DEF Inv, Init, Sending
<1>2. Inv /\ Sending /\ [Next]_vars => (Inv /\ Sending)'
  BY TypeStep, BatchStep, InvStep DEF Inv
<1>3. QED
  BY <1>1, <1>2, PTL DEF Spec

\* Of the versions from MinDiff on that came for an aggregate in this run, fewer than MinDiff
\* are newer than the last one put into a shard, in whatever order batches are full, grow
\* old and fail.
THEOREM LagBoundedCorrect == Spec => []LagBounded
<1>1. Inv => LagBounded
  <2> SUFFICES ASSUME Inv, NEW a \in Aggregates
               PROVE  Cardinality({v \in heard[a] : v > taken[a]}) < MinDiff
    BY DEF LagBounded
  <2>1. Cardinality(Behind(a)) = IF counts[a] >= MinDiff THEN 0 ELSE counts[a]
    BY DEF Inv, CountInv, HeardInv
  <2>2. counts[a] \in Nat
    BY CountTypes DEF Inv
  <2>3. Cardinality(Behind(a)) < MinDiff
    BY <2>1, <2>2
  <2>4. QED
    BY <2>3 DEF Behind
<1>2. QED
  BY <1>1, InvHolds, PTL

\* The versions that reach the store for an aggregate are at least MinDiff apart, over
\* restarts, batches that are given up and retries.
THEOREM SnapshotsApartCorrect == Spec => SnapshotsApart
<1> DEFINE Apart ==
      \A a \in Aggregates :
        saved'[a] = saved[a]
          \/ saved'[a] >= IF saved[a] = 0 THEN 2 * MinDiff - 1 ELSE saved[a] + MinDiff
<1>1. Inv /\ [Next]_vars => [Apart]_vars
  <2> SUFFICES ASSUME Inv, [Next]_vars, NEW a \in Aggregates, saved'[a] # saved[a]
               PROVE  saved'[a] >= IF saved[a] = 0 THEN 2 * MinDiff - 1 ELSE saved[a] + MinDiff
    OBVIOUS
  <2>1. PICK s \in Shards : \E item \in saving[s] : SaveOne(s, item)
    <3>1. \A b \in Aggregates : ~ CallerStep(b)
      BY DEF CallerStep, Save, Send, SendFails, store
    <3>2. ~ (Receive \/ ReceiveYoung \/ LifeStep \/ UNCHANGED vars)
      BY DEF Receive, ReceiveYoung, LifeStep, MakeMaps, store, own, vars
    <3>3. ~ (\/ (Start \/ StopBegin) /\ UNCHANGED own
             \/ \E due \in SUBSET timed : TickForgets(due))
      BY DEF TickForgets, store, own
    <3>4. \A s \in Shards : ~ (AllSaved(s) \/ StoreFails(s))
      BY DEF AllSaved, StoreFails, BatchDone
    <3>5. QED
      BY <3>1, <3>2, <3>3, <3>4 DEF Next, SaveStep
  <2>2. PICK item \in saving[s] : SaveOne(s, item)
    BY <2>1
  <2>3. TypeOK /\ SavingInv(a) /\ saved[a] \in Nat
    BY CountTypes DEF Inv, CountInv
  <2>4. saved'[a] >= Floor(saved[a]) + MinDiff /\ saved'[a] \in Nat
    BY <2>2, <2>3, SavedStep
  <2>5. QED
    BY <2>3, <2>4 DEF Floor
<1>2. QED
  BY <1>1, InvHolds, PTL DEF Spec, SnapshotsApart
=============================================================================
