----------------------- MODULE PublishedStoreSaverProofs -----------------------
(***************************************************************************)
(* Theorems about PublishedStoreSaver, for any aggregates, versions,       *)
(* shards and batch sizes, any number of starts and a store that fails     *)
(* anywhere or loses its answer.  Those about what the store records       *)
(* exclude that two aggregates get into one batch of the in-memory store   *)
(* as go.mod has it built: the run published_store_saver_shared shows what *)
(* happens then.                                                           *)
(***************************************************************************)
EXTENDS PublishedStoreSaver, SaverLoopProofs

USE PublishedStoreSaverAssumption DEF PublishedStoreSaverAssumption

Labels == {"append", "insert"}

OwnTypeOK ==
  /\ ref \in [Aggregates -> Aggregates \cup {Nowhere}]
  /\ cell \in [Aggregates -> 0..MaxVersion]
  /\ loopCell \in [Shards -> Aggregates \cup {Nowhere}]
  /\ todo \in [Shards -> SUBSET Items]
  /\ cache \in [Aggregates -> (0..MaxVersion) \cup {Missing}]
  /\ wpc \in [Aggregates -> {"idle", "send", "cache", "stuck"}]
  /\ want \in [Aggregates -> 0..MaxVersion]
  /\ given \in [Aggregates -> 0..MaxVersion]

LEMMA TypeParts ==
  /\ TypeOK <=> LoopTypeOK(Items, Labels) /\ OwnTypeOK
  /\ TypeOK' <=> LoopTypeOK(Items, Labels)' /\ OwnTypeOK'
  BY DEF TypeOK, OwnTypeOK, Labels

LEMMA ItemFacts ==
  /\ \A x \in Items : /\ x = <<x[1], x[2]>> /\ x[1] \in Aggregates
                      /\ x[2] \in Nat /\ x[2] \in 1..MaxVersion
                      /\ ShardOf[x[1]] \in Shards
  /\ \A a \in Aggregates : \A v \in 1..MaxVersion : <<a, v>> \in Items
  BY DEF Items

\* What a publisher is about to hand over is a version, and not below what it has handed
\* over before.
WantInv ==
  \A a \in Aggregates : /\ wpc[a] = "send" => want[a] \in 1..MaxVersion /\ given[a] <= want[a]
                        /\ wpc[a] = "cache" => want[a] = given[a]

\* The store works through items of its batch only.
TodoInv == \A s \in Shards : /\ todo[s] \subseteq saving[s]
                             /\ jpc[s] # "insert" => todo[s] = {}

TypeInv == TypeOK /\ LoopInv /\ WantInv /\ TodoInv

LEMMA TypeInit == Init => TypeInv
<1> SUFFICES ASSUME Init PROVE TypeInv
  OBVIOUS
<1>1. LoopTypeOK(Items, Labels) /\ LoopInv
  BY LoopInitial DEF Init
<1>2. OwnTypeOK
  BY DEF Init, OwnTypeOK
<1>3. WantInv /\ TodoInv
  BY DEF Init, WantInv, TodoInv
<1>4. QED
  BY <1>1, <1>2, <1>3, TypeParts DEF TypeInv

-----------------------------------------------------------------------------
(* Types, and what every step is for SaverLoop.                            *)

\* The item that is received, and what is in its shard then.
LEMMA ReceiveFacts ==
  ASSUME TypeInv, Receive
  PROVE  \E new \in Items, s \in Shards, items \in SUBSET Items :
           /\ queue # <<>> /\ queue \in Seq(Items) /\ new = Head(queue)
           /\ s = ShardOf[new[1]] /\ items = KeepGreatest(shards[s], new)
           /\ Sort(s, items) /\ UNCHANGED own
<1> DEFINE new == Head(queue)
           s == ShardOf[new[1]]
<1>1. queue # <<>> /\ Sort(s, KeepGreatest(shards[s], new)) /\ UNCHANGED own
  BY DEF Receive
<1>2. queue \in Seq(Items) /\ shards \in [Shards -> SUBSET Items]
  BY TypeParts DEF TypeInv, LoopTypeOK
<1>3. new \in Items
  BY <1>1, <1>2, TailFacts
<1>4. s \in Shards
  BY <1>3, ItemFacts
<1>5. KeepGreatest(shards[s], new) \in SUBSET Items
  BY <1>2, <1>3, <1>4 DEF KeepGreatest
<1> HIDE DEF new, s
<1>6. new = Head(queue) /\ s = ShardOf[new[1]]
  BY DEF new, s
<1>7. QED
  BY <1>1, <1>2, <1>3, <1>4, <1>5, <1>6

\* The steps of batchSave, apart from those that end it.
Saves(s) == BeginSave(s) \/ (\E item \in todo[s] : SaveOne(s, item)) \/ StoreTimesOut(s)

LEMMA StepIsLoopAction ==
  ASSUME TypeInv, [Next]_vars
  PROVE  LoopAction(Items, Labels)
<1>1. ASSUME NEW a \in Aggregates, CallerStep(a) PROVE LoopAction(Items, Labels)
  <2>1. CASE Send(a)
    <3>1. <<a, want[a]>> \in Items
      BY <2>1, ItemFacts DEF Send, TypeInv, WantInv
    <3>2. QED
      BY <2>1, <3>1 DEF Send, LoopAction
  <2>2. CASE UNCHANGED loopVars
    BY <2>2 DEF LoopAction
  <2>3. QED
    BY <1>1, <2>1, <2>2 DEF CallerStep, GetMissing, Save, SendFails, CacheSaved
<1>2. CASE Receive
  <2>1. PICK s \in Shards, items \in SUBSET Items : queue # <<>> /\ Sort(s, items)
    BY <1>2, ReceiveFacts
  <2>2. QED
    BY <2>1 DEF LoopAction
<1>3. CASE LifeStep
  <2>1. StopEnd(\A a \in Aggregates : ~ InSave(a)) => StopEnd(TRUE)
    BY DEF StopEnd
  <2>2. QED
    BY <1>3, <2>1 DEF LifeStep, LoopStep, LoopAction
<1>4. CASE (Start \/ StopBegin \/ \E due \in SUBSET timed : Tick(due)) /\ UNCHANGED own
  BY <1>4 DEF LoopAction
<1>5. ASSUME NEW s \in Shards, Saves(s) PROVE LoopAction(Items, Labels)
  BY <1>5 DEF Saves, BeginSave, SaveOne, StoreTimesOut, Labels, LoopAction
<1>6. ASSUME NEW s \in Shards, BatchDone(s) PROVE LoopAction(Items, Labels)
  BY <1>6 DEF BatchDone, EndBatch, LoopAction
<1>7. CASE UNCHANGED vars
  BY <1>7 DEF vars, LoopAction
<1>8. QED
  BY <1>1, <1>2, <1>3, <1>4, <1>5, <1>6, <1>7
     DEF Next, SaveStep, Saves, AllSaved, StoreFails

LEMMA LoopPartStep ==
  ASSUME TypeInv, [Next]_vars
  PROVE  LoopTypeOK(Items, Labels)' /\ LoopInv'
<1>1. LoopTypeOK(Items, Labels) /\ LoopInv
  BY TypeParts DEF TypeInv
<1>2. "append" \in Labels /\ "none" \notin Labels
  BY DEF Labels
<1>3. QED
  BY <1>1, <1>2, StepIsLoopAction, LoopTypeStep, LoopInvStep

\* What a turn of SavePublished writes.
LEMMA SaveOneFacts ==
  ASSUME TypeInv, NEW s \in Shards, NEW item \in todo[s], SaveOne(s, item)
  PROVE  /\ item \in Items /\ item \in saving[s] /\ jpc[s] = "insert"
         /\ ref' \in [Aggregates -> Aggregates \cup {Nowhere}]
         /\ cell' \in [Aggregates -> 0..MaxVersion]
         /\ loopCell' \in [Shards -> Aggregates \cup {Nowhere}]
         /\ todo' = [todo EXCEPT ![s] = @ \ {item}]
         /\ UNCHANGED <<loopVars, callers>>
<1>1. OwnTypeOK
  BY TypeParts DEF TypeInv
<1>2. item \in Items /\ item \in saving[s]
  BY <1>1 DEF OwnTypeOK, TypeInv, TodoInv
<1> DEFINE a == item[1]
           first == IF loopCell[s] = Nowhere \/ ~ SharesLoopVariable THEN a ELSE loopCell[s]
           target == IF ref[a] = Nowhere THEN first ELSE ref[a]
           written == {target} \cup IF SharesLoopVariable THEN {loopCell[s]} ELSE {}
<1>3. /\ jpc[s] = "insert"
      /\ ref' = [ref EXCEPT ![a] = target]
      /\ cell' = [b \in Aggregates |-> IF b \in written THEN item[2] ELSE cell[b]]
      /\ loopCell' = [loopCell EXCEPT ![s] = IF ref[a] = Nowhere THEN first ELSE @]
      /\ todo' = [todo EXCEPT ![s] = @ \ {item}]
      /\ UNCHANGED <<loopVars, callers>>
  BY DEF SaveOne
<1>4. a \in Aggregates /\ item[2] \in 0..MaxVersion
  BY <1>2, ItemFacts
<1>5. first \in Aggregates /\ target \in Aggregates
  BY <1>1, <1>4 DEF OwnTypeOK
<1> HIDE DEF a, first, target, written
<1>6. /\ ref' \in [Aggregates -> Aggregates \cup {Nowhere}]
      /\ cell' \in [Aggregates -> 0..MaxVersion]
      /\ loopCell' \in [Shards -> Aggregates \cup {Nowhere}]
  BY <1>1, <1>3, <1>4, <1>5 DEF OwnTypeOK
<1>7. QED
  BY <1>2, <1>3, <1>6

LEMMA OwnStep ==
  ASSUME TypeInv, [Next]_vars
  PROVE  OwnTypeOK' /\ WantInv' /\ TodoInv'
<1>0. LoopTypeOK(Items, Labels) /\ OwnTypeOK /\ WantInv /\ TodoInv /\ BatchInv
  BY TypeParts DEF TypeInv, LoopInv
<1>1. ASSUME UNCHANGED <<saving, jpc, todo>> PROVE TodoInv'
  BY <1>0, <1>1 DEF TodoInv
<1>2. ASSUME UNCHANGED own
      PROVE  OwnTypeOK' /\ WantInv'
  BY <1>0, <1>2 DEF OwnTypeOK, WantInv, own, stores, callers
<1>3. ASSUME NEW a \in Aggregates, CallerStep(a) PROVE OwnTypeOK' /\ WantInv' /\ TodoInv'
  <2>1. Recorded(a) \in 0..MaxVersion
    BY <1>0 DEF OwnTypeOK, Recorded
  <2>2. CASE GetMissing(a)
    BY <1>0, <1>1, <2>1, <2>2
       DEF OwnTypeOK, WantInv, GetMissing, stores, loopVars, batches
  <2>3. ASSUME NEW v \in 1..MaxVersion, Save(a, v) PROVE OwnTypeOK' /\ WantInv' /\ TodoInv'
    <3>1. v \in 0..MaxVersion /\ given[a] <= v
      BY <1>0, <2>3 DEF Save, OwnTypeOK
    <3>2. QED
      BY <1>0, <1>1, <2>3, <3>1 DEF OwnTypeOK, WantInv, Save, stores, loopVars, batches
  <2>4. CASE Send(a)
    BY <1>0, <1>1, <2>4 DEF OwnTypeOK, WantInv, Send, Enqueue, stores, batches
  <2>5. CASE SendFails(a)
    BY <1>0, <1>1, <2>5 DEF OwnTypeOK, WantInv, SendFails, stores, loopVars, batches
  <2>6. CASE CacheSaved(a)
    BY <1>0, <1>1, <2>6 DEF OwnTypeOK, WantInv, CacheSaved, stores, loopVars, batches
  <2>7. QED
    BY <1>3, <2>2, <2>3, <2>4, <2>5, <2>6 DEF CallerStep
<1>4. CASE Receive
  <2>1. PICK s \in Shards, items \in SUBSET Items : Sort(s, items) /\ UNCHANGED own
    BY <1>4, ReceiveFacts
  <2>2. \A t \in Shards : saving[t] = {} /\ jpc'[t] # "insert" /\ jpc[t] = "none"
    BY <1>0, <2>1, SortFacts
  <2>3. \A t \in Shards : todo'[t] = {}
    BY <1>0, <2>1, <2>2 DEF TodoInv, own, stores
  <2>4. QED
    BY <1>2, <2>1, <2>2, <2>3 DEF TodoInv
<1>5. ASSUME NEW due, due \subseteq timed, Tick(due), UNCHANGED own
      PROVE  OwnTypeOK' /\ WantInv' /\ TodoInv'
  <2>1. \A t \in Shards : saving[t] = {} /\ jpc'[t] # "insert" /\ jpc[t] = "none"
    BY <1>0, <1>5, TickFacts
  <2>2. \A t \in Shards : todo'[t] = {}
    BY <1>0, <1>5, <2>1 DEF TodoInv, own, stores
  <2>3. QED
    BY <1>2, <1>5, <2>1, <2>2 DEF TodoInv
<1>6. CASE \/ LifeStep
           \/ (Start \/ StopBegin) /\ UNCHANGED own
           \/ UNCHANGED vars
  <2>1. UNCHANGED <<saving, jpc, own>>
    BY <1>6 DEF LifeStep, LoopStep, StopClose, StopEnd, MakeChannel, ReceiveClosed, Saved,
                CheckStatus, Start, StopBegin, vars, loopVars, batches
  <2>2. QED
    BY <1>1, <1>2, <2>1 DEF own, stores
<1>7. ASSUME NEW s \in Shards, BeginSave(s) \/ StoreTimesOut(s)
      PROVE  OwnTypeOK' /\ WantInv' /\ TodoInv'
  <2>1. /\ UNCHANGED <<callers, ref, cell, saving>>
        /\ \/ todo' = [todo EXCEPT ![s] = saving[s]] /\ Goto(s, "insert") /\ UNCHANGED loopCell
           \/ todo' = [todo EXCEPT ![s] = {}] /\ loopCell' = [loopCell EXCEPT ![s] = Nowhere]
    BY <1>7 DEF BeginSave, StoreTimesOut, Goto
  <2>2. jpc' = [jpc EXCEPT ![s] = "insert"] \/ jpc' = [jpc EXCEPT ![s] = "append"]
    BY <1>7 DEF BeginSave, StoreTimesOut, Goto
  <2>3. Goto(s, "insert") => jpc' = [jpc EXCEPT ![s] = "insert"]
    BY DEF Goto
  <2>4. saving \in [Shards -> SUBSET Items] /\ jpc \in [Shards -> Labels \cup {"none"}]
    BY <1>0 DEF LoopTypeOK
  <2>5. OwnTypeOK' /\ WantInv'
    BY <1>0, <2>1, <2>4 DEF OwnTypeOK, WantInv, callers
  <2>6. TodoInv'
    BY <1>0, <2>1, <2>2, <2>3, <2>4 DEF OwnTypeOK, TodoInv
  <2>7. QED
    BY <2>5, <2>6
<1>8. ASSUME NEW s \in Shards, NEW item \in todo[s], SaveOne(s, item)
      PROVE  OwnTypeOK' /\ WantInv' /\ TodoInv'
  BY <1>0, <1>8, SaveOneFacts
     DEF OwnTypeOK, WantInv, TodoInv, callers, loopVars, batches
<1>9. ASSUME NEW s \in Shards, BatchDone(s) PROVE OwnTypeOK' /\ WantInv' /\ TodoInv'
  <2>1. saving \in [Shards -> SUBSET Items] /\ jpc \in [Shards -> Labels \cup {"none"}]
    BY <1>0 DEF LoopTypeOK
  <2>2. OwnTypeOK' /\ WantInv'
    BY <1>0, <1>9 DEF BatchDone, OwnTypeOK, WantInv, callers
  <2>3. TodoInv'
    BY <1>0, <1>9, <2>1 DEF BatchDone, OwnTypeOK, TodoInv
  <2>4. QED
    BY <2>2, <2>3
<1>10. ASSUME NEW s \in Shards, SaveStep(s) \/ StoreFails(s) \/ StoreTimesOut(s)
       PROVE  OwnTypeOK' /\ WantInv' /\ TodoInv'
  BY <1>7, <1>8, <1>9, <1>10 DEF SaveStep, AllSaved, StoreFails
<1>11. QED
  BY <1>3, <1>4, <1>5, <1>6, <1>10 DEF Next

LEMMA TypeStep == TypeInv /\ [Next]_vars => TypeInv'
<1> SUFFICES ASSUME TypeInv, [Next]_vars PROVE TypeInv'
  OBVIOUS
<1>1. TypeOK' /\ LoopInv'
  BY LoopPartStep, OwnStep, TypeParts
<1>2. QED
  BY <1>1, OwnStep DEF TypeInv

LEMMA TypeAlways == Spec => []TypeInv
  BY TypeInit, TypeStep, PTL DEF Spec

(* The variables of PublishedStoreSaver have their types in every reachable *)
(* state, also where the turns of a loop share its variable.               *)
THEOREM TypeCorrect == Spec => []TypeOK
<1>1. TypeInv => TypeOK
  BY DEF TypeInv
<1>2. QED
  BY <1>1, TypeAlways, PTL

-----------------------------------------------------------------------------
(* What the store records.                                                 *)

SameAggregate(x, y) == x[1] = y[1]

Between(x) == Recorded(x[1]) <= x[2] /\ x[2] <= given[x[1]]

\* The channel keeps the order in which a publisher hands over its versions.
QueueInv ==
  /\ \A i \in DOMAIN queue : Between(queue[i])
  /\ \A i, j \in DOMAIN queue :
       i < j /\ SameAggregate(queue[i], queue[j]) => queue[i][2] <= queue[j][2]

\* A shard, or the batch made of it, holds one item of an aggregate; what comes later
\* is not below it.
BatchesInv ==
  \A s \in Shards :
    /\ shards[s] = {} \/ saving[s] = {}
    /\ \A x \in shards[s] \cup saving[s] :
         /\ ShardOf[x[1]] = s
         /\ Between(x)
         /\ \A y \in shards[s] \cup saving[s] : SameAggregate(x, y) => x = y
         /\ \A i \in DOMAIN queue : SameAggregate(x, queue[i]) => x[2] <= queue[i][2]

StoreInv ==
  \A a \in Aggregates : /\ ref[a] \in {Nowhere, a}
                        /\ Recorded(a) <= given[a]
                        /\ cache[a] # Missing => cache[a] <= given[a]

OrderInv == QueueInv /\ BatchesInv /\ StoreInv

\* Either every turn of a loop has its own variable, or SavePublished is never given two
\* aggregates, as each has a shard for itself.
NothingShared ==
  ~ SharesLoopVariable \/ \A a, b \in Aggregates : ShardOf[a] = ShardOf[b] => a = b

\* The loop variable of a shard is the struct of an aggregate of the shard.
LoopCellInv == \A s \in Shards : loopCell[s] # Nowhere => ShardOf[loopCell[s]] = s

NoneFalls == \A a \in Aggregates : Recorded(a) <= Recorded(a)'

LEMMA OrderInit == Init => OrderInv /\ LoopCellInv
  BY DEF Init, LoopInit, OrderInv, QueueInv, BatchesInv, StoreInv, Recorded, LoopCellInv

LEMMA Numbers ==
  ASSUME TypeInv
  PROVE  /\ \A a \in Aggregates : Recorded(a) \in Nat /\ given[a] \in Nat /\ want[a] \in Nat
         /\ \A i \in DOMAIN queue : queue[i] \in Items
         /\ \A s \in Shards : shards[s] \subseteq Items /\ saving[s] \subseteq Items
         /\ queue \in Seq(Items)
<1>1. LoopTypeOK(Items, Labels) /\ OwnTypeOK
  BY TypeParts DEF TypeInv
<1>2. queue \in Seq(Items)
  BY <1>1 DEF LoopTypeOK
<1>3. \A i \in DOMAIN queue : queue[i] \in Items
  BY <1>2
<1>4. \A a \in Aggregates : Recorded(a) \in Nat /\ given[a] \in Nat /\ want[a] \in Nat
  BY <1>1 DEF OwnTypeOK, Recorded
<1>5. QED
  BY <1>1, <1>2, <1>3, <1>4 DEF LoopTypeOK

\* Nothing is lost by handing over more, and by forgetting what is on the way.
LEMMA OrderFrame ==
  ASSUME TypeInv, OrderInv, UNCHANGED <<ref, cell, given, cache>>,
         UNCHANGED queue \/ queue' = <<>>,
         \A s \in Shards : /\ shards'[s] = shards[s] \/ shards'[s] = {}
                           /\ saving'[s] = saving[s] \/ saving'[s] = {}
  PROVE  OrderInv' /\ NoneFalls
<1>1. \A a \in Aggregates : Recorded(a)' = Recorded(a) /\ Recorded(a) \in Nat
  BY Numbers DEF Recorded
<1>2. StoreInv' /\ NoneFalls
  BY <1>1 DEF OrderInv, StoreInv, NoneFalls
<1>3. \A x \in Items : Between(x) <=> Between(x)'
  BY <1>1, ItemFacts DEF Between
<1>4. \A i \in DOMAIN queue' : i \in DOMAIN queue /\ queue'[i] = queue[i] /\ queue[i] \in Items
  BY Numbers
<1>5. QueueInv'
  BY <1>3, <1>4 DEF OrderInv, QueueInv, SameAggregate
<1>6. BatchesInv'
  <2>1. \A s \in Shards : /\ shards'[s] \cup saving'[s] \subseteq shards[s] \cup saving[s]
                          /\ shards[s] \cup saving[s] \subseteq Items
    BY Numbers
  <2>2. QED
    BY <1>3, <1>4, <2>1 DEF OrderInv, BatchesInv, SameAggregate
<1>7. QED
  BY <1>2, <1>5, <1>6 DEF OrderInv

LEMMA OrderSend ==
  ASSUME TypeInv, OrderInv, NEW a \in Aggregates, Send(a)
  PROVE  OrderInv' /\ NoneFalls
<1>0. PICK new \in Items : new = <<a, want[a]>>
  BY ItemFacts DEF TypeInv, WantInv, Send
<1>1. /\ queue' = Append(queue, new) /\ given' = [given EXCEPT ![a] = want[a]]
      /\ UNCHANGED <<ref, cell, cache, shards, saving>>
  BY <1>0 DEF Send, Enqueue, stores, sorting, batches
<1>2. given[a] <= want[a] /\ new[1] = a /\ new[2] = want[a]
  BY <1>0 DEF TypeInv, WantInv, Send
<1>3. \A b \in Aggregates : /\ given[b] <= given'[b] /\ given[b] \in Nat /\ given'[b] \in Nat
                            /\ Recorded(b)' = Recorded(b) /\ Recorded(b) \in Nat
  BY <1>1, <1>2, Numbers, TypeParts DEF TypeInv, OwnTypeOK, Recorded
<1>4. given'[a] = want[a]
  BY <1>1, TypeParts DEF TypeInv, OwnTypeOK
<1>5. StoreInv' /\ NoneFalls
  <2>1. \A b \in Aggregates : cache[b] # Missing => cache[b] \in Nat
    BY TypeParts DEF TypeInv, OwnTypeOK
  <2>2. QED
    BY <1>1, <1>3, <2>1 DEF OrderInv, StoreInv, NoneFalls
<1>6. \A x \in Items : Between(x) => Between(x)'
  BY <1>3, ItemFacts DEF Between
<1>7. /\ DOMAIN queue' = DOMAIN queue \cup {Len(queue) + 1} /\ Len(queue) \in Nat
      /\ \A i \in DOMAIN queue : /\ queue'[i] = queue[i] /\ queue[i] \in Items
                                 /\ i \in Nat /\ i <= Len(queue)
      /\ queue'[Len(queue) + 1] = new
  BY <1>1, <1>2, Numbers, AppendFacts
<1>8. \A x \in Items : Between(x) /\ SameAggregate(x, new) => x[2] <= new[2]
  BY <1>2, ItemFacts, Numbers DEF Between, SameAggregate
<1>9. Between(new)'
  BY <1>2, <1>3, <1>4, Numbers DEF Between, OrderInv, StoreInv
<1>10. QueueInv'
  <2>1. ASSUME NEW i \in DOMAIN queue' PROVE \E x \in Items : x = queue'[i] /\ Between(x)'
    BY <1>6, <1>7, <1>9 DEF OrderInv, QueueInv
  <2>2. ASSUME NEW i \in DOMAIN queue', NEW j \in DOMAIN queue', i < j,
               SameAggregate(queue'[i], queue'[j])
        PROVE  queue'[i][2] <= queue'[j][2]
    <3>1. i \in DOMAIN queue
      BY <1>7, <2>2
    <3>2. CASE j \in DOMAIN queue
      BY <1>7, <2>2, <3>1, <3>2 DEF OrderInv, QueueInv
    <3>3. CASE j = Len(queue) + 1
      BY <1>7, <1>8, <2>2, <3>1, <3>3 DEF OrderInv, QueueInv
    <3>4. QED
      BY <1>7, <3>2, <3>3
  <2>3. (\A i \in DOMAIN queue : Between(queue[i]))'
    BY <2>1
  <2>4. QED
    BY <2>2, <2>3 DEF QueueInv, SameAggregate
<1>11. BatchesInv'
  <2>1. \A s \in Shards : shards[s] \cup saving[s] \subseteq Items
    BY Numbers
  <2>2. ASSUME NEW s \in Shards, NEW x \in shards[s] \cup saving[s],
               NEW i \in DOMAIN queue', SameAggregate(x, queue'[i])
        PROVE  x[2] <= queue'[i][2]
    BY <1>7, <1>8, <2>1, <2>2 DEF OrderInv, BatchesInv
  <2>3. \A s \in Shards : \A x \in shards[s] \cup saving[s] : Between(x)'
    BY <1>6, <2>1 DEF OrderInv, BatchesInv
  <2>4. QED
    BY <1>1, <2>2, <2>3 DEF OrderInv, BatchesInv, SameAggregate
<1>12. QED
  BY <1>5, <1>10, <1>11 DEF OrderInv

\* A version that comes out of the channel takes the place of what its shard holds of
\* its aggregate.
LEMMA KeepGreatestFacts ==
  ASSUME NEW items \in SUBSET Items, NEW new \in Items,
         \A x, y \in items : SameAggregate(x, y) => x = y
  PROVE  /\ KeepGreatest(items, new) \subseteq items \cup {new}
         /\ \A x, y \in KeepGreatest(items, new) : SameAggregate(x, y) => x = y
  BY ItemFacts DEF KeepGreatest, SameAggregate

LEMMA OrderReceive ==
  ASSUME TypeInv, OrderInv, Receive
  PROVE  OrderInv' /\ NoneFalls
<1>1. PICK new \in Items, s \in Shards, items \in SUBSET Items :
           /\ queue # <<>> /\ queue \in Seq(Items) /\ new = Head(queue)
           /\ s = ShardOf[new[1]] /\ items = KeepGreatest(shards[s], new)
           /\ Sort(s, items) /\ UNCHANGED own
  BY ReceiveFacts
<1>2. LoopTypeOK(Items, Labels) /\ BatchInv
  BY TypeParts DEF TypeInv, LoopInv
<1>3. /\ queue' = Tail(queue)
      /\ \A t \in Shards : saving[t] = {}
      /\ \A t \in Shards \ {s} : shards'[t] = shards[t] /\ saving'[t] = {}
      /\ \/ shards'[s] = items /\ saving'[s] = {}
         \/ shards'[s] = {} /\ saving'[s] = items
  BY <1>1, <1>2, SortFacts
<1>4. /\ 1 \in DOMAIN queue /\ new = queue[1]
      /\ \A i \in DOMAIN queue' : /\ i \in Nat /\ i + 1 \in DOMAIN queue /\ 1 < i + 1
                                  /\ queue'[i] = queue[i + 1] /\ queue[i + 1] \in Items
  BY <1>1, <1>3, TailFacts, Numbers
<1>5. UNCHANGED <<ref, cell, given, cache>>
  BY <1>1 DEF own, stores, callers
<1>6. \A a \in Aggregates : Recorded(a)' = Recorded(a) /\ Recorded(a) \in Nat
  BY <1>5, Numbers DEF Recorded
<1>7. StoreInv' /\ NoneFalls
  BY <1>5, <1>6 DEF OrderInv, StoreInv, NoneFalls
<1>8. \A x \in Items : Between(x) <=> Between(x)'
  BY <1>5, <1>6, ItemFacts DEF Between
<1>9. QueueInv'
  <2>1. ASSUME NEW i \in DOMAIN queue' PROVE \E x \in Items : x = queue'[i] /\ Between(x)'
    BY <1>4, <1>8 DEF OrderInv, QueueInv
  <2>2. ASSUME NEW i \in DOMAIN queue', NEW j \in DOMAIN queue', i < j,
               SameAggregate(queue'[i], queue'[j])
        PROVE  queue'[i][2] <= queue'[j][2]
    <3>1. i + 1 < j + 1
      BY <1>4, <2>2
    <3>2. QED
      BY <1>4, <2>2, <3>1 DEF OrderInv, QueueInv
  <2>3. (\A i \in DOMAIN queue : Between(queue[i]))'
    BY <2>1
  <2>4. QED
    BY <2>2, <2>3 DEF QueueInv, SameAggregate
<1>10. BatchesInv'
  <2>1. shards[s] \in SUBSET Items /\ \A x, y \in shards[s] : SameAggregate(x, y) => x = y
    BY <1>2 DEF LoopTypeOK, OrderInv, BatchesInv
  <2>2. /\ items \subseteq shards[s] \cup {new}
        /\ \A x, y \in items : SameAggregate(x, y) => x = y
    BY <1>1, <2>1, KeepGreatestFacts
  <2>3. \A t \in Shards : shards'[t] = {} \/ saving'[t] = {}
    BY <1>3
  <2>4. \A t \in Shards : shards'[t] \cup saving'[t] \subseteq IF t = s THEN items
                                                               ELSE shards[t]
    BY <1>3
  <2>5. ASSUME NEW t \in Shards, NEW x \in shards'[t] \cup saving'[t]
        PROVE  /\ x \in Items /\ (x \in shards[t] \/ (x = new /\ t = s))
               /\ ShardOf[x[1]] = t /\ Between(x)
    <3>1. x \in Items /\ (x \in shards[t] \/ (x = new /\ t = s))
      BY <1>2, <2>2, <2>4 DEF LoopTypeOK
    <3>2. Between(new)
      BY <1>4 DEF OrderInv, QueueInv
    <3>3. QED
      BY <1>1, <3>1, <3>2 DEF OrderInv, BatchesInv
  <2>6. ASSUME NEW t \in Shards, NEW x \in shards'[t] \cup saving'[t],
               NEW y \in shards'[t] \cup saving'[t], SameAggregate(x, y)
        PROVE  x = y
    BY <2>2, <2>4, <2>6 DEF OrderInv, BatchesInv
  <2>7. ASSUME NEW t \in Shards, NEW x \in shards'[t] \cup saving'[t],
               NEW i \in DOMAIN queue', SameAggregate(x, queue'[i])
        PROVE  x[2] <= queue'[i][2]
    <3>1. CASE x \in shards[t]
      BY <1>4, <2>7, <3>1 DEF OrderInv, BatchesInv
    <3>2. CASE x = new
      BY <1>4, <2>7, <3>2 DEF OrderInv, QueueInv
    <3>3. QED
      BY <2>5, <3>1, <3>2
  <2>8. ASSUME NEW t \in Shards, NEW x \in shards'[t] \cup saving'[t] PROVE Between(x)'
    BY <1>8, <2>5
  <2>9. QED
    BY <2>3, <2>5, <2>6, <2>7, <2>8 DEF BatchesInv, SameAggregate
<1>11. QED
  BY <1>7, <1>9, <1>10 DEF OrderInv

LEMMA OrderTick ==
  ASSUME TypeInv, OrderInv, NEW due, due \subseteq timed, Tick(due), UNCHANGED own
  PROVE  OrderInv' /\ NoneFalls
<1>1. BatchInv
  BY DEF TypeInv, LoopInv
<1>2. /\ UNCHANGED queue
      /\ \A s \in Shards : \/ shards'[s] = shards[s] /\ saving'[s] = {}
                           \/ shards'[s] = {} /\ saving'[s] = shards[s]
  BY <1>1, TickFacts DEF channel
<1>3. UNCHANGED <<ref, cell, given, cache>>
  BY DEF own, stores, callers
<1>4. \A a \in Aggregates : Recorded(a)' = Recorded(a) /\ Recorded(a) \in Nat
  BY <1>3, Numbers DEF Recorded
<1>5. StoreInv' /\ NoneFalls
  BY <1>3, <1>4 DEF OrderInv, StoreInv, NoneFalls
<1>6. \A x \in Items : Between(x) <=> Between(x)'
  BY <1>3, <1>4, ItemFacts DEF Between
<1>7. QueueInv'
  BY <1>2, <1>6, Numbers DEF OrderInv, QueueInv, SameAggregate
<1>8. BatchesInv'
  <2>1. \A s \in Shards : /\ shards'[s] \cup saving'[s] \subseteq shards[s]
                          /\ shards[s] \subseteq Items
    BY <1>2, Numbers
  <2>2. QED
    BY <1>2, <1>6, <2>1 DEF OrderInv, BatchesInv, SameAggregate
<1>9. QED
  BY <1>5, <1>7, <1>8 DEF OrderInv

LEMMA LoopCellStep ==
  ASSUME TypeInv, OrderInv, LoopCellInv, [Next]_vars
  PROVE  LoopCellInv'
<1>1. loopCell \in [Shards -> Aggregates \cup {Nowhere}]
  BY TypeParts DEF TypeInv, OwnTypeOK
<1>2. ASSUME UNCHANGED loopCell PROVE LoopCellInv'
  BY <1>2 DEF LoopCellInv
<1>3. ASSUME NEW s \in Shards, loopCell' = [loopCell EXCEPT ![s] = Nowhere] PROVE LoopCellInv'
  BY <1>1, <1>3 DEF LoopCellInv
<1>4. ASSUME NEW s \in Shards, NEW item \in todo[s], SaveOne(s, item) PROVE LoopCellInv'
  <2>1. item \in saving[s]
    BY <1>4, SaveOneFacts
  <2>2. ShardOf[item[1]] = s
    BY <2>1 DEF OrderInv, BatchesInv
  <2>3. PICK c : loopCell' = [loopCell EXCEPT ![s] = c] /\ c \in {item[1], loopCell[s]}
    BY <1>4 DEF SaveOne
  <2>4. loopCell'[s] = c /\ \A t \in Shards \ {s} : loopCell'[t] = loopCell[t]
    BY <1>1, <2>3
  <2>5. QED
    BY <2>2, <2>3, <2>4 DEF LoopCellInv
<1>5. ASSUME NEW a \in Aggregates, CallerStep(a) PROVE LoopCellInv'
  BY <1>2, <1>5 DEF CallerStep, GetMissing, CacheSaved, Send, SendFails, Save, stores
<1>6. CASE Receive \/ LifeStep \/ UNCHANGED own
  BY <1>2, <1>6 DEF Receive, LifeStep, own, stores
<1>7. ASSUME NEW s \in Shards, BeginSave(s) PROVE LoopCellInv'
  BY <1>2, <1>7 DEF BeginSave
<1>8. ASSUME NEW s \in Shards, BatchDone(s) \/ StoreTimesOut(s) PROVE LoopCellInv'
  BY <1>3, <1>8 DEF BatchDone, StoreTimesOut
<1>9. QED
  BY <1>4, <1>5, <1>6, <1>7, <1>8 DEF Next, SaveStep, AllSaved, StoreFails, vars

\* A turn of SavePublished records one item, and nothing else.
LEMMA RecordsOne ==
  ASSUME NothingShared, TypeInv, OrderInv, LoopCellInv,
         NEW s \in Shards, NEW item \in todo[s], SaveOne(s, item)
  PROVE  \A b \in Aggregates :
           /\ ref'[b] \in {Nowhere, b}
           /\ Recorded(b)' = IF b = item[1] THEN item[2] ELSE Recorded(b)
<1> DEFINE a == item[1]
           first == IF loopCell[s] = Nowhere \/ ~ SharesLoopVariable THEN a ELSE loopCell[s]
           target == IF ref[a] = Nowhere THEN first ELSE ref[a]
           written == {target} \cup IF SharesLoopVariable THEN {loopCell[s]} ELSE {}
<1>1. OwnTypeOK /\ StoreInv
  BY TypeParts DEF TypeInv, OrderInv
<1>2. a \in Aggregates /\ a # Nowhere /\ ShardOf[a] = s
  <2>1. item \in Items /\ item \in saving[s]
    BY SaveOneFacts
  <2>2. QED
    BY <2>1, ItemFacts DEF OrderInv, BatchesInv
<1>3. SharesLoopVariable => loopCell[s] \in {Nowhere, a}
  BY <1>1, <1>2 DEF LoopCellInv, NothingShared, OwnTypeOK
<1>4. target = a /\ written \subseteq {a, Nowhere} /\ a \in written
  BY <1>1, <1>2, <1>3 DEF StoreInv
<1>5. /\ ref' = [ref EXCEPT ![a] = target]
      /\ cell' = [b \in Aggregates |-> IF b \in written THEN item[2] ELSE cell[b]]
  BY DEF SaveOne
<1> HIDE DEF a, first, target, written
<1>6. \A b \in Aggregates : b \in written <=> b = a
  BY <1>4
<1>7. \A b \in Aggregates : /\ ref'[b] = IF b = a THEN a ELSE ref[b]
                            /\ cell'[b] = IF b = a THEN item[2] ELSE cell[b]
  BY <1>1, <1>2, <1>4, <1>5, <1>6 DEF OwnTypeOK
<1>8. \A b \in Aggregates : Recorded(b)' = IF b = a THEN item[2] ELSE Recorded(b)
  BY <1>1, <1>2, <1>7 DEF Recorded, StoreInv
<1>9. QED
  BY <1>1, <1>7, <1>8 DEF a, StoreInv

LEMMA OrderSaveOne ==
  ASSUME NothingShared, TypeInv, OrderInv, LoopCellInv,
         NEW s \in Shards, NEW item \in todo[s], SaveOne(s, item)
  PROVE  OrderInv' /\ NoneFalls
<1>1. /\ item \in Items /\ item \in saving[s]
      /\ UNCHANGED <<queue, shards, saving, cache, given>>
  BY SaveOneFacts DEF loopVars, channel, sorting, batches, callers
<1>2. /\ item[1] \in Aggregates /\ item[2] \in Nat
      /\ \A b \in Aggregates :
           /\ ref'[b] \in {Nowhere, b}
           /\ Recorded(b)' = IF b = item[1] THEN item[2] ELSE Recorded(b)
           /\ Recorded(b) \in Nat /\ given[b] \in Nat
  BY <1>1, RecordsOne, ItemFacts, Numbers DEF OrderInv
<1>3. Between(item) /\ ShardOf[item[1]] = s /\ shards[s] = {}
  BY <1>1 DEF OrderInv, BatchesInv
<1>4. StoreInv' /\ NoneFalls
  BY <1>1, <1>2, <1>3 DEF OrderInv, StoreInv, NoneFalls, Between
<1>5. \A x \in Items : Between(x) /\ (SameAggregate(item, x) => item[2] <= x[2])
                          => Between(x)'
  BY <1>1, <1>2, ItemFacts DEF Between, SameAggregate
<1>6. QueueInv'
  <2>1. \A i \in DOMAIN queue : SameAggregate(item, queue[i]) => item[2] <= queue[i][2]
    BY <1>1 DEF OrderInv, BatchesInv
  <2>2. QED
    BY <1>1, <1>5, <2>1, Numbers DEF OrderInv, QueueInv, SameAggregate
<1>7. BatchesInv'
  <2>1. ASSUME NEW t \in Shards, NEW x \in shards[t] \cup saving[t] PROVE Between(x)'
    <3>1. x \in Items /\ Between(x)
      BY Numbers DEF OrderInv, BatchesInv
    <3>2. ASSUME SameAggregate(item, x) PROVE x = item
      <4>1. t = s
        BY <1>3, <3>2 DEF OrderInv, BatchesInv, SameAggregate
      <4>2. QED
        BY <1>1, <3>2, <4>1 DEF OrderInv, BatchesInv
    <3>3. QED
      BY <1>2, <1>5, <3>1, <3>2
  <2>2. QED
    BY <1>1, <2>1 DEF OrderInv, BatchesInv, SameAggregate
<1>8. QED
  BY <1>4, <1>6, <1>7 DEF OrderInv

LEMMA OrderStep ==
  ASSUME NothingShared, TypeInv, OrderInv, LoopCellInv, [Next]_vars
  PROVE  OrderInv' /\ NoneFalls
<1>0. BatchInv /\ OwnTypeOK
  BY TypeParts DEF TypeInv, LoopInv
<1>1. ASSUME UNCHANGED <<queue, shards, saving, ref, cell, given, cache>>
      PROVE  OrderInv' /\ NoneFalls
  BY <1>1, OrderFrame
<1>2. ASSUME NEW a \in Aggregates, CallerStep(a) PROVE OrderInv' /\ NoneFalls
  <2>1. CASE GetMissing(a) \/ CacheSaved(a)
    <3>1. UNCHANGED <<queue, shards, saving, ref, cell, given>>
      BY <2>1 DEF GetMissing, CacheSaved, loopVars, channel, sorting, batches, stores
    <3>2. /\ \A b \in Aggregates \ {a} : cache'[b] = cache[b]
          /\ cache'[a] \in {Recorded(a), want[a], cache[a]}
          /\ cache'[a] = want[a] => want[a] = given[a] \/ cache'[a] \in {Recorded(a), cache[a]}
      BY <1>0, <2>1 DEF GetMissing, CacheSaved, OwnTypeOK, TypeInv, WantInv
    <3>3. \A b \in Aggregates : /\ Recorded(b)' = Recorded(b) /\ Recorded(b) <= given[b]
                                /\ Recorded(b) \in Nat /\ given[b] \in Nat
      BY <3>1, Numbers DEF Recorded, OrderInv, StoreInv
    <3>4. StoreInv' /\ NoneFalls
      BY <3>1, <3>2, <3>3 DEF OrderInv, StoreInv, NoneFalls
    <3>5. \A x \in Items : Between(x) <=> Between(x)'
      BY <3>1, <3>3, ItemFacts DEF Between
    <3>6. QueueInv'
      BY <3>1, <3>5, Numbers DEF OrderInv, QueueInv, SameAggregate
    <3>7. BatchesInv'
      <4>1. \A s \in Shards : shards[s] \cup saving[s] \subseteq Items
        BY Numbers
      <4>2. QED
        BY <3>1, <3>5, <4>1 DEF OrderInv, BatchesInv, SameAggregate
    <3>8. QED
      BY <3>4, <3>6, <3>7 DEF OrderInv
  <2>2. CASE Send(a)
    BY <2>2, OrderSend
  <2>3. CASE SendFails(a) \/ \E v \in 1..MaxVersion : Save(a, v)
    BY <1>1, <2>3 DEF SendFails, Save, loopVars, channel, sorting, batches, stores
  <2>4. QED
    BY <1>2, <2>1, <2>2, <2>3 DEF CallerStep
<1>3. CASE Receive
  BY <1>3, OrderReceive
<1>4. ASSUME NEW due, due \subseteq timed, Tick(due), UNCHANGED own
      PROVE  OrderInv' /\ NoneFalls
  BY <1>4, OrderTick
<1>5. CASE MakeChannel /\ UNCHANGED own
  <2>1. /\ queue' = <<>> /\ UNCHANGED saving /\ \A s \in Shards : shards'[s] = {}
        /\ UNCHANGED <<ref, cell, given, cache>>
    BY <1>5 DEF MakeChannel, batches, own, stores, callers
  <2>2. QED
    BY <2>1, OrderFrame
<1>6. CASE \/ (LifeStep /\ ~ MakeChannel)
           \/ (Start \/ StopBegin) /\ UNCHANGED own
           \/ UNCHANGED vars
  BY <1>1, <1>6 DEF LifeStep, LoopStep, StopClose, StopEnd, ReceiveClosed, Saved, CheckStatus,
                    Start, StopBegin, vars, loopVars, channel, sorting, batches, own, stores,
                    callers
<1>7. ASSUME NEW s \in Shards, BeginSave(s) \/ StoreTimesOut(s)
      PROVE  OrderInv' /\ NoneFalls
  <2>1. Goto(s, "insert") \/ Goto(s, "append")
    BY <1>7 DEF BeginSave, StoreTimesOut
  <2>2. UNCHANGED <<queue, shards, saving>>
    BY <2>1 DEF Goto, channel, sorting
  <2>3. QED
    BY <1>1, <1>7, <2>2 DEF BeginSave, StoreTimesOut, callers
<1>8. ASSUME NEW s \in Shards, NEW item \in todo[s], SaveOne(s, item)
      PROVE  OrderInv' /\ NoneFalls
  BY <1>8, OrderSaveOne
<1>9. ASSUME NEW s \in Shards, BatchDone(s) PROVE OrderInv' /\ NoneFalls
  <2>1. /\ UNCHANGED <<queue, shards, ref, cell, given, cache>>
        /\ saving' = [saving EXCEPT ![s] = {}]
    BY <1>9 DEF BatchDone, channel, sorting, callers
  <2>2. saving \in [Shards -> SUBSET Items]
    BY TypeParts DEF TypeInv, LoopTypeOK
  <2>3. \A t \in Shards : saving'[t] = saving[t] \/ saving'[t] = {}
    BY <2>1, <2>2
  <2>4. QED
    BY <2>1, <2>3, OrderFrame
<1>10. QED
  BY <1>2, <1>3, <1>4, <1>5, <1>6, <1>7, <1>8, <1>9
     DEF Next, SaveStep, AllSaved, StoreFails, LifeStep, LoopStep

LEMMA OrderAlways ==
  ASSUME NothingShared
  PROVE  Spec => [](TypeInv /\ OrderInv /\ LoopCellInv)
<1>1. Init => TypeInv /\ OrderInv /\ LoopCellInv
  BY TypeInit, OrderInit
<1>2. (TypeInv /\ OrderInv /\ LoopCellInv) /\ [Next]_vars
        => (TypeInv /\ OrderInv /\ LoopCellInv)'
  BY TypeStep, OrderStep, LoopCellStep
<1>3. QED
  BY <1>1, <1>2, PTL DEF Spec

(* What the store or the cache says is published of an aggregate is at most *)
(* what was handed over for it, whatever was merged, dropped or saved again *)
(* on the way, unless one SavePublished with one loop variable is given     *)
(* several aggregates.                                                     *)
THEOREM RecordedWasGivenCorrect ==
  ASSUME NothingShared
  PROVE  Spec => []RecordedWasGiven
<1>1. OrderInv => RecordedWasGiven
  BY DEF OrderInv, StoreInv, RecordedWasGiven
<1>2. QED
  BY <1>1, OrderAlways, PTL

(* The version in the store never falls: the channel, the shards and the    *)
(* batches keep the order in which a publisher hands over its versions, and *)
(* saving a batch again writes the same ones; with the same exception.      *)
THEOREM RecordedNeverFallsCorrect ==
  ASSUME NothingShared
  PROVE  Spec => RecordedNeverFalls
<1>1. TypeInv /\ OrderInv /\ LoopCellInv /\ [Next]_vars => NoneFalls
  BY OrderStep
<1>2. TypeInv /\ OrderInv /\ LoopCellInv /\ [Next]_vars
        => [\A a \in Aggregates : Recorded(a) <= Recorded(a)']_vars
  BY <1>1 DEF NoneFalls
<1>3. QED
  BY <1>2, OrderAlways, PTL DEF Spec, RecordedNeverFalls
=============================================================================
