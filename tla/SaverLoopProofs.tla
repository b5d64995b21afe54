---------------------------- MODULE SaverLoopProofs ----------------------------
(***************************************************************************)
(* What holds of the loop of a saver whatever its items are and however a  *)
(* batch is saved.  The proofs about the savers cite these lemmas.         *)
(***************************************************************************)
EXTENDS SaverLoop, TLAPS

USE SaverLoopAssumption DEF SaverLoopAssumption

LEMMA AppendFacts ==
  ASSUME NEW S, NEW s \in Seq(S), NEW x \in S
  PROVE  /\ Append(s, x) \in Seq(S)
         /\ Len(s) \in Nat /\ Len(Append(s, x)) = Len(s) + 1
         /\ \A i \in DOMAIN s : i \in Nat /\ i <= Len(s) /\ Append(s, x)[i] = s[i]
         /\ Append(s, x)[Len(s) + 1] = x
         /\ DOMAIN Append(s, x) = DOMAIN s \cup {Len(s) + 1}
  OBVIOUS

LEMMA TailFacts ==
  ASSUME NEW S, NEW s \in Seq(S), s # <<>>
  PROVE  /\ Head(s) \in S /\ Head(s) = s[1] /\ 1 \in DOMAIN s
         /\ Tail(s) \in Seq(S) /\ Len(s) \in Nat /\ Len(Tail(s)) \in Nat
         /\ Len(Tail(s)) <= Len(s)
         /\ \A i \in DOMAIN s : i = 1 \/ (i - 1 \in DOMAIN Tail(s) /\ Tail(s)[i - 1] = s[i])
         /\ \A i \in DOMAIN Tail(s) : /\ i \in Nat /\ i + 1 \in DOMAIN s /\ 1 < i + 1
                                      /\ Tail(s)[i] = s[i + 1]
  OBVIOUS

-----------------------------------------------------------------------------
\* The loop waits while a batch is saved, and nothing is kept of a batch that is over.
BatchInv ==
  \A s \in Shards : /\ jpc[s] # "none" => lpc \in {"batch", "flush"}
                    /\ jpc[s] = "none" => saving[s] = {}

\* The channel is made by a run that has begun and closed by the one Stop of that run:
\* while a saver is stopped or starting, nothing can be sent to it.
RunInv ==
  /\ spc # "none" => status = "stopping"
  /\ spc = "closed" => chan = "closed"
  /\ status = "stop" => chan # "open"
  /\ lpc = "make" => status = "running" /\ chan # "open"

LoopInv == BatchInv /\ RunInv

\* batchSave of shard s is over, whatever of the batch was saved.
EndBatch(s) ==
  /\ jpc' = [jpc EXCEPT ![s] = "none"]
  /\ saving' = [saving EXCEPT ![s] = {}]
  /\ UNCHANGED <<life, channel, lpc, sorting>>

\* What a saver with these items and places of batchSave does to the variables of
\* SaverLoop.
LoopAction(Items, labels) ==
  \/ \E item \in Items : Enqueue(item)
  \/ Start \/ StopBegin \/ StopClose \/ StopEnd(TRUE)
  \/ MakeChannel \/ ReceiveClosed \/ Saved \/ CheckStatus
  \/ queue # <<>> /\ \E s \in Shards : \E items \in SUBSET Items : Sort(s, items)
  \/ \E due \in SUBSET timed : Tick(due)
  \/ \E s \in Shards :
       \/ EndBatch(s)
       \/ \E item \in Items : Drop(s, item)
       \/ jpc[s] # "none" /\ \E label \in labels : Goto(s, label)
       \/ saving[s] = {} /\ Goto(s, "none")
  \/ UNCHANGED loopVars

LEMMA LoopInitial ==
  ASSUME NEW Items, NEW labels, LoopInit
  PROVE  LoopTypeOK(Items, labels) /\ LoopInv
<1>1. /\ queue \in Seq(Items) /\ Len(queue) <= Capacity /\ starts \in 0..MaxStarts
      /\ shards \in [Shards -> SUBSET Items] /\ saving \in [Shards -> SUBSET Items]
      /\ jpc \in [Shards -> labels \cup {"none"}] /\ timed \subseteq Shards
  BY DEF LoopInit, Capacity
<1>2. QED
  BY <1>1 DEF LoopInit, LoopTypeOK, LoopInv, BatchInv, RunInv

\* What the loop does with the items of a batch keeps the types.
LEMMA BeginType ==
  ASSUME NEW Items, NEW labels, "append" \in labels,
         NEW S \in SUBSET Shards, NEW collected \in [Shards -> SUBSET Items],
         saving \in [Shards -> SUBSET Items], jpc \in [Shards -> labels \cup {"none"}],
         Begin(S, collected)
  PROVE  /\ saving' \in [Shards -> SUBSET Items] /\ shards' \in [Shards -> SUBSET Items]
         /\ jpc' \in [Shards -> labels \cup {"none"}]
  BY DEF Begin

\* What Begin does when no batch is being saved.
LEMMA BeginFacts ==
  ASSUME BatchInv, lpc = "select", NEW S, NEW collected, Begin(S, collected)
  PROVE  \A s \in Shards :
           /\ saving[s] = {}
           /\ saving'[s] = IF s \in S THEN collected[s] ELSE {}
           /\ shards'[s] = IF s \in S THEN {} ELSE collected[s]
           /\ jpc'[s] = IF s \in S THEN "append" ELSE "none"
  BY DEF BatchInv, Begin

\* The item taken out of the channel is sorted in, and what its shard holds then is
\* kept there or saved.
LEMMA SortFacts ==
  ASSUME NEW Items, NEW labels, LoopTypeOK(Items, labels), BatchInv,
         NEW s \in Shards, NEW items \in SUBSET Items, Sort(s, items)
  PROVE  /\ lpc = "select" /\ lpc' \in {"select", "batch"} /\ queue' = Tail(queue)
         /\ \A t \in Shards : saving[t] = {} /\ jpc[t] = "none"
         /\ \A t \in Shards \ {s} : /\ shards'[t] = shards[t]
                                    /\ saving'[t] = {} /\ jpc'[t] = "none"
         /\ \/ shards'[s] = items /\ saving'[s] = {} /\ jpc'[s] = "none"
            \/ shards'[s] = {} /\ saving'[s] = items /\ jpc'[s] = "append" /\ lpc' = "batch"
         /\ UNCHANGED <<life, chan>>
<1> DEFINE full == Cardinality(items) >= BatchSize
           collected == [shards EXCEPT ![s] = items]
<1>1. /\ lpc = "select" /\ queue' = Tail(queue) /\ UNCHANGED <<life, chan>>
      /\ Begin(IF full THEN {s} ELSE {}, collected)
      /\ lpc' = IF full THEN "batch" ELSE "select"
  BY DEF Sort
<1>2. \A t \in Shards : collected[t] = IF t = s THEN items ELSE shards[t]
  BY DEF LoopTypeOK
<1> HIDE DEF full, collected
<1>3. \A t \in Shards : /\ saving[t] = {}
                        /\ saving'[t] = IF full /\ t = s THEN collected[t] ELSE {}
                        /\ shards'[t] = IF full /\ t = s THEN {} ELSE collected[t]
                        /\ jpc'[t] = IF full /\ t = s THEN "append" ELSE "none"
                        /\ jpc[t] = "none"
  BY <1>1, BeginFacts DEF BatchInv
<1>4. QED
  BY <1>1, <1>2, <1>3

\* The shards that are old enough are saved; the others are left alone.
LEMMA TickFacts ==
  ASSUME BatchInv, NEW due, due \subseteq timed, Tick(due)
  PROVE  /\ lpc = "select" /\ lpc' = "flush" /\ UNCHANGED <<life, channel>>
         /\ \A s \in Shards :
              /\ saving[s] = {} /\ jpc[s] = "none"
              /\ \/ shards'[s] = shards[s] /\ saving'[s] = {} /\ jpc'[s] = "none"
                 \/ shards'[s] = {} /\ saving'[s] = shards[s] /\ jpc'[s] = "append"
<1>1. /\ lpc = "select" /\ lpc' = "flush" /\ UNCHANGED <<life, channel>>
      /\ Begin({s \in due : shards[s] # {}}, shards)
  BY DEF Tick
<1>2. QED
  BY <1>1, BeginFacts DEF BatchInv

LEMMA LoopTypeStep ==
  ASSUME NEW Items, NEW labels, "append" \in labels,
         LoopTypeOK(Items, labels), LoopAction(Items, labels)
  PROVE  LoopTypeOK(Items, labels)'
<1>0. /\ queue \in Seq(Items) /\ Len(queue) <= Capacity /\ Capacity \in Nat
      /\ shards \in [Shards -> SUBSET Items] /\ saving \in [Shards -> SUBSET Items]
      /\ jpc \in [Shards -> labels \cup {"none"}] /\ timed \subseteq Shards
  BY DEF LoopTypeOK, Capacity
<1>1. ASSUME NEW item \in Items, Enqueue(item) PROVE LoopTypeOK(Items, labels)'
  <2>1. queue' \in Seq(Items) /\ Len(queue') <= Capacity
    BY <1>0, <1>1, AppendFacts DEF Enqueue, CanSend
  <2>2. QED
    BY <1>1, <2>1 DEF LoopTypeOK, Enqueue, life, sorting, batches
<1>2. CASE Start \/ StopBegin \/ StopClose \/ StopEnd(TRUE) \/ ReceiveClosed
           \/ Saved \/ CheckStatus
  BY <1>2 DEF LoopTypeOK, Start, StopBegin, StopClose, StopEnd, ReceiveClosed, Saved,
              CheckStatus, life, channel, sorting, batches
<1>3. CASE MakeChannel
  <2>1. /\ queue' \in Seq(Items) /\ Len(queue') <= Capacity
        /\ shards' \in [Shards -> SUBSET Items] /\ timed' \subseteq Shards
    BY <1>3 DEF MakeChannel, Capacity
  <2>2. QED
    BY <1>3, <2>1 DEF LoopTypeOK, MakeChannel, life, batches
<1>4. ASSUME queue # <<>>, NEW s \in Shards, NEW items \in SUBSET Items, Sort(s, items)
      PROVE  LoopTypeOK(Items, labels)'
  <2>1. queue' \in Seq(Items) /\ Len(queue') <= Capacity
    BY <1>0, <1>4, TailFacts DEF Sort
  <2>2. [shards EXCEPT ![s] = items] \in [Shards -> SUBSET Items]
    BY <1>0
  <2>3. \E S \in SUBSET Shards : Begin(S, [shards EXCEPT ![s] = items])
    BY <1>4 DEF Sort
  <2>4. /\ saving' \in [Shards -> SUBSET Items] /\ shards' \in [Shards -> SUBSET Items]
        /\ jpc' \in [Shards -> labels \cup {"none"}]
    BY <1>0, <2>2, <2>3, BeginType
  <2>5. timed' \subseteq Shards /\ lpc' \in {"batch", "select"} /\ UNCHANGED <<life, chan>>
    BY <1>0, <1>4 DEF Sort
  <2>6. QED
    BY <2>1, <2>4, <2>5 DEF LoopTypeOK, life
<1>5. ASSUME NEW due \in SUBSET timed, Tick(due) PROVE LoopTypeOK(Items, labels)'
  <2>1. {s \in due : shards[s] # {}} \in SUBSET Shards
    BY <1>0
  <2>2. Begin({s \in due : shards[s] # {}}, shards)
    BY <1>5 DEF Tick
  <2>3. /\ saving' \in [Shards -> SUBSET Items] /\ shards' \in [Shards -> SUBSET Items]
        /\ jpc' \in [Shards -> labels \cup {"none"}]
    BY <1>0, <2>1, <2>2, BeginType
  <2>4. QED
    BY <1>0, <1>5, <2>3 DEF LoopTypeOK, Tick, life, channel
<1>6. ASSUME NEW s \in Shards, EndBatch(s) PROVE LoopTypeOK(Items, labels)'
  BY <1>6 DEF LoopTypeOK, EndBatch, life, channel, sorting
<1>7. ASSUME NEW s \in Shards, NEW item \in Items, Drop(s, item)
      PROVE  LoopTypeOK(Items, labels)'
  BY <1>7 DEF LoopTypeOK, Drop, life, channel, sorting
<1>8. ASSUME NEW s \in Shards, NEW label \in labels \cup {"none"}, Goto(s, label)
      PROVE  LoopTypeOK(Items, labels)'
  BY <1>8 DEF LoopTypeOK, Goto, life, channel, sorting
<1>9. CASE UNCHANGED loopVars
  BY <1>9 DEF LoopTypeOK, loopVars, life, channel, sorting, batches
<1>10. QED
  BY <1>1, <1>2, <1>3, <1>4, <1>5, <1>6, <1>7, <1>8, <1>9 DEF LoopAction

LEMMA LoopInvStep ==
  ASSUME NEW Items, NEW labels, "none" \notin labels,
         LoopTypeOK(Items, labels), LoopInv, LoopAction(Items, labels)
  PROVE  LoopInv'
<1>0. /\ BatchInv /\ RunInv
      /\ jpc \in [Shards -> labels \cup {"none"}] /\ saving \in [Shards -> SUBSET Items]
  BY DEF LoopTypeOK, LoopInv
<1>1. ASSUME UNCHANGED life, UNCHANGED chan, lpc' # "make" PROVE RunInv'
  BY <1>0, <1>1 DEF RunInv, life
<1>2. ASSUME UNCHANGED lpc, UNCHANGED batches PROVE BatchInv'
  BY <1>0, <1>2 DEF BatchInv, batches
<1>3. ASSUME NEW item \in Items, Enqueue(item) PROVE LoopInv'
  BY <1>0, <1>2, <1>3 DEF Enqueue, LoopInv, RunInv, life
<1>4. CASE StopBegin \/ StopClose \/ StopEnd(TRUE)
  BY <1>0, <1>2, <1>4 DEF StopBegin, StopClose, StopEnd, LoopInv, RunInv, channel
<1>5. CASE Start \/ MakeChannel
  BY <1>0, <1>5 DEF Start, MakeChannel, LoopInv, BatchInv, RunInv, life, channel, batches
<1>6. CASE ReceiveClosed \/ Saved \/ CheckStatus
  BY <1>0, <1>6 DEF ReceiveClosed, Saved, CheckStatus, LoopInv, BatchInv, RunInv, life,
                    channel, batches
<1>7. ASSUME queue # <<>>, NEW s \in Shards, NEW items \in SUBSET Items, Sort(s, items)
      PROVE  LoopInv'
  <2>1. BatchInv' /\ lpc' # "make" /\ UNCHANGED <<life, chan>>
    BY <1>0, <1>7, SortFacts DEF BatchInv
  <2>2. QED
    BY <1>1, <2>1 DEF LoopInv
<1>8. ASSUME NEW due \in SUBSET timed, Tick(due) PROVE LoopInv'
  <2>1. BatchInv' /\ lpc' # "make" /\ UNCHANGED <<life, chan>>
    BY <1>0, <1>8, TickFacts DEF BatchInv, channel
  <2>2. QED
    BY <1>1, <2>1 DEF LoopInv
<1>9. ASSUME NEW s \in Shards,
             \/ EndBatch(s)
             \/ \E item \in Items : Drop(s, item)
             \/ jpc[s] # "none" /\ \E label \in labels : Goto(s, label)
             \/ saving[s] = {} /\ Goto(s, "none")
      PROVE  LoopInv'
  <2>1. UNCHANGED <<life, chan, lpc>>
    BY <1>9 DEF EndBatch, Drop, Goto, channel
  <2>2. RunInv'
    BY <1>0, <2>1 DEF RunInv, life
  <2>3. BatchInv'
    <3>1. CASE EndBatch(s)
      BY <1>0, <2>1, <3>1 DEF EndBatch, BatchInv
    <3>2. ASSUME NEW item, Drop(s, item) PROVE BatchInv'
      BY <1>0, <2>1, <3>2 DEF Drop, BatchInv
    <3>3. ASSUME jpc[s] # "none", NEW label \in labels, Goto(s, label) PROVE BatchInv'
      BY <1>0, <2>1, <3>3 DEF Goto, BatchInv
    <3>4. CASE saving[s] = {} /\ Goto(s, "none")
      BY <1>0, <2>1, <3>4 DEF Goto, BatchInv
    <3>5. QED
      BY <1>9, <3>1, <3>2, <3>3, <3>4
  <2>4. QED
    BY <2>2, <2>3 DEF LoopInv
<1>10. CASE UNCHANGED loopVars
  BY <1>0, <1>2, <1>10 DEF LoopInv, RunInv, loopVars, life, channel
<1>11. QED
  BY <1>3, <1>4, <1>5, <1>6, <1>7, <1>8, <1>9, <1>10 DEF LoopAction
=============================================================================
