------------------------- MODULE PublishedStoreSaver -------------------------
(***************************************************************************)
(* DefaultPublishedStoreSaver (store/publishedstore/saver.go) with its     *)
(* cache of published versions, and the in-memory published store behind   *)
(* it.  Channel, loop, Start and Stop are in SaverLoop; an item is an      *)
(* aggregate with a version.                                               *)
(***************************************************************************)
EXTENDS SaverLoop

CONSTANTS
  Aggregates,
  ShardOf,            \* ShardingAlgorithm: aggregate -> shard
  MaxVersion,         \* bound: greatest version ever published
  SharesLoopVariable, \* go.mod says Go 1.21: a loop has one loop variable
  Nowhere,            \* no struct
  Missing             \* no entry in the cache

ASSUME PublishedStoreSaverAssumption ==
  /\ ShardOf \in [Aggregates -> Shards]
  /\ MaxVersion \in Nat
  /\ SharesLoopVariable \in BOOLEAN
  /\ Nowhere \notin Aggregates
  /\ Missing \notin Nat

VARIABLES
  ref,       \* the store's sync.Map: aggregate -> the struct it points to
  cell,      \* struct, named by an aggregate -> PublishedVersion in it
  loopCell,  \* shard -> the struct that is the loop variable of its SavePublished
  todo,      \* shard -> items its SavePublished has not come to yet
  cache,     \* publishedVersionCache
  wpc,       \* aggregate -> where its publisher is in SavePublished
  want,      \* aggregate -> the version its publisher saves
  given      \* aggregate -> the last version handed over for it

stores == <<ref, cell, loopCell, todo>>
callers == <<cache, wpc, want, given>>
own == <<stores, callers>>
vars == <<loopVars, own>>

Recorded(a) == IF ref[a] = Nowhere THEN 0 ELSE cell[ref[a]]

Items == Aggregates \X (1..MaxVersion)

TypeOK ==
  /\ LoopTypeOK(Items, {"append", "insert"})
  /\ ref \in [Aggregates -> Aggregates \cup {Nowhere}]
  /\ cell \in [Aggregates -> 0..MaxVersion]
  /\ loopCell \in [Shards -> Aggregates \cup {Nowhere}]
  /\ todo \in [Shards -> SUBSET Items]
  /\ cache \in [Aggregates -> (0..MaxVersion) \cup {Missing}]
  /\ wpc \in [Aggregates -> {"idle", "send", "cache", "stuck"}]
  /\ want \in [Aggregates -> 0..MaxVersion]
  /\ given \in [Aggregates -> 0..MaxVersion]

Init ==
  /\ LoopInit
  /\ ref = [a \in Aggregates |-> Nowhere]
  /\ cell = [a \in Aggregates |-> 0]
  /\ loopCell = [s \in Shards |-> Nowhere]
  /\ todo = [s \in Shards |-> {}]
  /\ cache = [a \in Aggregates |-> Missing]
  /\ wpc = [a \in Aggregates |-> "idle"]
  /\ want = [a \in Aggregates |-> 0]
  /\ given = [a \in Aggregates |-> 0]

-----------------------------------------------------------------------------
(* The publisher of aggregate a: commands for a are handled one at a time, *)
(* so there is one.                                                        *)

\* GetPublishedVersion of an aggregate that is not in the cache.  Only this
\* publisher looks at the entry it makes.
GetMissing(a) ==
  /\ starts > 0
  /\ wpc[a] = "idle"
  /\ cache[a] = Missing
  /\ cache' = [cache EXCEPT ![a] = Recorded(a)]
  /\ UNCHANGED <<loopVars, stores, wpc, want, given>>

\* The publisher has published up to v, several streams at once if earlier ones
\* were left unpublished, or some again.
Save(a, v) ==
  /\ wpc[a] = "idle"
  /\ cache[a] # Missing
  /\ v >= given[a]
  /\ want' = [want EXCEPT ![a] = v]
  /\ wpc' = [wpc EXCEPT ![a] = "send"]
  /\ UNCHANGED <<loopVars, stores, cache, given>>

Send(a) ==
  /\ wpc[a] = "send"
  /\ Enqueue(<<a, want[a]>>)
  /\ given' = [given EXCEPT ![a] = want[a]]
  /\ wpc' = [wpc EXCEPT ![a] = "cache"]
  /\ UNCHANGED <<stores, cache, want>>

\* The send blocks for ever on the channel that is not made yet, and panics on that of
\* a stopped saver; the mailbox that runs the publisher's command recovers.
SendFails(a) ==
  /\ wpc[a] = "send"
  /\ \/ chan = "nil" /\ wpc' = [wpc EXCEPT ![a] = "stuck"] /\ UNCHANGED want
     \/ /\ chan = "closed"
        /\ wpc' = [wpc EXCEPT ![a] = "idle"]
        /\ want' = [want EXCEPT ![a] = 0]
  /\ UNCHANGED <<loopVars, stores, cache, given>>

\* Faulty: the next version is cached whatever was saved.
CacheNext(a) ==
  /\ wpc[a] = "cache"
  /\ cache' = [cache EXCEPT ![a] = @ + 1]
  /\ want' = [want EXCEPT ![a] = 0]
  /\ wpc' = [wpc EXCEPT ![a] = "idle"]
  /\ UNCHANGED <<loopVars, stores, given>>

\* The entry follows only from the version just before.
CacheSaved(a) ==
  /\ wpc[a] = "cache"
  /\ cache' = [cache EXCEPT ![a] = IF @ \in {Missing, want[a] - 1} THEN want[a] ELSE @]
  /\ want' = [want EXCEPT ![a] = 0]
  /\ wpc' = [wpc EXCEPT ![a] = "idle"]
  /\ UNCHANGED <<loopVars, stores, given>>

-----------------------------------------------------------------------------
(* The loop goroutine.                                                     *)

\* Faulty: what is in the shard is not looked at.
KeepBoth(items, new) == items \cup {new}

\* Of the items for one aggregate the shard keeps that of the greatest version.
KeepGreatest(items, new) ==
  LET same == {old \in items : old[1] = new[1]} IN
    IF \A old \in same : old[2] < new[2] THEN (items \ same) \cup {new} ELSE items

Receive ==
  /\ queue # <<>>
  /\ LET new == Head(queue)
         s == ShardOf[new[1]]
     IN Sort(s, KeepGreatest(shards[s], new))
  /\ UNCHANGED own

-----------------------------------------------------------------------------
(* batchSave of shard s and SavePublished of the store.                    *)

BeginSave(s) ==
  /\ jpc[s] = "append"
  /\ Goto(s, "insert")
  /\ todo' = [todo EXCEPT ![s] = saving[s]]
  /\ UNCHANGED <<callers, ref, cell, loopCell>>

\* One turn of the loop over datas.  A new aggregate gets a pointer to the loop
\* variable; that of a known one leads to the struct to change.  Where there is
\* one loop variable, this turn's assignment to it reaches everyone who has got
\* a pointer to it before.
SaveOne(s, item) ==
  LET a == item[1]
      first == IF loopCell[s] = Nowhere \/ ~ SharesLoopVariable THEN a ELSE loopCell[s]
      target == IF ref[a] = Nowhere THEN first ELSE ref[a]
      written == {target} \cup IF SharesLoopVariable THEN {loopCell[s]} ELSE {}
  IN /\ jpc[s] = "insert"
     /\ item \in todo[s]
     /\ ref' = [ref EXCEPT ![a] = target]
     /\ cell' = [b \in Aggregates |-> IF b \in written THEN item[2] ELSE cell[b]]
     /\ loopCell' = [loopCell EXCEPT ![s] = IF ref[a] = Nowhere THEN first ELSE @]
     /\ todo' = [todo EXCEPT ![s] = @ \ {item}]
     /\ UNCHANGED <<loopVars, callers>>

\* batchSave returns; an error is only logged.
BatchDone(s) ==
  /\ jpc' = [jpc EXCEPT ![s] = "none"]
  /\ saving' = [saving EXCEPT ![s] = {}]
  /\ todo' = [todo EXCEPT ![s] = {}]
  /\ loopCell' = [loopCell EXCEPT ![s] = Nowhere]
  /\ UNCHANGED <<life, channel, lpc, sorting, callers, ref, cell>>

AllSaved(s) ==
  /\ jpc[s] = "insert"
  /\ todo[s] = {}
  /\ BatchDone(s)

\* Another store than the in-memory one may fail anywhere.
StoreFails(s) ==
  /\ jpc[s] \in {"append", "insert"}
  /\ BatchDone(s)

\* The answer of such a store may be lost: batchSave tries again after a timeout.
StoreTimesOut(s) ==
  /\ ~ SharesLoopVariable
  /\ jpc[s] = "insert"
  /\ Goto(s, "append")
  /\ todo' = [todo EXCEPT ![s] = {}]
  /\ loopCell' = [loopCell EXCEPT ![s] = Nowhere]
  /\ UNCHANGED <<callers, ref, cell>>

-----------------------------------------------------------------------------
CallerStep(a) ==
  \/ GetMissing(a) \/ Send(a) \/ SendFails(a) \/ CacheSaved(a)
  \/ \E v \in 1..MaxVersion : Save(a, v)

SaveStep(s) == BeginSave(s) \/ AllSaved(s) \/ \E item \in todo[s] : SaveOne(s, item)

\* Publishers in SavePublished count for goroutine.Wait.
InSave(a) == wpc[a] \in {"send", "cache", "stuck"}

LifeStep ==
  (StopClose \/ StopEnd(\A a \in Aggregates : ~ InSave(a)) \/ LoopStep) /\ UNCHANGED own

Next ==
  \/ \E a \in Aggregates : CallerStep(a)
  \/ Receive \/ LifeStep
  \/ (Start \/ StopBegin \/ \E due \in SUBSET timed : Tick(due)) /\ UNCHANGED own
  \/ \E s \in Shards : SaveStep(s) \/ StoreFails(s) \/ StoreTimesOut(s)

Spec == Init /\ [][Next]_vars

-----------------------------------------------------------------------------
(* What the store or the cache says is published of an aggregate is at     *)
(* most what was handed over for that aggregate: the publisher skips what  *)
(* they say is published.                                                  *)
RecordedWasGiven ==
  \A a \in Aggregates :
    /\ Recorded(a) <= given[a]
    /\ cache[a] # Missing => cache[a] <= given[a]

(* Although items are merged, batched, retried and dropped on the way, the  *)
(* version in the store never falls: a fall would publish streams again.    *)
RecordedNeverFalls ==
  [][\A a \in Aggregates : Recorded(a) <= Recorded(a)']_vars
=============================================================================
