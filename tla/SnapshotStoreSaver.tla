-------------------------- MODULE SnapshotStoreSaver --------------------------
(***************************************************************************)
(* DefaultSnapshotStoreSaver (store/snapshotstore/saver.go) and the        *)
(* in-memory snapshot store behind it.  Channel, loop, Start and Stop are  *)
(* in SaverLoop; an item is an aggregate with the version of its snapshot. *)
(* Not every snapshot is saved: the loop counts those that come for an     *)
(* aggregate and lets one through when there are enough.                   *)
(***************************************************************************)
EXTENDS SaverLoop

CONSTANTS
  Aggregates,
  ShardOf,     \* ShardingAlgorithm: aggregate -> shard
  MinDiff,     \* TakeSnapshotMinVersionDiff
  MaxVersion   \* bound: aggregate -> its greatest version

ASSUME SnapshotStoreSaverAssumption ==
  /\ ShardOf \in [Aggregates -> Shards]
  /\ MinDiff \in Nat \ {0}
  /\ MaxVersion \in [Aggregates -> Nat]

VARIABLES
  counts,  \* snapshotVersionDiffMapping; 0 where it has no entry
  saved,   \* snapshotMapper: aggregate -> version of its snapshot, or 0
  wpc,     \* aggregate -> where its command handler is in SaveSnapshot
  given,   \* aggregate -> version handed over last
  heard,   \* history: aggregate -> versions from MinDiff on received in this run
  taken,   \* history: aggregate -> version put into a shard last in this run, or 0
  failed   \* history: the store has failed

callers == <<wpc, given>>
counting == <<counts, heard, taken>>
store == <<saved, failed>>
own == <<callers, counting, store>>
vars == <<loopVars, own>>

Items == UNION {{a} \X (1..MaxVersion[a]) : a \in Aggregates}

TypeOK ==
  /\ LoopTypeOK(Items, {"append"})
  /\ counts \in [Aggregates -> Nat]
  /\ saved \in [Aggregates -> Nat]
  /\ wpc \in [Aggregates -> {"idle", "send", "stuck"}]
  /\ given \in [Aggregates -> Nat]
  /\ heard \in [Aggregates -> SUBSET Nat]
  /\ taken \in [Aggregates -> Nat]
  /\ failed \in BOOLEAN

Init ==
  /\ LoopInit
  /\ counts = [a \in Aggregates |-> 0]
  /\ saved = [a \in Aggregates |-> 0]
  /\ wpc = [a \in Aggregates |-> "idle"]
  /\ given = [a \in Aggregates |-> 0]
  /\ heard = [a \in Aggregates |-> {}]
  /\ taken = [a \in Aggregates |-> 0]
  /\ failed = FALSE

-----------------------------------------------------------------------------
(* The command handler of aggregate a, at the end of Save.                 *)

\* Its stream has been stored at version v, so v is new.  Another process may have
\* stored the versions between.
Save(a, v) ==
  /\ starts > 0
  /\ wpc[a] = "idle"
  /\ v > given[a]
  /\ given' = [given EXCEPT ![a] = v]
  /\ wpc' = [wpc EXCEPT ![a] = "send"]
  /\ UNCHANGED <<loopVars, counting, store>>

\* Faulty: the sender does not wait for room.
SendAtOnce(a) ==
  /\ wpc[a] = "send"
  /\ chan = "open"
  /\ queue' = Append(queue, <<a, given[a]>>)
  /\ wpc' = [wpc EXCEPT ![a] = "idle"]
  /\ UNCHANGED <<life, chan, lpc, sorting, batches, given, counting, store>>

Send(a) ==
  /\ wpc[a] = "send"
  /\ Enqueue(<<a, given[a]>>)
  /\ wpc' = [wpc EXCEPT ![a] = "idle"]
  /\ UNCHANGED <<given, counting, store>>

\* SaveSnapshot only logs that the saver does not run: it blocks for ever on the
\* channel that is not made yet, and panics on that of a stopped saver, which the
\* mailbox that runs the command handler recovers.
SendFails(a) ==
  /\ wpc[a] = "send"
  /\ \/ chan = "nil" /\ wpc' = [wpc EXCEPT ![a] = "stuck"]
     \/ chan = "closed" /\ wpc' = [wpc EXCEPT ![a] = "idle"]
  /\ UNCHANGED <<loopVars, given, counting, store>>

-----------------------------------------------------------------------------
(* The loop goroutine.                                                     *)

MakeMaps ==
  /\ MakeChannel
  /\ counts' = [a \in Aggregates |-> 0]
  /\ heard' = [a \in Aggregates |-> {}]
  /\ taken' = [a \in Aggregates |-> 0]
  /\ UNCHANGED <<callers, store>>

\* Young aggregates have no snapshot.
ReceiveYoung ==
  /\ lpc = "select"
  /\ queue # <<>>
  /\ Head(queue)[2] < MinDiff
  /\ queue' = Tail(queue)
  /\ UNCHANGED <<life, chan, lpc, sorting, batches, own>>

\* Faulty: a batch takes all counts with it.
ForgetAll(count, items) == [a \in Aggregates |-> 0]

\* The counts of the aggregates in items are deleted.
Forget(count, items) ==
  [a \in Aggregates |-> IF \E item \in items : item[1] = a THEN 0 ELSE count[a]]

\* dataMapping has one item for an aggregate.
Replace(items, new) == {old \in items : old[1] # new[1]} \cup {new}

\* A snapshot is counted, as long as the count is below its version, and put into the
\* shard if that makes it enough.
Receive ==
  /\ queue # <<>>
  /\ Head(queue)[2] >= MinDiff
  /\ LET a == Head(queue)[1]
         v == Head(queue)[2]
         s == ShardOf[a]
         counted == counts[a] < v
         count == IF counted THEN [counts EXCEPT ![a] = @ + 1] ELSE counts
         enough == counted /\ count[a] >= MinDiff
         items == IF enough THEN Replace(shards[s], <<a, v>>) ELSE shards[s]
     IN /\ Sort(s, items)
        /\ counts' = IF Cardinality(items) >= BatchSize THEN Forget(count, items) ELSE count
        /\ heard' = [heard EXCEPT ![a] = @ \cup {v}]
        /\ taken' = IF <<a, v>> \in items THEN [taken EXCEPT ![a] = v] ELSE taken
  /\ UNCHANGED <<callers, store>>

\* Faulty: the counts stay after the batches of a tick.
TickKeeps(due) ==
  /\ Tick(due)
  /\ UNCHANGED own

TickForgets(due) ==
  /\ Tick(due)
  /\ counts' = Forget(counts, UNION {shards[s] : s \in due})
  /\ UNCHANGED <<callers, heard, taken, store>>

-----------------------------------------------------------------------------
(* batchSave of shard s and SaveSnapshot of the store.                     *)

\* The store's loop over datas comes to item, the first time or, after a timeout,
\* again.
SaveOne(s, item) ==
  /\ jpc[s] = "append"
  /\ item \in saving[s]
  /\ saved' = [saved EXCEPT ![item[1]] = item[2]]
  /\ UNCHANGED <<loopVars, callers, counting, failed>>

BatchDone(s) ==
  /\ jpc[s] = "append"
  /\ jpc' = [jpc EXCEPT ![s] = "none"]
  /\ saving' = [saving EXCEPT ![s] = {}]
  /\ UNCHANGED <<life, channel, lpc, sorting, callers, counting, saved>>

\* Faulty: the batch is not saved to its end.
SomeSaved(s) ==
  /\ \E item \in saving[s] : saved[item[1]] = item[2]
  /\ BatchDone(s)
  /\ UNCHANGED failed

AllSaved(s) ==
  /\ \A item \in saving[s] : saved[item[1]] = item[2]
  /\ BatchDone(s)
  /\ UNCHANGED failed

\* Another store than the in-memory one may fail anywhere; the batch is given up.
StoreFails(s) ==
  /\ BatchDone(s)
  /\ failed' = TRUE

-----------------------------------------------------------------------------
CallerStep(a) ==
  Send(a) \/ SendFails(a) \/ \E v \in 1..MaxVersion[a] : Save(a, v)

SaveStep(s) == AllSaved(s) \/ \E item \in saving[s] : SaveOne(s, item)

\* Command handlers in SaveSnapshot count for goroutine.Wait.
InSave(a) == wpc[a] \in {"send", "stuck"}

LifeStep ==
  \/ MakeMaps
  \/ (ReceiveClosed \/ Saved \/ CheckStatus \/ StopClose) /\ UNCHANGED own
  \/ StopEnd(\A a \in Aggregates : ~ InSave(a)) /\ UNCHANGED own

Next ==
  \/ \E a \in Aggregates : CallerStep(a)
  \/ Receive \/ ReceiveYoung \/ LifeStep
  \/ (Start \/ StopBegin) /\ UNCHANGED own
  \/ \E due \in SUBSET timed : TickForgets(due)
  \/ \E s \in Shards : SaveStep(s) \/ StoreFails(s)

Spec == Init /\ [][Next]_vars

\* Goroutines that can run do, and shards grow old.
Fairness ==
  /\ WF_vars(LifeStep)
  /\ \A s \in Shards :
       /\ WF_vars(AllSaved(s))
       /\ \A item \in Items : WF_vars(SaveOne(s, item))
       /\ SF_vars(\E due \in SUBSET timed : s \in due /\ TickForgets(due))

FairSpec == Spec /\ Fairness

-----------------------------------------------------------------------------
(* An aggregate falls less than MinDiff snapshots behind: of the versions   *)
(* that came for it in this run, those from MinDiff on, fewer than MinDiff *)
(* are newer than the last one put into a shard, although the counts are   *)
(* deleted with each batch the aggregate is in.                            *)
LagBounded ==
  \A a \in Aggregates : Cardinality({v \in heard[a] : v > taken[a]}) < MinDiff

(* The snapshots that reach the store are at least MinDiff versions apart,  *)
(* over restarts too, and the first is of version 2 * MinDiff - 1 or later.*)
SnapshotsApart ==
  [][\A a \in Aggregates :
       saved'[a] = saved[a]
         \/ saved'[a] >= IF saved[a] = 0 THEN 2 * MinDiff - 1 ELSE saved[a] + MinDiff]_vars

(* A snapshot that was put into a shard, or a newer one, reaches the store, *)
(* unless the saver is stopped or the store fails.  (Before the loop of a   *)
(* new run has made its channel, taken is that of the last run.)           *)
TakenIsSaved ==
  \A a \in Aggregates : \A v \in 1..MaxVersion[a] :
    taken[a] = v /\ lpc # "make" ~> saved[a] >= v \/ status # "running" \/ failed
=============================================================================
