------------------------------ MODULE SaverLoop ------------------------------
(***************************************************************************)
(* What the savers of the event, published and snapshot store have in      *)
(* common (store/*/saver.go): a channel, one loop goroutine that sorts     *)
(* what comes out of it into shards and saves a shard as one batch when it *)
(* is full or old enough, Start and Stop.  What an item is, how it is      *)
(* sorted and what saving a batch does is up to the modules that extend    *)
(* this one.                                                               *)
(***************************************************************************)
EXTENDS Naturals, Sequences, FiniteSets

CONSTANTS
  Shards,     \* values of ShardingAlgorithm
  BatchSize,
  MaxStarts   \* bound: how often the saver is started

ASSUME SaverLoopAssumption ==
  /\ BatchSize \in Nat \ {0}
  /\ MaxStarts \in Nat

VARIABLES
  status,   \* status word
  starts,   \* how often the saver was started
  spc,      \* where the caller of Stop is
  chan,     \* receiverCh is nil, open or closed
  queue,    \* what is buffered in it
  lpc,      \* where the loop goroutine is
  shards,   \* shardingMapping: shard -> items
  timed,    \* domain of shardingTimeMapping
  jpc,      \* shard -> where its batchSave is
  saving    \* shard -> dataMapping of its batchSave

life == <<status, starts, spc>>
channel == <<chan, queue>>
sorting == <<shards, timed>>
batches == <<jpc, saving>>
loopVars == <<life, channel, lpc, sorting, batches>>

Capacity == 2 * BatchSize

\* Items are what the channel carries, labels the places of batchSave.
LoopTypeOK(Items, labels) ==
  /\ status \in {"stop", "running", "stopping"}
  /\ starts \in 0..MaxStarts
  /\ spc \in {"none", "wait", "closed"}
  /\ chan \in {"nil", "open", "closed"}
  /\ queue \in Seq(Items)
  /\ Len(queue) <= Capacity
  /\ lpc \in {"none", "make", "select", "batch", "flush", "check"}
  /\ shards \in [Shards -> SUBSET Items]
  /\ timed \subseteq Shards
  /\ jpc \in [Shards -> labels \cup {"none"}]
  /\ saving \in [Shards -> SUBSET Items]

LoopInit ==
  /\ status = "stop"
  /\ starts = 0
  /\ spc = "none"
  /\ chan = "nil"
  /\ queue = <<>>
  /\ lpc = "none"
  /\ shards = [s \in Shards |-> {}]
  /\ timed = {}
  /\ jpc = [s \in Shards |-> "none"]
  /\ saving = [s \in Shards |-> {}]

-----------------------------------------------------------------------------
(* Senders.                                                                *)

CanSend == chan = "open" /\ Len(queue) < Capacity

Enqueue(item) ==
  /\ CanSend
  /\ queue' = Append(queue, item)
  /\ UNCHANGED <<life, chan, lpc, sorting, batches>>

-----------------------------------------------------------------------------
(* Start and the loop goroutine.                                           *)

\* A restart waits until the loop of the last run has ended: Stop does not, but
\* it sleeps for a second.
Start ==
  /\ status = "stop"
  /\ starts < MaxStarts
  /\ lpc = "none"
  /\ status' = "running"
  /\ starts' = starts + 1
  /\ lpc' = "make"
  /\ UNCHANGED <<spc, channel, sorting, batches>>

MakeChannel ==
  /\ lpc = "make"
  /\ chan' = "open"
  /\ queue' = <<>>
  /\ shards' = [s \in Shards |-> {}]
  /\ timed' = {}
  /\ lpc' = "select"
  /\ UNCHANGED <<life, batches>>

\* batchSave of the shards in S begins, on all items collected in them.
Begin(S, collected) ==
  /\ saving' = [s \in Shards |-> IF s \in S THEN collected[s] ELSE saving[s]]
  /\ jpc' = [s \in Shards |-> IF s \in S THEN "append" ELSE jpc[s]]
  /\ shards' = [s \in Shards |-> IF s \in S THEN {} ELSE collected[s]]

\* The loop takes an item from the channel, after which shard s holds items.  It
\* saves a full shard itself.
Sort(s, items) ==
  LET full == Cardinality(items) >= BatchSize IN
    /\ lpc = "select"
    /\ queue' = Tail(queue)
    /\ Begin(IF full THEN {s} ELSE {}, [shards EXCEPT ![s] = items])
    /\ timed' = IF full THEN timed \ {s} ELSE timed \cup {s}
    /\ lpc' = IF full THEN "batch" ELSE "select"
    /\ UNCHANGED <<life, chan>>

\* The channel is closed and empty.
ReceiveClosed ==
  /\ lpc = "select"
  /\ chan = "closed"
  /\ queue = <<>>
  /\ lpc' = "none"
  /\ UNCHANGED <<life, channel, sorting, batches>>

\* time.After fires: the shards in due are old enough and are saved in parallel.
Tick(due) ==
  /\ lpc = "select"
  /\ due \subseteq timed
  /\ timed' = timed \ due
  /\ Begin({s \in due : shards[s] # {}}, shards)
  /\ lpc' = "flush"
  /\ UNCHANGED <<life, channel>>

\* All batchSaves the loop waits for have returned.
Saved ==
  /\ lpc \in {"batch", "flush"}
  /\ \A s \in Shards : jpc[s] = "none"
  /\ lpc' = IF lpc = "batch" THEN "select" ELSE "check"
  /\ UNCHANGED <<life, channel, sorting, batches>>

\* After a tick the loop looks whether it should go on.
CheckStatus ==
  /\ lpc = "check"
  /\ lpc' = IF status = "running" THEN "select" ELSE "none"
  /\ UNCHANGED <<life, channel, sorting, batches>>

LoopStep == MakeChannel \/ ReceiveClosed \/ Saved \/ CheckStatus

\* batchSave of shard s goes on to label.
Goto(s, label) ==
  /\ jpc' = [jpc EXCEPT ![s] = label]
  /\ UNCHANGED <<life, channel, lpc, sorting, saving>>

\* batchSave of shard s is done with item.
Drop(s, item) ==
  /\ saving' = [saving EXCEPT ![s] = @ \ {item}]
  /\ UNCHANGED <<life, channel, lpc, sorting, jpc>>

-----------------------------------------------------------------------------
(* Stop.                                                                   *)

\* Stop sleeps for a second after setting the status: the channel has been made.
StopBegin ==
  /\ spc = "none"
  /\ status = "running"
  /\ lpc # "make"
  /\ status' = "stopping"
  /\ spc' = "wait"
  /\ UNCHANGED <<starts, channel, lpc, sorting, batches>>

\* len(receiverCh) is 0.
StopClose ==
  /\ spc = "wait"
  /\ queue = <<>>
  /\ chan' = "closed"
  /\ spc' = "closed"
  /\ UNCHANGED <<status, starts, queue, lpc, sorting, batches>>

\* goroutine.Wait returns: no message handler is at work.
StopEnd(idle) ==
  /\ spc = "closed"
  /\ idle
  /\ status' = "stop"
  /\ spc' = "none"
  /\ UNCHANGED <<starts, channel, lpc, sorting, batches>>
=============================================================================
