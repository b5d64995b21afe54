---------------------------- MODULE EventSourcing ----------------------------
(***************************************************************************)
(* The life of one aggregate: eventsourcing/repository.go (Get, Save) and  *)
(* eventsourcing/publisher.go (Publish, PublishUnpublished) running in     *)
(* several processes ("nodes") that share an event store, a published      *)
(* store, a snapshot store and an event bus.                               *)
(*                                                                         *)
(* In one node the command mailbox of the aggregate handles one command at *)
(* a time (module Mailbox); nodes run concurrently and may crash.  An      *)
(* event stream is known by the command that caused it, the state of the   *)
(* aggregate by the commands whose streams it has applied.                 *)
(***************************************************************************)
EXTENDS Integers, Sequences, FiniteSets

CONSTANTS
  Nodes,           \* processes
  Commands,        \* command ids
  MaxSends,        \* bound: how often a client sends the same command
  MaxCrashes,      \* bound: crashes in a behaviour
  EventSaver,      \* the repository appends through an EventStoreSaver
  PublishedSaver   \* the publisher records through a PublishedStoreSaver

ASSUME EventSourcingAssumption ==
  /\ MaxSends \in Nat
  /\ MaxCrashes \in Nat
  /\ EventSaver \in BOOLEAN
  /\ PublishedSaver \in BOOLEAN

NotCached == -1

VARIABLES
  log,       \* event store: log[v] is the command of stream v
  bus,       \* history of what the event bus accepted
  pubStore,  \* published store: the published version
  snapshot,  \* snapshot store: the saved state, <<>> if none
  sends,     \* command -> how often it has been sent
  acked,     \* commands whose Save has returned nil
  crashes,   \* number of crashes so far
  givenUp,   \* history of the commands whose Publish gave up on a conversion
  pc,        \* node -> where its command handler is
  cmd,       \* node -> command in hand
  agg,       \* node -> state of the aggregate in the handler's hands
  pv,        \* node -> local publishedVersion of the publisher
  target,    \* node -> StreamVersion given to Publish; 0 in PublishUnpublished
  upto,      \* node -> last version of unpublishedEventStreams
  cache,     \* node -> state in the aggregate cache, <<>> if there is no entry
  pvCache,   \* node -> publishedVersionCache of the PublishedStoreSaver
  pending    \* node -> versions the PublishedStoreSaver has not written yet

stores == <<log, bus, pubStore, snapshot>>
client == <<sends, acked, crashes, givenUp>>
handler == <<cmd, agg>>
publisher == <<pv, target, upto>>
caches == <<cache, pvCache, pending>>
vars == <<stores, client, pc, handler, publisher, caches>>

PCs == {"idle", "load", "query", "run", "append", "readPublished", "queryUnpublished",
        "resend", "publish", "record", "snapshot"}

TypeOK ==
  /\ log \in Seq(Commands)
  /\ bus \in Seq([ver : Nat, cmd : Commands])
  /\ pubStore \in Nat
  /\ snapshot \in Seq(Commands)
  /\ sends \in [Commands -> 0..MaxSends]
  /\ acked \subseteq Commands
  /\ crashes \in 0..MaxCrashes
  /\ givenUp \subseteq Commands
  /\ pc \in [Nodes -> PCs]
  /\ cmd \in [Nodes -> Commands]
  /\ agg \in [Nodes -> Seq(Commands)]
  /\ pv \in [Nodes -> Nat]
  /\ target \in [Nodes -> Nat]
  /\ upto \in [Nodes -> Nat]
  /\ cache \in [Nodes -> Seq(Commands)]
  /\ pvCache \in [Nodes -> Nat \cup {NotCached}]
  /\ pending \in [Nodes -> Seq(Nat)]

Init ==
  /\ log = <<>>
  /\ bus = <<>>
  /\ pubStore = 0
  /\ snapshot = <<>>
  /\ sends = [c \in Commands |-> 0]
  /\ acked = {}
  /\ crashes = 0
  /\ givenUp = {}
  /\ pc = [n \in Nodes |-> "idle"]
  /\ cmd \in [Nodes -> Commands]
  /\ agg = [n \in Nodes |-> <<>>]
  /\ pv = [n \in Nodes |-> 0]
  /\ target = [n \in Nodes |-> 0]
  /\ upto = [n \in Nodes |-> 0]
  /\ cache = [n \in Nodes |-> <<>>]
  /\ pvCache = [n \in Nodes |-> NotCached]
  /\ pending = [n \in Nodes |-> <<>>]

Goto(n, label) == pc' = [pc EXCEPT ![n] = label]

Lower(a, b) == IF a < b THEN a ELSE b

-----------------------------------------------------------------------------
(* Get.                                                                    *)

\* A command reaches the handler of a node, not necessarily for the first time.
Deliver(n, c) ==
  /\ pc[n] = "idle"
  /\ sends[c] < MaxSends
  /\ sends' = [sends EXCEPT ![c] = @ + 1]
  /\ cmd' = [cmd EXCEPT ![n] = c]
  /\ Goto(n, "load")
  /\ UNCHANGED <<stores, acked, crashes, givenUp, agg, publisher, caches>>

\* The aggregate comes out of the cache if it is there; otherwise from the
\* snapshot, if there is one that can be read.
Load(n) ==
  /\ pc[n] = "load"
  /\ \/ /\ cache[n] # <<>>
        /\ agg' = [agg EXCEPT ![n] = cache[n]]
        /\ Goto(n, "run")
     \/ /\ cache[n] = <<>>
        /\ \E base \in {snapshot, <<>>} : agg' = [agg EXCEPT ![n] = base]
        /\ Goto(n, "query")
  /\ UNCHANGED <<stores, client, cmd, publisher, caches>>

\* Restore applies the streams after base one by one, each of the version that
\* follows.
Restored(base) == base \o SubSeq(log, Len(base) + 1, Len(log))

\* The streams after the snapshot are applied to it and the result is cached.
\* The query may fail (that of the in-memory store panics on a snapshot ahead of
\* the store), and so may the conversion of what it returns; then the command is
\* answered with an error.
Query(n) ==
  /\ pc[n] = "query"
  /\ \/ /\ Len(agg[n]) <= Len(log)
        /\ agg' = [agg EXCEPT ![n] = Restored(@)]
        /\ cache' = [cache EXCEPT ![n] = agg'[n]]
        /\ Goto(n, "run")
     \/ /\ Goto(n, "idle")
        /\ UNCHANGED <<agg, cache>>
  /\ UNCHANGED <<stores, client, cmd, publisher, pvCache, pending>>

-----------------------------------------------------------------------------
(* The command handler and Save.                                           *)

\* The handler changes the aggregate, leaves it as it is, or rejects the
\* command and does not call Save.
Run(n) ==
  /\ pc[n] = "run"
  /\ \/ Goto(n, "append") /\ UNCHANGED target
     \/ Goto(n, "readPublished") /\ target' = [target EXCEPT ![n] = 0]
     \/ Goto(n, "idle") /\ UNCHANGED target
  /\ UNCHANGED <<stores, client, handler, pv, upto, caches>>

Duplicate(n) == \E v \in DOMAIN log : log[v] = cmd[n]
Unexpected(n) == Len(log) # Len(agg[n])

\* Apply raises the version once for all events of a command.
Changed(n) == Append(agg[n], cmd[n])

\* The append is confirmed: AcceptChanges, cache.Set, and on to Publish.
Accept(n) ==
  LET changed == Changed(n) IN
    /\ agg' = [agg EXCEPT ![n] = changed]
    /\ cache' = [cache EXCEPT ![n] = changed]
    /\ target' = [target EXCEPT ![n] = Len(changed)]
    /\ Goto(n, "readPublished")

AppendStored(n) ==
  /\ pc[n] = "append"
  /\ ~ Duplicate(n)
  /\ ~ Unexpected(n)
  /\ log' = Append(log, cmd[n])
  /\ Accept(n)
  /\ UNCHANGED <<bus, pubStore, snapshot, client, cmd, pv, upto, pvCache, pending>>

\* Faulty variant: a duplicate is confirmed without a saver, too.
AppendDuplicateConfirmed(n) ==
  /\ pc[n] = "append"
  /\ Duplicate(n)
  /\ Accept(n)
  /\ UNCHANGED <<stores, client, cmd, pv, upto, pvCache, pending>>

\* The stream was stored before.  The store says so and Save returns
\* ErrAggregateNoChange; the saver's answer is nil, and Save goes on.
AppendDuplicate(n) ==
  /\ pc[n] = "append"
  /\ Duplicate(n)
  /\ \/ EventSaver /\ Accept(n)
     \/ ~ EventSaver /\ Goto(n, "idle") /\ UNCHANGED <<agg, cache, target>>
  /\ UNCHANGED <<stores, client, cmd, pv, upto, pvCache, pending>>

\* Faulty variants: the cache is set before the append is confirmed; the saver
\* answers nil.
AppendUnexpectedCached(n) ==
  /\ pc[n] = "append"
  /\ ~ Duplicate(n)
  /\ Unexpected(n)
  /\ cache' = [cache EXCEPT ![n] = Changed(n)]
  /\ Goto(n, "idle")
  /\ UNCHANGED <<stores, client, handler, publisher, pvCache, pending>>

AppendUnexpectedConfirmed(n) ==
  /\ pc[n] = "append"
  /\ ~ Duplicate(n)
  /\ Unexpected(n)
  /\ Accept(n)
  /\ UNCHANGED <<stores, client, cmd, pv, upto, pvCache, pending>>

\* Another node was faster.  Only without a saver is the cache entry removed.
AppendUnexpected(n) ==
  /\ pc[n] = "append"
  /\ ~ Duplicate(n)
  /\ Unexpected(n)
  /\ cache' = IF EventSaver THEN cache ELSE [cache EXCEPT ![n] = <<>>]
  /\ Goto(n, "idle")
  /\ UNCHANGED <<stores, client, handler, publisher, pvCache, pending>>

\* The store reports an error.  A saver reports the error of its batch to
\* every stream of the batch, those the store has already kept included.
AppendFails(n) ==
  /\ pc[n] = "append"
  /\ Goto(n, "idle")
  /\ \/ UNCHANGED log
     \/ /\ EventSaver /\ ~ Duplicate(n) /\ ~ Unexpected(n)
        /\ log' = Append(log, cmd[n])
  /\ UNCHANGED <<bus, pubStore, snapshot, client, handler, publisher, caches>>

-----------------------------------------------------------------------------
(* Publish (target[n] > 0) and PublishUnpublished (target[n] = 0).         *)

ReadPublished(n) ==
  /\ pc[n] = "readPublished"
  /\ LET known == IF PublishedSaver /\ pvCache[n] # NotCached THEN pvCache[n]
                  ELSE pubStore
     IN /\ pv' = [pv EXCEPT ![n] = known]
        /\ pvCache' = IF PublishedSaver THEN [pvCache EXCEPT ![n] = known] ELSE pvCache
  /\ Goto(n, "queryUnpublished")
  /\ UNCHANGED <<stores, client, handler, target, upto, cache, pending>>

\* Streams pv+1 .. target-1, or all from pv+1 on in PublishUnpublished.
LastUnpublished(n) ==
  IF target[n] = 0 THEN Len(log) ELSE Lower(target[n] - 1, Len(log))

\* A query that fails is tried again.  Streams that cannot be converted back
\* into events are not: Publish returns without a word to Save, having published
\* neither them nor the stream of its command.
QueryUnpublished(n) ==
  /\ pc[n] = "queryUnpublished"
  /\ \/ /\ upto' = [upto EXCEPT ![n] = LastUnpublished(n)]
        /\ Goto(n, "resend")
        /\ UNCHANGED givenUp
     \/ /\ pv[n] < LastUnpublished(n)
        /\ givenUp' = IF target[n] = 0 THEN givenUp ELSE givenUp \cup {cmd[n]}
        /\ Goto(n, IF target[n] = 0 THEN "idle" ELSE "snapshot")
        /\ UNCHANGED upto
  /\ UNCHANGED <<stores, sends, acked, crashes, handler, pv, target, caches>>

\* Faulty variant: only one of the unpublished streams is published.
ResendOnlyOne(n) ==
  /\ pc[n] = "resend"
  /\ pv[n] < upto[n]
  /\ bus' = Append(bus, [ver |-> pv[n] + 1, cmd |-> log[pv[n] + 1]])
  /\ pv' = [pv EXCEPT ![n] = @ + 1]
  /\ Goto(n, IF target[n] = 0 THEN "idle" ELSE "record")
  /\ UNCHANGED <<log, pubStore, snapshot, client, handler, target, upto, caches>>

\* Publish the next of the unpublished streams.
Resend(n) ==
  /\ pc[n] = "resend"
  /\ pv[n] < upto[n]
  /\ bus' = Append(bus, [ver |-> pv[n] + 1, cmd |-> log[pv[n] + 1]])
  /\ pv' = [pv EXCEPT ![n] = @ + 1]
  /\ \/ pv[n] + 1 < upto[n] /\ UNCHANGED pc
     \/ pv[n] + 1 = upto[n] /\ Goto(n, IF target[n] = 0 THEN "idle" ELSE "record")
  /\ UNCHANGED <<log, pubStore, snapshot, client, handler, target, upto, caches>>

\* Faulty variant: the stream itself is left to the next Publish.
NothingToResendLeaves(n) ==
  /\ pc[n] = "resend"
  /\ pv[n] >= upto[n]
  /\ Goto(n, IF target[n] = 0 THEN "idle" ELSE "snapshot")
  /\ UNCHANGED <<stores, client, handler, publisher, caches>>

\* There is nothing to resend.
NothingToResend(n) ==
  /\ pc[n] = "resend"
  /\ pv[n] >= upto[n]
  /\ Goto(n, IF target[n] = 0 THEN "idle" ELSE "publish")
  /\ UNCHANGED <<stores, client, handler, publisher, caches>>

\* Faulty variant: the version of the stream being saved is recorded before it
\* is published.
RecordTarget(n) ==
  /\ pc[n] = "record"
  /\ \/ /\ PublishedSaver
        /\ pending' = [pending EXCEPT ![n] = Append(@, target[n])]
        /\ pvCache' = [pvCache EXCEPT ![n] = target[n]]
        /\ UNCHANGED pubStore
     \/ /\ ~ PublishedSaver
        /\ pubStore' = target[n]
        /\ UNCHANGED <<pending, pvCache>>
  /\ Goto(n, IF pv[n] = target[n] THEN "snapshot" ELSE "publish")
  /\ UNCHANGED <<log, bus, snapshot, client, handler, publisher, cache>>

\* SavePublished(pv[n]).  The saver queues the version and advances its cache
\* only from the version just below.
Record(n) ==
  /\ pc[n] = "record"
  /\ \/ /\ PublishedSaver
        /\ pending' = [pending EXCEPT ![n] = Append(@, pv[n])]
        /\ pvCache' = [pvCache EXCEPT ![n] =
                         IF @ = NotCached \/ @ = pv[n] - 1 THEN pv[n] ELSE @]
        /\ UNCHANGED pubStore
     \/ /\ ~ PublishedSaver
        /\ pubStore' = pv[n]
        /\ UNCHANGED <<pending, pvCache>>
  /\ Goto(n, IF pv[n] = target[n] THEN "snapshot" ELSE "publish")
  /\ UNCHANGED <<log, bus, snapshot, client, handler, publisher, cache>>

\* The stream itself, if all before it are known to be published.
PublishOwn(n) ==
  /\ pc[n] = "publish"
  /\ \/ /\ pv[n] = target[n] - 1
        /\ bus' = Append(bus, [ver |-> target[n], cmd |-> agg[n][target[n]]])
        /\ pv' = [pv EXCEPT ![n] = target[n]]
        /\ Goto(n, "record")
     \/ /\ pv[n] # target[n] - 1
        /\ Goto(n, "snapshot")
        /\ UNCHANGED <<bus, pv>>
  /\ UNCHANGED <<log, pubStore, snapshot, client, handler, target, upto, caches>>

\* The snapshot is saved, or not (no snapshots, saver waiting for more
\* versions, store failing), and Save returns nil.
Finish(n) ==
  /\ pc[n] = "snapshot"
  /\ snapshot' \in {snapshot, agg[n]}
  /\ acked' = acked \cup {cmd[n]}
  /\ Goto(n, "idle")
  /\ UNCHANGED <<log, bus, pubStore, sends, crashes, givenUp, handler, publisher, caches>>

-----------------------------------------------------------------------------
(* Beside the handlers.                                                    *)

\* The PublishedStoreSaver of n writes a batch: the greatest of the versions
\* it has taken out of its channel.
Flush(n) ==
  /\ \E k \in DOMAIN pending[n] :
       /\ \E i \in 1..k :
            /\ \A j \in 1..k : pending[n][j] <= pending[n][i]
            /\ pubStore' = pending[n][i]
       /\ pending' = [pending EXCEPT ![n] = SubSeq(@, k + 1, Len(@))]
  /\ UNCHANGED <<log, bus, snapshot, client, pc, handler, publisher, cache, pvCache>>

\* The cache entry expires.
Expire(n) ==
  /\ cache[n] # <<>>
  /\ cache' = [cache EXCEPT ![n] = <<>>]
  /\ UNCHANGED <<stores, client, pc, handler, publisher, pvCache, pending>>

\* The process dies and is started again: what is not in a store is gone.
Crash(n) ==
  /\ crashes < MaxCrashes
  /\ crashes' = crashes + 1
  /\ Goto(n, "idle")
  /\ cache' = [cache EXCEPT ![n] = <<>>]
  /\ pvCache' = [pvCache EXCEPT ![n] = NotCached]
  /\ pending' = [pending EXCEPT ![n] = <<>>]
  /\ UNCHANGED <<stores, sends, acked, givenUp, handler, publisher>>

HandlerStep(n) ==
  \/ Load(n) \/ Query(n) \/ Run(n)
  \/ AppendStored(n) \/ AppendDuplicate(n) \/ AppendUnexpected(n) \/ AppendFails(n)
  \/ ReadPublished(n) \/ QueryUnpublished(n) \/ Resend(n) \/ NothingToResend(n)
  \/ Record(n) \/ PublishOwn(n) \/ Finish(n)

Next ==
  \E n \in Nodes :
    \/ \E c \in Commands : Deliver(n, c)
    \/ HandlerStep(n)
    \/ Flush(n) \/ Expire(n) \/ Crash(n)

Spec == Init /\ [][Next]_vars

\* A handler that can run does, and the saver's ticker keeps firing.
Fairness == \A n \in Nodes : WF_vars(HandlerStep(n)) /\ WF_vars(Flush(n))

FairSpec == Spec /\ Fairness

-----------------------------------------------------------------------------
Delivered(v) == \E i \in DOMAIN bus : bus[i].ver = v

IsPrefixOfLog(s) == Len(s) <= Len(log) /\ \A v \in DOMAIN s : s[v] = log[v]

Feed == INSTANCE EventFeed

(* The bus is a feed of the event store: only stored streams are            *)
(* published, and none before all its predecessors, whichever nodes publish *)
(* them and wherever they crash.                                           *)
ImplementsFeed == Feed!Spec

(* What the published store and the savers' caches say is published was     *)
(* given to the bus: a publisher that trusts them leaves no stream out.    *)
PublishedVersionsAreDelivered ==
  /\ \A v \in 1..pubStore : Delivered(v)
  /\ \A n \in Nodes : \A v \in 1..pvCache[n] : Delivered(v)

(* When Save returns nil the command's stream is stored.  It is on the bus   *)
(* too, even if the publisher found the published version to be another one *)
(* than expected and skipped the stream - unless an earlier stream was      *)
(* still unpublished and could not be converted: then Publish has given up, *)
(* which Save does not learn.                                               *)
AckedIsPublished ==
  \A c \in acked : \E v \in DOMAIN log :
    log[v] = c /\ (Delivered(v) \/ c \in givenUp)

(* Cached and saved states are states the aggregate really went through.   *)
CachesArePrefixes ==
  /\ IsPrefixOfLog(snapshot)
  /\ \A n \in Nodes : IsPrefixOfLog(cache[n])

(* What one Publish leaves behind the next one makes up for: in the end all  *)
(* stored streams are on the bus but the last ones, as many as there were   *)
(* crashes and publications given up.  A crash between append and Publish   *)
(* so leaves at most one stream unpublished, the newest.                    *)
StoredIsPublished ==
  <>[](\A v \in DOMAIN log :
         Delivered(v) \/ v > Len(log) - crashes - Cardinality(givenUp))

(* The repository confirms the save of a stream before it pushes it to the  *)
(* event bus: every published stream is in the event store.                *)
PublishedIsStored ==
  \A i \in DOMAIN bus :
    bus[i].ver \in DOMAIN log /\ log[bus[i].ver] = bus[i].cmd
=============================================================================
