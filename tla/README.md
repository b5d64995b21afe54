# A TLA+ model of squat

squat is a Go framework for domain-driven design with event sourcing and CQRS.
Commands are handled by one goroutine per aggregate, the handler changes an
aggregate and saves it as a stream of events, the stream is published to an
event bus, and event handlers update read models. This directory models the
parts of the framework in which goroutines, processes, crashes and retries meet,
checks them with TLC, and proves with TLAPS that they are safe: every invariant,
action property and refinement that a run checks is also a theorem.

File names below are those of the repository's source tree.

## 1. Inventory

### Components

| Component | State | Operations | Model |
|---|---|---|---|
| Mailbox, provider (`messaging/mailbox.go`) | map of mailboxes; per mailbox a status word, a channel, a handler map | `GetMailbox`, `SendMail`, worker loop, release | `Mailbox`, `SerialActor`, `MailboxProofs` |
| Handling of mails (`processMails`, `processMail`) | loop variables, goroutines of parallel handlers, collected errors | one group of mails | `MailHandling`, its theorems in `CommandResultProofs` |
| Repository (`eventsourcing/repository.go`) | snapshot cache | `Get`, `Save` | `EventSourcing`, `EventFeed`, `EventSourcingProofs` |
| Publisher (`eventsourcing/publisher.go`) | none of its own | `Publish`, `PublishUnpublished` | `EventSourcing` |
| Event store saver (`store/eventstore/saver.go`), in-memory event store | channel, shards, status; streams and command ids | `AppendEventStream`, `Start`, `Stop`, `batchSave` | `SaverLoop`, `EventStoreSaver`, `EventAppender`, `SaverLoopProofs`, `EventStoreSaverProofs` |
| Published store saver (`store/publishedstore/saver.go`), in-memory published store | the same, and a cache of versions; structs behind pointers | `GetPublishedVersion`, `SavePublished`, `Start`, `Stop`, `batchSave` | `SaverLoop`, `PublishedStoreSaver`, `SaverLoopProofs`, `PublishedStoreSaverProofs` |
| Command service, results, notifier (`commanding/inmemorycs`, `commanding/result.go`, `messaging/inmemorymhrn`) | map from command id and provider to a channel | `Send`, `Watch`, `Unwatch`, `Notify`, `FromCommandHandle`, `FromEventHandle` | `CommandResult`, `CommandResultProofs` |
| Command and event dispatcher (`commanding/dispatcher.go`, `eventing/dispatcher.go`) | subscribed handlers, proxies, the table of wrapped handlers | `Subscribe`, `SubscribeMulti`, `AddProxy`; `Dispatch` | `Dispatcher`, `EventBusProofs`; its send loop in `Mailbox`, its result goroutine in `CommandResult` |
| In-memory event bus (`eventing/inmemoryeb`) | channel, status, one loop goroutine for each start | `Publish`, `Start`, `Stop` | `EventBus`, `EventBusProofs`; a queue in `CommandResult` and `EventSourcing` |
| Snapshot store saver (`store/snapshotstore`), in-memory snapshot store | as the other savers, and a count per aggregate | `SaveSnapshot`, `Start`, `Stop`, `batchSave` | `SaverLoop`, `SnapshotStoreSaver`, `SnapshotStoreSaverProofs`; its effect on the repository in `EventSourcing` |
| Aggregate base (`eventsourcing/aggregate.go`) | version, pending events | `Apply`, `AcceptChanges`, `Restore` | `Restored`, `Changed` of `EventSourcing` |
| Memory cache, retrying, goroutine counter | entries; none; a counter | | as far as the others use them |
| Converter, serialization, errors, metadata, logging, tests | | | not modelled (section 8) |

### How they interact

A client calls `Send` of the command service, which registers two *watches* with
the notifier, one for the result of the command and one for that of its event
stream, and passes the command to the command dispatcher. The dispatcher finds
or creates the mailbox of the aggregate and sends the command into its channel;
the mailbox's worker runs the handler, which calls `Get` and `Save` of the
repository. `Save` appends the stream to the event store, directly or through the
saver, and calls `Publish`, which first publishes all streams that were stored
but not recorded as published, then its own, and records the version in the
published store, directly or through the saver. The event bus hands the stream
to the event dispatcher, whose mailboxes run the event handlers. When a worker
has finished, a goroutine of the dispatcher passes the result to the notifier,
which gives it to the channel of the watch, where the client waits. Now and then the
snapshot of an aggregate goes through its own saver to the snapshot store.

Shared state: the maps of mailboxes and watches, the status words, the stores.
Channels: mailbox, result, saver and bus channels. Across processes: only the
stores; each process has caches and queues of its own, which a crash empties.

### What is hard

* A mailbox releases itself when it is idle, while senders may hold it. The order
  of status changes, drain, close and removal from the map decides whether
  messages are handled serially and in order, and whether any is left behind.
* Storing and publishing are two steps. A crash between them, or another process
  doing the same at the same time, must not leave out or reorder a stream.
* Savers answer requests from batches, and retry when the store does not answer.
  The store may have done part of the work already.
* `Stop` and `Start` of a saver or of the bus meet callers and the loop at any point.
* `Subscribe` and `AddProxy` change the handler tables under a lock, and replace the
  table; dispatching and running mailboxes read it without the lock, and mailboxes keep it.
* Which snapshots are saved depends on counts that are kept for one run and deleted
  with each batch.
* Results come from other goroutines than the sender's, may come before `Send`
  has returned, after the sender gave up, or more than once.

`PROJECT.json` lists these hazards one by one with the line where each bites and
the properties that are about it.

### What makes each component correct

* Mailbox: one message of a name is handled at a time, in the order of
  dispatching, none twice; `Dispatch` returns; accepted messages are answered.
* Repository and publisher: the bus is a feed of the store: every published
  stream is stored, and published after all its predecessors; what is confirmed
  is stored, and published unless `Publish` had to give up; what is recorded as
  published was published; a stored stream is published in the end.
* Event store saver: a command is stored at most once, at the version asked for;
  nil is answered only for what is stored; each request is answered once.
* Published store saver: it never says more than was handed over and never falls back.
* Dispatchers: a message meets the handlers of its type, each once, in the order of
  subscription and with the same proxies around them.
* Event bus: a published stream is handled once, in order, in the end, unless it is
  lost at the release of a mailbox.
* Snapshot store saver: an aggregate is not saved too often and does not fall behind;
  a snapshot that was put into a batch reaches the store.
* Mails: nil means every handler of every event has succeeded; failures are
  named; handlers run in order.
* Results: each wait gets a result of its own command, none is missed, nobody
  blocks.

## 2. Plan

Done, in this order: `Mailbox` with its actor and proofs; `EventSourcing` with its
feed and proofs; `SaverLoop`, `EventStoreSaver` and `PublishedStoreSaver`;
`MailHandling` and `CommandResult`; `Dispatcher` and `EventBus` with proofs;
`SnapshotStoreSaver` with proofs; the refinement of `SerialActor` and the places of
`Mailbox` and `EventBus`; proofs for both other savers, `MailHandling` and
`CommandResult`.

Next, to prove more:

1. What of `EventSourcing` is left with savers when commands come twice: `IInv` without
   `Once`, and which of its properties follow from that.

Next, to extend the model:

1. A second process in `PublishedStoreSaver`, and a refinement between it and the
   queue of versions in `EventSourcing`.
2. `CommandResult` over `EventBus` instead of a queue of its own.

## 3. Modules and how they correspond to the code

`PROJECT.json` maps each definition to its lines. A step of a model is what one
goroutine does between two accesses to shared state; control is kept completely,
data only as far as a property can tell it apart.

**`Mailbox`** is one mailbox name of a provider. A *box* is one incarnation of the
mailbox, numbered in order of creation: pointers to released mailboxes stay in the
hands of senders, so status word, channel and worker are functions of the box.
`GetMailbox` is `LoadOrStore`; `MakeChannel` and `Activate` are `initialize`;
`LeaveSpin`, `CheckStatus`, `Send` and `SendPanics` are the lines of `SendMail`;
`Receive`, `Release`, `DrainNext`, `DrainEnd`, `Close`, `Remove` and `Destroy` are the
worker's. The drain loop is modelled as it is written: the bound `len(receiverCh)` is
read anew in each turn while the turns shorten it. What `processMails` does between
its begin and its end is left to `MailHandling`. The last box (`MaxBoxes`) is never
released. **`SerialActor`** is the promise: one queue, one message in hand, and
`Abandon`, the permission to drop the queue, which the code needs (section 5).

**`EventSourcing`** is the life of one aggregate in several processes (*nodes*). A
stream is the command that made it and its version is its place in `log`. `Deliver` is
a command reaching a handler, perhaps again. `Load`, `Query` and `Run` are `Get` and
the handler. A stream that cannot be converted back into events ends `Query` with an error;
in `QueryUnpublished` it ends `Publish` without one, and without the stream of the command
in hand, though `Save` goes on to answer nil (`eventsourcing/publisher.go:67`): `givenUp`
keeps these commands. The `Append...` actions are the ways out of the append in `Save`, with and
without a saver; `ReadPublished` to `PublishOwn` are `Publish` (`target` > 0) and
`PublishUnpublished` (`target` = 0); `Flush` is the batch of a published store saver,
`Expire` a cache entry that ran out, `Crash` the end of the process. Several nodes
may handle commands of one aggregate at once: mailboxes are serial only within a
process. The bus is the sequence of what it was given. **`EventFeed`** is the promise.

**`SaverLoop`** is what the savers share: status word, channel, loop goroutine, shards,
ticks, parallel batches, `Start` and `Stop`. `lpc` is where the loop is, `spc` where the
caller of `Stop` is, `jpc` where each `batchSave` is. A restart waits until the loop of
the run before has ended: `Stop` itself does not, but sleeps for a second, and the
model leaves out loops of two runs side by side.
**`EventStoreSaver`** adds requests and answers, `batchSave` with its treatment of
duplicates, and the in-memory store, which looks for duplicates in the whole batch
first and then appends stream by stream and stops at the first error. Any store may
fail, or time out after part of the work. **`EventAppender`** is the promise.
**`PublishedStoreSaver`** adds the cache of versions, the shard's merging of items, and
the in-memory store with its structs: `ref` is the pointer kept for an aggregate,
`cell` the struct, `loopCell` the struct that is the variable of the loop over the
batch. Under `go 1.21.0` (`go.mod`) there is one such variable for all turns, and its
address is stored; `SharesLoopVariable` turns this on.

**`SnapshotStoreSaver`** adds the count of snapshots for each aggregate (`counts`, where 0
stands for a missing entry), which `Receive` compares with the snapshot's version and
with `MinDiff`, which each batch deletes for the aggregates in it (`Forget`) and which the
loop of a new run makes afresh (`MakeMaps`), and the in-memory store, which writes one
snapshot after the other. `ReceiveYoung` is a version below `MinDiff`. `heard` and
`taken` are history: what came in this run, and what of it was put into a shard last.

**`Dispatcher`** is the handler tables. `proxiedHandlers` is a Go map, so `tables` holds every
map that was ever there, `current` says which one `proxiedHandlers` refers to, and `held`
which one the mailbox of an aggregate was created with. An entry of a table is a handler
with the number of proxies around it. `Subscribe` with `SubscribeWrapped`, and
`AddProxy` with `AddProxyWrap` and `AddProxyEnd`, are the steps under the lock: readers do
not take it, so they see what is between. `kind` is which of the two dispatchers it is:
they differ in how many handlers a type may have and in whether the new table of
`AddProxy` is an empty map or nil. A mailbox is modelled as far as its release touches
messages (its creation is `Mailbox`'s): `life` says whether its goroutine serves, drains
or is about to close the channel, `Release` may begin with messages in the channel,
`Receive` is the drain loop as well, with its bound read anew, and `ReleaseEnd` is `close`,
`removeSelf` and the last change of the status. What is in the channel then is `lost`. A caller
that had found the mailbox serving panics (`SendPanics`), or sees the status at its second look and
tries again (`Retry`); one that had found it draining spins until `ReleaseEnd` and tries again.
The channel has room for everything here. `dead` is what the process died of: `HandleDies` is
the Go runtime, which may end it when a map is read and written at the same time, and a
loop of the bus ends it with `SendPanics`. **`EventBus`** extends it with
the callers of `Dispatch`: the senders of commands, or the loops of the event bus, one
for each `Start`; `Stop` does not end a loop but leaves that to the loop's next timeout.

**`MailHandling`** is `processMails`: the events of one stream, each with its handlers in
the order of subscription. A handler is known by its position in that order, as one may
be subscribed twice; `turn` is how far the loop over them has come. `PutAside` is a
handler marked `IsAsync`, `SyncSucceeds` and `SyncFails` are those run by the loop itself,
`StartAsync`, `EndAsync` and `JoinAsync` run those put aside, in goroutines of
their own. `IsAsync` is the set of handlers that reach the mailbox with that mark: with the
default dispatchers it is empty, since their `Subscribe` and `AddProxy` build the handlers
they pass on without it; the mailbox itself supports it. **`CommandResult`** extends
it with senders, watches, the notifier and the dispatchers' goroutines. A watch is a
channel of capacity one; `watch` says whose channel a key leads to; `box` is what
the channels hold. `notes` is a bag: each result is passed on by a goroutine of its own,
in any order. `HandleCommand` has the outcomes of the repository's `Save`; `Republish`
is a publisher that publishes a stored stream again.

An operator marked *Faulty* is not part of any specification. Each is a plausible
bug, used to see that a property can fail.

## 4. What is checked

| Run | Question | Bounds |
|---|---|---|
| `mailbox` | Are the incarnations of a mailbox together one serial actor, and does `Dispatch` return? | 2 dispatchers with 2 messages each, capacity 2, 3 incarnations |
| `event_sourcing_direct` | Is the bus a feed of the store when two processes race, one crashes and conversions fail, and is every stored stream published in the end? | 2 nodes, 2 commands sent up to twice, 1 crash |
| `event_sourcing_savers` | The same with savers, whose batches are late and whose answers may be wrong | 2 nodes, 3 commands sent once, 1 crash |
| `event_store_saver` | Does the saver append as `EventAppender` says, answer everyone once, and stop? | 2 requests, 3 commands, 2 aggregates, 1 shard, batches of 2, 2 runs |
| `published_store_saver` | Is the recorded version one that was handed over, and does it never fall? | 2 aggregates, versions to 2, batches of 2, 2 runs |
| `snapshot_store_saver` | Does no aggregate fall behind, and is none saved too often? | 2 aggregates, versions to 5 and 3, `MinDiff` 2, 1 shard, batches of 2, 2 runs |
| `command_result` | Do senders get their own results, and what do they mean? | 2 senders, 2 commands, 2 published streams, both waits, 3 handlers, streams of 1 and 3 events |
| `event_bus` | Which handlers does a message meet? | 2 types with 3 handlers, 1 proxy, 2 messages of one aggregate, 2 callers or loops, channel of 1 |
| `event_bus_release` | Is a message lost, doubled or reordered between the bus and a mailbox that comes and goes? | no handlers, 3 messages of one aggregate, 2 callers or loops, channel of 2 |

All nine pass. Why the bounds are enough to be interesting:

* `mailbox`: with three incarnations a sender may hold a box that was released while
  another is being released and a third is created; with capacity 2 the channel is
  full with the other sender's messages, and the drain loop's two readings of `len` differ.
* `event_sourcing_*`: two nodes are the race for a version. Two commands give a log
  long enough for a gap; sending them twice gives redelivery after a crash. Three
  commands with savers give a batch of versions in which an older one comes late.
  With two versions the second `Publish` has to make up for what a crash, or a `Publish` that
  gave up, has left of the first.
* `event_store_saver`: two requests are a full batch, a conflict in one shard, and a
  duplicate beside a new command. Two runs let requests meet the channel that is not made
  yet, that of a stopped saver and that of a restarted one.
* `published_store_saver`: batches of two with two aggregates are merging and a full shard.
* `snapshot_store_saver`: with five versions an aggregate may be saved twice, at versions 3
  and 5, or fall behind; the two aggregates fill a batch together or leave it to a tick;
  versions may be left out; a run may begin with snapshots in the store.
* `command_result`: two senders may have the same command or not; two publications are
  a stream handled twice. The stream of `c1` has one event, with two parallel handlers and
  a sequential one subscribed between them; that of `c2` an event without handlers between
  two with a sequential one, so that several mails of a group may fail.
* `event_bus`: a type with two handlers and one with a single handler show a table that is
  half filled; the proxy makes a second table, which the mailbox of the second message has if
  that of the first was released before; two callers are two senders, or the loop of a stopped
  bus beside that of a started one.
* `event_bus_release`: three messages are one in the worker's hand, one in the channel, which the
  drain loop leaves there, and one on its way. Without handlers registration stays out
  of the way.

Every bound on a counter is a constant: `MaxBoxes`, `MailsPer`, `MaxSends`,
`MaxCrashes`, `MaxStarts`, `MaxVersion`, `MaxPublished`, `MaxCalls`, `MaxProxies`, and the
number of messages and callers of `EventBus`. Symmetry is used
where no liveness is checked. Deadlock checking is off: each of these models comes to
rest when its messages, commands or runs are used up.

### Properties

`mailbox`: `Serial`, `InOrder`, `NeverSendsToNil`, `RemovesItself` say what the order of
the status changes is for. `ExactlyOnePlace`: an accepted message is in one channel, in
one hand or handled. `ImplementsActor` is the refinement of `SerialActor`.
`DispatchReturns` and `AnsweredUnlessReleased` are its liveness.

`event_sourcing_*`: `ImplementsFeed` is the refinement of `EventFeed`.
`AckedIsPublished` ties the answer of `Save` to store and bus: what is answered nil is
stored, and published as well, by whomever, but for the commands in `givenUp`. With
savers, `PublishedVersionsAreDelivered` ties the published store and the savers' caches to
the bus, and `CachesArePrefixes` caches and snapshots to the store. `StoredIsPublished` is
liveness: each `Publish` makes up for what earlier ones left, so that in the end only the newest
streams may be missing, at most one for each crash and each `Publish` that gave up.

`event_store_saver`: `HeldOnce` says where an unanswered request is; `ImplementsAppender` is
the refinement, which says what nil means; `AnsweredWhileRunning` and
`StopEndsUnlessLeftBehind` are liveness: a running saver answers everyone, and `Stop`
returns unless the loop has ended with requests still in the channel or in a shard, or a
caller is stuck on the channel that had not been made.

`published_store_saver`: `RecordedWasGiven`, `RecordedNeverFalls`.

`snapshot_store_saver`: `LagBounded` counts the versions that came since the last one taken;
`SnapshotsApart` is an action property of the store, over restarts; `TakenIsSaved` is
liveness.

`event_bus`: `TablesCorrect` says that the current table is complete while nobody holds
the lock, and that no table, at any moment, mixes handlers with different proxies or has
them out of order; readers do not take the lock, so what they read may be empty or half
filled. `SetUpFirst` says that registering everything before the first message is enough
for every message to meet every handler in every proxy, and for no map to be read while it
is written; what happens without that is section 5.

`event_bus_release`: `OnePlace` and `InOrderWithOneLoop` say that no message is doubled, lost
elsewhere than at the release of a mailbox, or overtaken, the second with the condition
under which it is true; `PublishedIsHandled` is liveness, with these exceptions: lost
at a release, the process died, or in the channel of a stopped bus that has no loop.

`command_result`: `NilMeansHandled`, `FailedAreNamed`, `HandledInOrder` are about a
group of mails (parallel handlers with other mails around them are left to the theorems);
`WatchedIsEmpty` says that the notifier's write never blocks;
`ReturnsWhatHappened` that no result is mixed up, errors included; `SoleSenderMissesNothing` that none is
lost to a sender that does not share its command id.

### Fairness

* Goroutines that can run do (weak fairness of their steps): the Go scheduler. A
  handler returns. A goroutine that has met a closed channel panics (`SendFails` of the
  event store saver), which the mailbox around a command handler recovers
  (`messaging/mailbox.go:299`): the callers of the other two savers go on.
* `Receive` of the event store saver, `Fetch` of the event bus, and a tick for a shard
  with old items, are strongly fair: `select` chooses among ready cases at random. `Send` on a channel that is full again and
  again is strongly fair: senders queue up in order. `Deliver` of the dispatcher is strongly fair: a caller that
  has found a mailbox serving sends before that is released, again and again, as the release
  takes half a minute without a message. The store's answer to `batchSave`
  (`AppendStep`) is strongly fair: the store does not time out for ever.
* In `SnapshotStoreSaver` batches need only their ticks: `Receive` is not assumed to be fair.
* Nothing makes a mailbox release itself, a saver be stopped or started, a command
  be sent, a handler be registered, a process crash or a wait time out. A loop of the bus
  is not made to end.

## 5. Where code and documents disagree

Three runs end in a violation that TLC finds, each of what a document says:

* `mailbox_lost` (`AcceptedIsAnswered`): a message that `SendMail` accepted is never
  handled. It was sent after the drain loop's last look at the channel, or the loop
  stopped half way because its bound shrinks as its counter grows. `EventBus` has this loss
  too (`lost`).
* `event_sourcing_phantom` (`PublishedIsStored`): a command handled a second time
  through an event store saver is answered nil, and `Save` publishes a stream at a
  version the store has not got.
* `published_store_saver_shared` (`RecordedWasGiven`): new aggregates of one batch
  share the struct of the loop variable.

Others were met and have no run of their own:

* `Save` answers nil although its stream is not on the bus when an earlier stream that was still
  unpublished cannot be converted back into events (`eventsourcing/publisher.go:67`), while a client
  is told that the command was handled and waits for its events (`givenUp` of `EventSourcing`).
* `Stop` of a saver does not always return. The loop goes on after a tick only while the
  status is running (`store/eventstore/saver.go:144`), so that it may end with requests in
  the channel, for whose end `Stop` waits (`:160`), or in shards, whose callers it waits for
  (`:164`); a caller that came before the channel was made (`:83`) is stuck as well.
  `StopEndsUnlessLeftBehind` says when it does return, as the benchmark expects of it
  (`tests/benchmark_test.go:100`).
* After `FromCommandHandle` has returned a result, `FromEventHandle` can only time out: it
  waits for the first result again (`commanding/result.go:54`), while the README shows both
  as notifications to be had (`README.md:108`).
* A stopped bus that is started again may have two loops for up to a second, which race
  from the channel to the mailbox: the streams of one aggregate may change places
  (`InOrderWithOneLoop` without its condition is false). `Stop` returns and leaves streams
  in the channel that were published meanwhile.
* `Subscribe` and `AddProxy` change maps that running mailboxes read: a data race, which the
  Go runtime answers by ending the process. A mailbox that exists keeps the table from
  before `AddProxy`, and one created during it gets a table that is not filled yet, or nil
  for commands, into which nothing is ever written (`SetUpFirst` says what avoids it).
* `SaveSnapshot` of a saver that does not run only logs that: it then blocks for ever on
  the nil channel, or panics on the closed one (`store/snapshotstore/saver.go:60`).
* `PublishUnpublished` (`eventsourcing/publisher.go:221`) records nothing, though the
  README says published streams are recorded (`README.md:102`): each command that
  changes nothing publishes the same streams again. The feed allows repetition.
* The cached published version follows only from the version just below
  (`store/publishedstore/saver.go:89`). After two streams were published at once it stays
  behind, and each `Publish` of the process sends the tail of the log again.
* The dispatchers drop `IsAsync` (`eventing/dispatcher.go:88`), so the parallel handling
  of one event (`README.md:104`) does not take place with them.
* `errors.Join` at `messaging/mailbox.go:284` is given one error: that of an earlier event
  is lost from the text of the result.
* `FromCommandHandle` leaves the watch of the event stream registered.

## 6. What is proved

The theorems hold for every value of the constants: any number of dispatchers,
messages and incarnations, any number of processes, commands and crashes, any
handlers, subscriptions, shards and batch sizes. None of the properties is inductive
by itself; what follows names the invariants that are.

**`MailboxProofs`**: `TypeCorrect`, `SerialCorrect`, `RemovesItselfCorrect`,
`NeverSendsToNilCorrect`, `InOrderCorrect`, `ImplementsActorCorrect`,
`ExactlyOnePlaceCorrect`. That two workers are not handling messages at once depends on
how boxes come and go. `LifeInv` adds that only the newest box is alive, namely the one in
the map (`Linked`); that the dispatcher initializing a box is alone in that (`Creators`);
how status and channel follow the worker (`BoxState`); and that a sender past the spin
deals with a started box (`PastSpin`). `Serial`, `RemovesItself` and `NeverSendsToNil`
follow at once. `OrderInv` adds the order along the messages handled, the one in hand and
those in the channel of a box whose worker still takes from it; `InOrder` is its part
about the handled ones. The refinement maps the actor's queue to the channel of the box
in the map until it is closed. Each step is a step of the actor or none: `Close`, which
leaves what is in the channel, is `Abandon`; a sender whose box is open has the one in the
map (`LiveBox`). `PlaceInv` says that channels, hands and history are disjoint and hold
every accepted message, `Ordered` that none of them holds one twice, whence the
cardinality of `ExactlyOnePlace`.

**`EventSourcingProofs`**: `TypeCorrect`, `PublishedIsStoredCorrect`,
`PublishedVersionsAreDeliveredCorrect`, `AckedIsPublishedCorrect`,
`CachesArePrefixesCorrect`, and the refinement `ImplementsFeedCorrect`. The invariant
`IInv` says of each node that what it holds is a prefix of the log and that every version
it believes published is covered, all versions up to it being on the bus (`Knows`), and
where it is in `Publish` (`Progress`): at its end it has published its own stream, found it
published, or given up. Each step lets log and bus only grow (`Grow`), which
keeps the other nodes' part (`Same`). With `EventSaver` the theorems assume
`NoResendsToSaver`: every command is sent once. Without this assumption
`PublishedIsStored` is false, as `event_sourcing_phantom` shows; `Once` is the part of the
invariant that uses it. Without a saver nothing is assumed.

**`EventBusProofs`**: `TypeCorrect`, `TablesCorrectCorrect`, `SetUpFirstCorrect`,
`InOrderWithOneLoopCorrect`, `OnePlaceCorrect`, over `Dispatcher` and `EventBus`. `TypeOK` needs `Hands` and
`Homes`: who holds a message, and that a message in a mailbox has one. `TableInv` adds
to the uniform tables that the current one has all proxies around its entries
(`CurrentFits`) and misses as many of them as the lock says (`AsLocked`): none, the one
being subscribed, or any while a proxy is added. `SetUpInv` says that while nothing is
late the callers and mailboxes have the current table. That a mailbox is released
and made anew, with whatever table its next caller has read, is covered by this, as it
holds of every table. `OrderInv` is a line from the
channel over the loop's hand to the mailbox and what it has handled, in which numbers
rise (`LineUp`, `MailboxOrder`), as long as only one loop is alive (`OneLoop`).
`PlaceInv` needs no such condition: the messages are divided among six stations, the last for what
releases have lost (`Apart`), none twice at one (`OnceEach`), and each mailbox has only those of its
aggregate (`AtHome`); a step moves one message from a station to the next (`Moves`).

**`SnapshotStoreSaverProofs`**: `TypeCorrect`, `LagBoundedCorrect`, `SnapshotsApartCorrect`. The
counts alone are not inductive: why a version is far enough from the one saved depends on
all that has come since. `Coming(a)` is the set of versions the loop may still receive;
it shrinks with every step (`QueueInv`). `AheadInv` says that each of them is newer than
what is saved by more than the snapshots counted since, `SortedInv` and `SavingInv` what is
in the shards and in the batches being saved, `HeardInv` that the versions heard since
the last one taken are as many as counted. `BatchInv` says that the loop waits while a
batch is saved. `CountMoves` is the lemma for batches that leave their shard, full or
old; there is one lemma for each other kind of step. The versions handed over rise, as
they do when each `Save` has stored a stream (`Save`'s guard); nothing is assumed of the
store, the sharding or the number of starts.

**`SaverLoopProofs`** has no theorem of its own but the lemmas on channel, loop and
shards that both of the next modules use: which shard a received item, a tick and the end
of a run move into its batch (`SortFacts`, `TickFacts`), and `LoopInv`: the loop
waits while a batch is saved (`BatchInv`), and a channel is open only in the run that made
it (`RunInv`).

**`EventStoreSaverProofs`**: `TypeCorrect`, `HeldOnceCorrect`, `ImplementsAppenderCorrect`.
`HeldInv` says that a request is held exactly while its caller waits, at one place of the
channel or in the shard of its aggregate, and that none is left when a saver is stopped
or starts: this is why the new maps of a run (`MakeChannel`) lose nothing, and it follows from
what `Stop` waits for. `AskInv` ties what was asked to the caller. For the refinement
`StoredInv` says of a batch in `insert` which of its requests are stored, and of one
that answers nil that all are; requests of a batch are for different aggregates, so a
stored one disturbs no other. Then a turn of the store is the appender's
`Store`, an answer `Confirm` or `Refuse`, and all else a stutter. Nothing is assumed of
when the store fails or times out.

**`PublishedStoreSaverProofs`**: `TypeCorrect`, `RecordedWasGivenCorrect`,
`RecordedNeverFallsCorrect`. `OrderInv` is a line along which the versions of an
aggregate do not fall: recorded, in the batch, in the shard, in the channel, handed over
(`StoreInv`, `BatchesInv`, `QueueInv`); a batch has one item for an aggregate, so
that saving it again after a timeout changes nothing. The last two theorems assume
`NothingShared`: each turn of a loop has its own variable, as from Go 1.22 on or in a store
that keeps values, or, if the turns share it as `go.mod` says, each aggregate has a
shard of its own (`LoopCellInv` says why this is enough). Without this assumption they
are false: that is the run `published_store_saver_shared`.

**`CommandResultProofs`**: `TypeCorrect`, `NilMeansHandledCorrect`,
`FailedAreNamedCorrect`, `HandledInOrderCorrect`, `WatchedIsEmptyCorrect`,
`ReturnsWhatHappenedCorrect`, `SoleSenderMissesNothingCorrect`, over `MailHandling` and
`CommandResult`. `MailInv` is about the worker: for the mail in hand, which positions have
ended and how (`TurnInv`: those the loop has passed, and those put aside that are no
longer running); for the mails that are over, that there is no error exactly if all is
good (`ErrInv`); and that the names collected are in order and miss only those that
`JoinAsync` has still to add (`FailedInv`). `WatchInv` says that a sender found in the
registry has an empty channel and has asked for that key; `TrueInv` that what is on its
way or in a channel has happened, and `StreamWaits` that a sender waits for an event stream only
of a command reported changed; with these `ReturnsWhatHappened` is inductive. For the
last theorem `ActiveInv` says that nothing becomes of a command before it is sent, so that a
watch that is registered first misses nothing; `WaitInv` that a sender that is alone
with its command has its result in its channel or is still registered for it, and that
while it is registered, what has happened is on its way. Nothing is assumed of the order in which
results are passed on, nor of waits that time out.

The assumptions on constants are otherwise those of the modules (`MailboxAssumption`,
`EventSourcingAssumption`, `DispatcherAssumption`, `EventBusAssumption`,
`SaverLoopAssumption`, `SnapshotStoreSaverAssumption`, `EventStoreSaverAssumption`,
`PublishedStoreSaverAssumption`, `MailHandlingAssumption`, `CommandResultAssumption`), which
TLC evaluates. `TypeOK` of `Mailbox` and `EventSourcing` is proved and has no run.

## 7. What is only model-checked

All liveness (`DispatchReturns`, `AnsweredUnlessReleased`, `StoredIsPublished`,
`AnsweredWhileRunning`, `StopEndsUnlessLeftBehind`, `PublishedIsHandled`, `TakenIsSaved`),
which rests on fairness and so on `ENABLED`, out of the prover's reach. That the mail
handling never gets stuck (`Ascending` of a finite set has a member) is seen in the runs
only: its proof is an induction over the size of the set. That the disagreements of section 5
do occur is shown by TLC's counterexamples.

## 8. What is not modelled

* Serialization, conversion, error texts, extensions, statistics and logging: sequential
  code without shared state. A conversion that fails is a way out of `Query`, `QueryUnpublished`
  and `AppendFails` of `EventSourcing`.
* A release of a mailbox at a time when its channel is full, outside `Mailbox`: the
  mailboxes of `Dispatcher` have room for everything.
* The bus in `CommandResult` and `EventSourcing` is a queue: what `EventBus` says of a bus
  that is started once, and of mailboxes whose release loses nothing, stands for it.
* Loops of a saver from two runs at the same time: a restart in `SaverLoop` waits for the
  loop before, as the second that `Stop` sleeps mostly does.
* Snapshots of one aggregate handed over out of order, or by a process whose aggregate is
  behind the store.
* Time: a timer may fire at any moment, and a retry is one more turn of a loop.
* Stores other than the in-memory ones, beyond failing, and timing out with the work done
  or not.
