--------------------------- MODULE EventStoreSaver ---------------------------
(***************************************************************************)
(* DefaultEventStoreSaver (store/eventstore/saver.go) and the appending of *)
(* the in-memory event store behind it.  Channel, loop, Start and Stop are *)
(* in SaverLoop; the items are the requests, which wait for an answer.     *)
(***************************************************************************)
EXTENDS SaverLoop

CONSTANTS
  Requests,     \* calls of AppendEventStream
  Commands,
  Aggregates,
  AggregateOf,  \* command -> its aggregate
  ShardOf       \* ShardingAlgorithm: aggregate -> shard

ASSUME EventStoreSaverAssumption ==
  /\ AggregateOf \in [Commands -> Aggregates]
  /\ ShardOf \in [Aggregates -> Shards]

VARIABLES
  log,      \* aggregate -> commands of its stored streams, in version order
  asked,    \* request -> command and stream version of its data
  answers,  \* request -> what was written to its ResultCh
  rpc,      \* request -> where its caller is
  todo,     \* shard -> datas the store has not appended yet
  outcome   \* shard -> err of its batchSave

store == <<log>>
callers == <<asked, rpc>>
jobs == <<todo, outcome>>
own == <<store, callers, answers, jobs>>
vars == <<loopVars, own>>

NotAsked == <<>>
Cmd(r) == asked[r][1]
Ver(r) == asked[r][2]
Agg(r) == AggregateOf[Cmd(r)]

Stored(c) == \E v \in DOMAIN log[AggregateOf[c]] : log[AggregateOf[c]][v] = c

TypeOK ==
  /\ LoopTypeOK(Requests, {"append", "insert", "answer"})
  /\ log \in [Aggregates -> Seq(Commands)]
  /\ asked \in [Requests -> {NotAsked} \cup (Commands \X Nat)]
  /\ answers \in [Requests -> Seq({"nil", "error"})]
  /\ rpc \in [Requests -> {"new", "send", "stuck", "panicked", "waiting"}]
  /\ todo \in [Shards -> SUBSET Requests]
  /\ outcome \in [Shards -> {"nil", "error"}]

Init ==
  /\ LoopInit
  /\ log = [a \in Aggregates |-> <<>>]
  /\ asked = [r \in Requests |-> NotAsked]
  /\ answers = [r \in Requests |-> <<>>]
  /\ rpc = [r \in Requests |-> "new"]
  /\ todo = [s \in Shards |-> {}]
  /\ outcome = [s \in Shards |-> "nil"]

Answer(r, a) == answers' = [answers EXCEPT ![r] = Append(@, a)]

-----------------------------------------------------------------------------
(* AppendEventStream, on the goroutine of a caller, once the saver has     *)
(* been started.                                                           *)

\* Save asks for the version after the one it has restored, which another
\* process may have left behind.
Ask(r, c, v) ==
  /\ starts > 0
  /\ rpc[r] = "new"
  /\ asked' = [asked EXCEPT ![r] = <<c, v>>]
  /\ rpc' = [rpc EXCEPT ![r] = "send"]
  /\ UNCHANGED <<loopVars, store, answers, jobs>>

Send(r) ==
  /\ rpc[r] = "send"
  /\ Enqueue(r)
  /\ rpc' = [rpc EXCEPT ![r] = "waiting"]
  /\ UNCHANGED <<store, asked, answers, jobs>>

\* Start has returned, but its goroutine has not made the channel yet: the send
\* blocks for ever.  On the channel of a stopped saver it panics.
SendFails(r) ==
  /\ rpc[r] = "send"
  /\ \/ chan = "nil" /\ rpc' = [rpc EXCEPT ![r] = "stuck"]
     \/ chan = "closed" /\ rpc' = [rpc EXCEPT ![r] = "panicked"]
  /\ UNCHANGED <<loopVars, store, asked, answers, jobs>>

-----------------------------------------------------------------------------
(* The loop goroutine.                                                     *)

\* A request comes out of the channel into its shard, or is refused because one
\* of the same aggregate is there.
Receive ==
  /\ queue # <<>>
  /\ LET r == Head(queue)
         s == ShardOf[Agg(r)]
     IN \/ /\ \A q \in shards[s] : Agg(q) # Agg(r)
           /\ Sort(s, shards[s] \cup {r})
           /\ UNCHANGED own
        \/ /\ \E q \in shards[s] : Agg(q) = Agg(r)
           /\ Sort(s, shards[s])
           /\ Answer(r, "error")
           /\ UNCHANGED <<store, callers, jobs>>

-----------------------------------------------------------------------------
(* batchSave of shard s and AppendEventStream of the store.                *)

\* Faulty: the duplicate gets the store's error code.
SkipDuplicateAsError(s, r) ==
  /\ jpc[s] = "append"
  /\ r \in saving[s]
  /\ Stored(Cmd(r))
  /\ Answer(r, "DuplicateCommandID")
  /\ Drop(s, r)
  /\ UNCHANGED <<store, callers, jobs>>

\* Faulty: the duplicate stays in dataMapping.
SkipDuplicateKept(s, r) ==
  /\ jpc[s] = "append"
  /\ r \in saving[s]
  /\ Stored(Cmd(r))
  /\ Answer(r, "nil")
  /\ UNCHANGED <<loopVars, store, callers, jobs>>

\* The store knows the command of r: r is answered nil and the rest is tried
\* again.
SkipDuplicate(s, r) ==
  /\ jpc[s] = "append"
  /\ r \in saving[s]
  /\ Stored(Cmd(r))
  /\ Answer(r, "nil")
  /\ Drop(s, r)
  /\ UNCHANGED <<store, callers, jobs>>

\* There is no duplicate: the streams are appended in the order of the slice,
\* which is that of a Go map.
Insert(s) ==
  /\ jpc[s] = "append"
  /\ \A r \in saving[s] : ~ Stored(Cmd(r))
  /\ todo' = [todo EXCEPT ![s] = saving[s]]
  /\ Goto(s, "insert")
  /\ UNCHANGED <<store, callers, answers, outcome>>

InsertStream(s, r) ==
  /\ jpc[s] = "insert"
  /\ r \in todo[s]
  /\ Ver(r) = Len(log[Agg(r)]) + 1
  /\ log' = [log EXCEPT ![Agg(r)] = Append(@, Cmd(r))]
  /\ todo' = [todo EXCEPT ![s] = @ \ {r}]
  /\ UNCHANGED <<loopVars, callers, answers, outcome>>

Conclude(s, result) ==
  /\ outcome' = [outcome EXCEPT ![s] = result]
  /\ Goto(s, "answer")
  /\ UNCHANGED <<store, callers, answers, todo>>

\* A stream does not fit; those appended before it stay.
UnexpectedVersion(s) ==
  /\ jpc[s] = "insert"
  /\ \E r \in todo[s] : Ver(r) # Len(log[Agg(r)]) + 1
  /\ Conclude(s, "error")

AllInserted(s) ==
  /\ jpc[s] = "insert"
  /\ todo[s] = {}
  /\ Conclude(s, "nil")

\* Another store than the in-memory one may fail anywhere.
StoreFails(s) ==
  /\ jpc[s] \in {"append", "insert"}
  /\ Conclude(s, "error")

\* Its answer may also be lost: batchSave tries again after a timeout.
StoreTimesOut(s) ==
  /\ jpc[s] = "insert"
  /\ Goto(s, "append")
  /\ UNCHANGED own

\* Faulty: the batch's error is not passed on.
AnswerNil(s, r) ==
  /\ jpc[s] = "answer"
  /\ r \in saving[s]
  /\ Answer(r, "nil")
  /\ Drop(s, r)
  /\ UNCHANGED <<store, callers, jobs>>

\* Faulty: nobody is told of an error.
AnswerSuccess(s, r) ==
  /\ jpc[s] = "answer"
  /\ r \in saving[s]
  /\ IF outcome[s] = "nil" THEN Answer(r, "nil") ELSE UNCHANGED answers
  /\ Drop(s, r)
  /\ UNCHANGED <<store, callers, jobs>>

\* One of the requests left in the batch gets the batch's error or nil.
AnswerOne(s, r) ==
  /\ jpc[s] = "answer"
  /\ r \in saving[s]
  /\ Answer(r, outcome[s])
  /\ Drop(s, r)
  /\ UNCHANGED <<store, callers, jobs>>

BatchDone(s) ==
  /\ jpc[s] = "answer"
  /\ saving[s] = {}
  /\ Goto(s, "none")
  /\ UNCHANGED own

-----------------------------------------------------------------------------
CallerStep(r) ==
  \/ \E c \in Commands : \E v \in 1..(Len(log[AggregateOf[c]]) + 1) : Ask(r, c, v)
  \/ Send(r) \/ SendFails(r)

AppendStep(s) ==
  (\E r \in Requests : InsertStream(s, r)) \/ UnexpectedVersion(s) \/ AllInserted(s)

JobStep(s) ==
  \/ \E r \in Requests : SkipDuplicate(s, r) \/ AnswerOne(s, r)
  \/ Insert(s) \/ AppendStep(s) \/ BatchDone(s)

\* Command handlers in Save count for goroutine.Wait.
InSave(r) == rpc[r] \in {"send", "stuck"} \/ (rpc[r] = "waiting" /\ answers[r] = <<>>)

LifeStep ==
  (StopClose \/ StopEnd(\A r \in Requests : ~ InSave(r)) \/ LoopStep) /\ UNCHANGED own

Next ==
  \/ \E r \in Requests : CallerStep(r)
  \/ Receive \/ LifeStep
  \/ (Start \/ StopBegin \/ \E due \in SUBSET timed : Tick(due)) /\ UNCHANGED own
  \/ \E s \in Shards : JobStep(s) \/ StoreFails(s) \/ StoreTimesOut(s)

Spec == Init /\ [][Next]_vars

\* Goroutines that can run do; select is fair to its ready cases; shards grow
\* old; the store does not always time out.
Fairness ==
  /\ \A r \in Requests : SF_vars(Send(r)) /\ WF_vars(SendFails(r))
  /\ WF_vars(LifeStep)
  /\ SF_vars(Receive)
  /\ \A s \in Shards : /\ SF_vars(\E due \in SUBSET timed : s \in due /\ Tick(due) /\ UNCHANGED own)
                       /\ WF_vars(JobStep(s))
                       /\ SF_vars(AppendStep(s))
  /\ WF_vars(Tick(timed) /\ UNCHANGED own)

FairSpec == Spec /\ Fairness

-----------------------------------------------------------------------------
Unanswered(r) == rpc[r] = "waiting" /\ answers[r] = <<>>

\* Where request r is.
Holders(r) ==
  {<<"queue", i>> : i \in {j \in DOMAIN queue : queue[j] = r}}
  \cup {<<"shard", s>> : s \in {t \in Shards : r \in shards[t]}}
  \cup {<<"saving", s>> : s \in {t \in Shards : r \in saving[t]}}

(* A request that waits for its answer is in one place, from which alone   *)
(* the answer can come, and an answered one is in none: nobody is answered *)
(* twice, and stopping or restarting the saver takes no request out of it. *)
HeldOnce ==
  \A r \in Requests : Cardinality(Holders(r)) = (IF Unanswered(r) THEN 1 ELSE 0)

Appender == INSTANCE EventAppender

(* The saver appends as EventAppender says: batches, shards, retries and    *)
(* lost answers of the store never store a command twice or at another     *)
(* version, and never confirm what is not stored.                          *)
ImplementsAppender == Appender!Spec

(* A request taken over by a running saver is answered.                    *)
AnsweredWhileRunning ==
  \A r \in Requests : Unanswered(r) ~> ~ Unanswered(r) \/ status # "running"

\* The loop has ended before everything was saved, or a sender has met the channel
\* before it was made.
LeftBehind ==
  \/ lpc = "none" /\ (queue # <<>> \/ \E s \in Shards : shards[s] # {})
  \/ \E r \in Requests : rpc[r] = "stuck"

(* Stop returns, unless requests are left behind: what is being saved or    *)
(* refused, and who panics on the closed channel, does not keep it waiting.*)
StopEndsUnlessLeftBehind ==
  spc # "none" ~> spc = "none" \/ LeftBehind
=============================================================================
