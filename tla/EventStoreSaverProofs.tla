------------------------- MODULE EventStoreSaverProofs -------------------------
(***************************************************************************)
(* Theorems about EventStoreSaver, for any requests, commands, aggregates, *)
(* shards and batch sizes, any number of starts, and a store that fails or *)
(* loses its answer anywhere.                                              *)
(***************************************************************************)
EXTENDS EventStoreSaver, SaverLoopProofs, FiniteSetTheorems

USE EventStoreSaverAssumption DEF EventStoreSaverAssumption

Labels == {"append", "insert", "answer"}

Home(r) == ShardOf[Agg(r)]

OwnTypeOK ==
  /\ log \in [Aggregates -> Seq(Commands)]
  /\ asked \in [Requests -> {NotAsked} \cup (Commands \X Nat)]
  /\ answers \in [Requests -> Seq({"nil", "error"})]
  /\ rpc \in [Requests -> {"new", "send", "stuck", "panicked", "waiting"}]
  /\ todo \in [Shards -> SUBSET Requests]
  /\ outcome \in [Shards -> {"nil", "error"}]

LEMMA TypeParts ==
  /\ TypeOK <=> LoopTypeOK(Requests, Labels) /\ OwnTypeOK
  /\ TypeOK' <=> LoopTypeOK(Requests, Labels)' /\ OwnTypeOK'
  BY DEF TypeOK, OwnTypeOK, Labels

\* A request has been asked once its caller has left the beginning, and is answered only
\* while its caller waits.
AskInv ==
  \A r \in Requests : /\ asked[r] = NotAsked <=> rpc[r] = "new"
                      /\ rpc[r] # "waiting" => answers[r] = <<>>

\* What is asked for has a command, a version, an aggregate and a shard.
LEMMA AskedFacts ==
  ASSUME OwnTypeOK, AskInv, NEW r \in Requests, rpc[r] # "new"
  PROVE  /\ Cmd(r) \in Commands /\ Ver(r) \in Nat /\ asked[r] = <<Cmd(r), Ver(r)>>
         /\ Agg(r) \in Aggregates /\ Home(r) \in Shards
<1>1. asked[r] \in Commands \X Nat
  BY DEF OwnTypeOK, AskInv
<1>2. QED
  BY <1>1 DEF Cmd, Ver, Agg, Home

InQueue(r) == \E i \in DOMAIN queue : queue[i] = r
Held(r) == InQueue(r) \/ \E s \in Shards : r \in shards[s] \cup saving[s]

\* A request is held exactly while it waits for its answer; it has one place in the
\* channel and is in no shard but its own; and no request is left in a saver that is
\* stopped or starting, which is why a new run may begin with empty maps.
HeldInv ==
  /\ \A i, j \in DOMAIN queue : queue[i] = queue[j] => i = j
  /\ \A s \in Shards : \A r \in shards[s] \cup saving[s] : Home(r) = s /\ ~ InQueue(r)
  /\ \A s \in Shards : shards[s] \cap saving[s] = {}
  /\ \A r \in Requests : Held(r) <=> Unanswered(r)
  /\ status = "stop" \/ lpc = "make" => \A r \in Requests : ~ Unanswered(r)

\* The requests of a batch are for different aggregates, and which of them are stored
\* is known all along.
StoredInv ==
  \A s \in Shards :
    /\ \A q, r \in shards[s] : Agg(q) = Agg(r) => q = r
    /\ \A q, r \in saving[s] : Agg(q) = Agg(r) => q = r
    /\ jpc[s] = "insert" => /\ todo[s] \subseteq saving[s]
                            /\ \A r \in saving[s] : Stored(Cmd(r)) <=> r \notin todo[s]
    /\ jpc[s] = "answer" /\ outcome[s] = "nil" => \A r \in saving[s] : Stored(Cmd(r))

IInv == TypeOK /\ LoopInv /\ AskInv /\ HeldInv /\ StoredInv

LEMMA Initial == Init => IInv
<1> SUFFICES ASSUME Init PROVE IInv
  OBVIOUS
<1>1. LoopTypeOK(Requests, Labels) /\ LoopInv
  BY LoopInitial DEF Init
<1>2. OwnTypeOK
  BY DEF Init, OwnTypeOK
<1>3. AskInv /\ HeldInv /\ StoredInv
  BY DEF Init, LoopInit, AskInv, HeldInv, StoredInv, Held, InQueue, Unanswered
<1>4. QED
  BY <1>1, <1>2, <1>3, TypeParts DEF IInv

-----------------------------------------------------------------------------
(* Types, and what every step is for SaverLoop.                            *)

LEMMA QueueFacts ==
  ASSUME LoopTypeOK(Requests, Labels), queue # <<>>
  PROVE  /\ queue \in Seq(Requests) /\ Head(queue) \in Requests /\ InQueue(Head(queue))
<1>1. queue \in Seq(Requests)
  BY DEF LoopTypeOK
<1>2. QED
  BY <1>1, TailFacts DEF InQueue

\* A request that is received is waited for, so that it has a shard.
LEMMA ReceiveFacts ==
  ASSUME IInv, Receive
  PROVE  \E r \in Requests, items \in SUBSET Requests :
           /\ queue # <<>> /\ queue \in Seq(Requests)
           /\ r = Head(queue) /\ Unanswered(r) /\ Home(r) \in Shards
           /\ Sort(Home(r), items)
           /\ UNCHANGED <<store, callers, jobs>>
           /\ \/ /\ \A q \in shards[Home(r)] : Agg(q) # Agg(r)
                 /\ items = shards[Home(r)] \cup {r}
                 /\ UNCHANGED answers
              \/ items = shards[Home(r)] /\ Answer(r, "error")
<1> DEFINE r == Head(queue)
<1>1. LoopTypeOK(Requests, Labels) /\ OwnTypeOK
  BY TypeParts DEF IInv
<1>2. queue # <<>>
  BY DEF Receive
<1>3. queue \in Seq(Requests) /\ r \in Requests /\ InQueue(r)
  BY <1>1, <1>2, QueueFacts
<1>4. Unanswered(r)
  BY <1>3 DEF IInv, HeldInv, Held
<1>5. Home(r) \in Shards
  BY <1>1, <1>3, <1>4, AskedFacts DEF Unanswered, IInv
<1>6. shards[Home(r)] \in SUBSET Requests
  BY <1>1, <1>5 DEF LoopTypeOK
<1>7. \/ /\ \A q \in shards[Home(r)] : Agg(q) # Agg(r)
         /\ Sort(Home(r), shards[Home(r)] \cup {r})
         /\ UNCHANGED own
      \/ /\ Sort(Home(r), shards[Home(r)])
         /\ Answer(r, "error")
         /\ UNCHANGED <<store, callers, jobs>>
  BY DEF Receive, Home
<1> HIDE DEF r
<1>8. r = Head(queue)
  BY DEF r
<1>9. CASE /\ \A q \in shards[Home(r)] : Agg(q) # Agg(r)
           /\ Sort(Home(r), shards[Home(r)] \cup {r})
           /\ UNCHANGED own
  <2>1. shards[Home(r)] \cup {r} \in SUBSET Requests
    BY <1>3, <1>6
  <2>2. UNCHANGED <<store, callers, answers, jobs>>
    BY <1>9 DEF own
  <2>3. QED
    BY <1>2, <1>3, <1>4, <1>5, <1>8, <1>9, <2>1, <2>2
<1>10. CASE /\ Sort(Home(r), shards[Home(r)])
            /\ Answer(r, "error")
            /\ UNCHANGED <<store, callers, jobs>>
  BY <1>2, <1>3, <1>4, <1>5, <1>6, <1>8, <1>10
<1>11. QED
  BY <1>7, <1>9, <1>10

\* An answer to a request that waits.
LEMMA AnswerFacts ==
  ASSUME OwnTypeOK, NEW r \in Requests, NEW a \in {"nil", "error"},
         answers[r] = <<>>, Answer(r, a)
  PROVE  /\ answers' \in [Requests -> Seq({"nil", "error"})]
         /\ answers' = [answers EXCEPT ![r] = <<a>>]
         /\ answers'[r] # <<>>
         /\ \A q \in Requests \ {r} : answers'[q] = answers[q]
<1>1. answers \in [Requests -> Seq({"nil", "error"})]
  BY DEF OwnTypeOK
<1>2. Append(<<>>, a) = <<a>> /\ <<a>> \in Seq({"nil", "error"}) /\ <<a>> # <<>>
  OBVIOUS
<1>3. QED
  BY <1>1, <1>2 DEF Answer

\* The steps that answer a request of a batch, and those that do not.
Answers(s, r) == SkipDuplicate(s, r) \/ AnswerOne(s, r)
Saves(s) ==
  \/ Insert(s) \/ AppendStep(s) \/ BatchDone(s) \/ StoreFails(s) \/ StoreTimesOut(s)

LEMMA AnswersFacts ==
  ASSUME IInv, NEW s \in Shards, NEW r \in Requests, Answers(s, r)
  PROVE  /\ jpc[s] # "none" /\ r \in saving[s] /\ Unanswered(r) /\ Drop(s, r)
         /\ UNCHANGED <<store, callers, jobs>>
         /\ \E a \in {"nil", "error"} :
              /\ Answer(r, a)
              /\ a = "nil" => Stored(Cmd(r))
<1>1. outcome[s] \in {"nil", "error"}
  BY TypeParts DEF IInv, OwnTypeOK
<1>2. jpc[s] # "none" /\ r \in saving[s] /\ Drop(s, r) /\ UNCHANGED <<store, callers, jobs>>
  BY DEF Answers, SkipDuplicate, AnswerOne
<1>3. Unanswered(r)
  BY <1>2 DEF IInv, HeldInv, Held
<1>4. CASE SkipDuplicate(s, r)
  BY <1>2, <1>3, <1>4 DEF SkipDuplicate
<1>5. CASE AnswerOne(s, r)
  BY <1>1, <1>2, <1>3, <1>5 DEF AnswerOne, IInv, StoredInv
<1>6. QED
  BY <1>4, <1>5 DEF Answers

LEMMA StepIsLoopAction ==
  ASSUME IInv, [Next]_vars
  PROVE  LoopAction(Requests, Labels)
<1>1. ASSUME NEW r \in Requests, CallerStep(r) PROVE LoopAction(Requests, Labels)
  BY <1>1 DEF CallerStep, Ask, Send, SendFails, LoopAction
<1>2. CASE Receive
  <2>1. PICK r \in Requests, items \in SUBSET Requests :
          queue # <<>> /\ Home(r) \in Shards /\ Sort(Home(r), items)
    BY <1>2, ReceiveFacts
  <2>2. QED
    BY <2>1 DEF LoopAction
<1>3. CASE LifeStep
  <2>1. StopEnd(\A r \in Requests : ~ InSave(r)) => StopEnd(TRUE)
    BY DEF StopEnd
  <2>2. QED
    BY <1>3, <2>1 DEF LifeStep, LoopStep, LoopAction
<1>4. CASE (Start \/ StopBegin \/ \E due \in SUBSET timed : Tick(due)) /\ UNCHANGED own
  BY <1>4 DEF LoopAction
<1>5. ASSUME NEW s \in Shards, NEW r \in Requests, Answers(s, r)
      PROVE  LoopAction(Requests, Labels)
  BY <1>5, AnswersFacts DEF LoopAction
<1>6. ASSUME NEW s \in Shards, Saves(s) PROVE LoopAction(Requests, Labels)
  <2>1. CASE \E label \in Labels : jpc[s] # "none" /\ Goto(s, label)
    BY <2>1 DEF LoopAction
  <2>2. CASE UNCHANGED loopVars
    BY <2>2 DEF LoopAction
  <2>3. CASE BatchDone(s)
    BY <2>3 DEF BatchDone, LoopAction
  <2>4. QED
    BY <1>6, <2>1, <2>2, <2>3
       DEF Saves, Insert, AppendStep, InsertStream, UnexpectedVersion, AllInserted,
           StoreFails, StoreTimesOut, Conclude, Labels
<1>7. CASE UNCHANGED vars
  BY <1>7 DEF vars, LoopAction
<1>8. QED
  BY <1>1, <1>2, <1>3, <1>4, <1>5, <1>6, <1>7 DEF Next, JobStep, Answers, Saves

LEMMA LoopPartStep ==
  ASSUME IInv, [Next]_vars
  PROVE  LoopTypeOK(Requests, Labels)' /\ LoopInv'
<1>1. LoopTypeOK(Requests, Labels) /\ LoopInv
  BY TypeParts DEF IInv
<1>2. "append" \in Labels /\ "none" \notin Labels
  BY DEF Labels
<1>3. QED
  BY <1>1, <1>2, StepIsLoopAction, LoopTypeStep, LoopInvStep

LEMMA OwnTypeStep ==
  ASSUME IInv, [Next]_vars
  PROVE  OwnTypeOK'
<1>1. OwnTypeOK
  BY TypeParts DEF IInv
<1>2. UNCHANGED own => OwnTypeOK'
  BY <1>1 DEF OwnTypeOK, own, store, callers, jobs
<1>3. ASSUME NEW r \in Requests, NEW a \in {"nil", "error"}, Unanswered(r), Answer(r, a),
             UNCHANGED <<store, callers, jobs>>
      PROVE  OwnTypeOK'
  <2>1. answers' \in [Requests -> Seq({"nil", "error"})]
    BY <1>1, <1>3, AnswerFacts DEF Unanswered
  <2>2. QED
    BY <1>1, <1>3, <2>1 DEF OwnTypeOK, store, callers, jobs
<1>4. ASSUME NEW r \in Requests, CallerStep(r) PROVE OwnTypeOK'
  <2>1. ASSUME NEW c \in Commands, NEW v \in 1..(Len(log[AggregateOf[c]]) + 1), Ask(r, c, v)
        PROVE  OwnTypeOK'
    <3>1. log[AggregateOf[c]] \in Seq(Commands)
      BY <1>1 DEF OwnTypeOK
    <3>2. v \in Nat
      BY <3>1
    <3>3. QED
      BY <1>1, <2>1, <3>2 DEF OwnTypeOK, Ask, store, jobs
  <2>2. CASE Send(r) \/ SendFails(r)
    BY <1>1, <2>2 DEF OwnTypeOK, Send, SendFails, store, jobs
  <2>3. QED
    BY <1>4, <2>1, <2>2 DEF CallerStep
<1>5. CASE Receive
  <2>1. PICK r \in Requests : /\ Unanswered(r) /\ UNCHANGED <<store, callers, jobs>>
                              /\ UNCHANGED answers \/ Answer(r, "error")
    BY <1>5, ReceiveFacts
  <2>2. QED
    BY <1>2, <1>3, <2>1 DEF own
<1>6. CASE LifeStep
  BY <1>2, <1>6 DEF LifeStep
<1>7. ASSUME NEW s \in Shards, NEW r \in Requests, Answers(s, r) PROVE OwnTypeOK'
  BY <1>3, <1>7, AnswersFacts
<1>8. ASSUME NEW s \in Shards, Saves(s) PROVE OwnTypeOK'
  <2>1. CASE Insert(s)
    <3>1. saving[s] \in SUBSET Requests
      BY TypeParts DEF IInv, LoopTypeOK
    <3>2. QED
      BY <1>1, <2>1, <3>1 DEF OwnTypeOK, Insert, store, callers
  <2>2. ASSUME NEW r \in Requests, InsertStream(s, r) PROVE OwnTypeOK'
    <3>1. r \in saving[s]
      BY <2>2 DEF IInv, StoredInv, InsertStream
    <3>2. rpc[r] # "new"
      BY <3>1 DEF IInv, HeldInv, Held, Unanswered
    <3>3. Cmd(r) \in Commands /\ Agg(r) \in Aggregates
      BY <1>1, <3>2, AskedFacts DEF IInv
    <3>4. Append(log[Agg(r)], Cmd(r)) \in Seq(Commands)
      BY <1>1, <3>3, AppendFacts DEF OwnTypeOK
    <3>5. QED
      BY <1>1, <2>2, <3>4 DEF OwnTypeOK, InsertStream, callers
  <2>3. CASE UnexpectedVersion(s) \/ AllInserted(s) \/ StoreFails(s)
    BY <1>1, <2>3 DEF OwnTypeOK, UnexpectedVersion, AllInserted, StoreFails, Conclude,
                      store, callers
  <2>4. CASE BatchDone(s) \/ StoreTimesOut(s)
    BY <1>2, <2>4 DEF BatchDone, StoreTimesOut
  <2>5. QED
    BY <1>8, <2>1, <2>2, <2>3, <2>4 DEF Saves, AppendStep
<1>9. CASE UNCHANGED vars
  BY <1>2, <1>9 DEF vars
<1>10. QED
  BY <1>2, <1>4, <1>5, <1>6, <1>7, <1>8, <1>9 DEF Next, JobStep, Answers, Saves

LEMMA AskStep ==
  ASSUME IInv, [Next]_vars
  PROVE  AskInv'
<1>0. OwnTypeOK /\ AskInv
  BY TypeParts DEF IInv
<1>1. UNCHANGED <<asked, rpc, answers>> => AskInv'
  BY <1>0 DEF AskInv
<1>2. ASSUME NEW r \in Requests, NEW a \in {"nil", "error"}, Unanswered(r), Answer(r, a),
             UNCHANGED callers
      PROVE  AskInv'
  <2>1. \A q \in Requests \ {r} : answers'[q] = answers[q]
    BY <1>0, <1>2, AnswerFacts DEF Unanswered
  <2>2. QED
    BY <1>0, <1>2, <2>1 DEF AskInv, Unanswered, callers
<1>3. ASSUME NEW r \in Requests, CallerStep(r) PROVE AskInv'
  <2>1. ASSUME NEW c, NEW v, Ask(r, c, v) PROVE AskInv'
    <3>1. <<c, v>> # NotAsked
      BY DEF NotAsked
    <3>2. QED
      BY <1>0, <2>1, <3>1 DEF OwnTypeOK, AskInv, Ask
  <2>2. CASE Send(r) \/ SendFails(r)
    BY <1>0, <2>2 DEF OwnTypeOK, AskInv, Send, SendFails
  <2>3. QED
    BY <1>3, <2>1, <2>2 DEF CallerStep
<1>4. CASE Receive
  <2>1. PICK r \in Requests : /\ Unanswered(r) /\ UNCHANGED callers
                              /\ UNCHANGED answers \/ Answer(r, "error")
    BY <1>4, ReceiveFacts
  <2>2. QED
    BY <1>1, <1>2, <2>1 DEF callers
<1>5. ASSUME NEW s \in Shards, NEW r \in Requests, Answers(s, r) PROVE AskInv'
  BY <1>2, <1>5, AnswersFacts
<1>6. ASSUME NEW s \in Shards, Saves(s) PROVE AskInv'
  BY <1>1, <1>6 DEF Saves, Insert, AppendStep, InsertStream, UnexpectedVersion, AllInserted,
                    BatchDone, StoreFails, StoreTimesOut, Conclude, own, callers
<1>7. CASE UNCHANGED own
  BY <1>1, <1>7 DEF own, callers
<1>8. QED
  BY <1>3, <1>4, <1>5, <1>6, <1>7 DEF Next, LifeStep, JobStep, Answers, Saves, vars

-----------------------------------------------------------------------------
(* Requests are held while they wait.                                      *)

\* Steps that move no request and answer none.
LEMMA HeldKept ==
  ASSUME IInv, UNCHANGED <<queue, shards, saving>>,
         \A r \in Requests : /\ Unanswered(r)' <=> Unanswered(r)
                             /\ Unanswered(r) => asked'[r] = asked[r],
         status' = "stop" \/ lpc' = "make" => \A r \in Requests : ~ Unanswered(r)
  PROVE  HeldInv'
<1>1. \A r \in Requests : Held(r)' <=> Held(r)
  BY DEF Held, InQueue
<1>2. \A s \in Shards : \A r \in shards[s] \cup saving[s] : r \in Requests /\ Unanswered(r)
  BY TypeParts DEF IInv, LoopTypeOK, HeldInv, Held
<1>3. \A s \in Shards : \A r \in shards[s] \cup saving[s] :
        Home(r)' = Home(r) /\ ~ InQueue(r)'
  BY <1>2 DEF IInv, HeldInv, Home, Agg, Cmd, InQueue
<1>4. QED
  BY <1>1, <1>3 DEF IInv, HeldInv

LEMMA SendHeld ==
  ASSUME IInv, NEW r \in Requests, Send(r)
  PROVE  HeldInv'
<1>0. LoopTypeOK(Requests, Labels) /\ OwnTypeOK
  BY TypeParts DEF IInv
<1>1. /\ rpc[r] = "send" /\ chan = "open" /\ rpc' = [rpc EXCEPT ![r] = "waiting"]
      /\ queue' = Append(queue, r)
      /\ UNCHANGED <<asked, answers, status, lpc, shards, saving>>
  BY DEF Send, Enqueue, CanSend, life, sorting, batches
<1>2. /\ queue \in Seq(Requests)
      /\ \A i \in DOMAIN queue : i \in Nat /\ i <= Len(queue) /\ queue'[i] = queue[i]
      /\ queue'[Len(queue) + 1] = r /\ Len(queue) \in Nat
      /\ DOMAIN queue' = DOMAIN queue \cup {Len(queue) + 1}
  BY <1>0, <1>1, AppendFacts DEF LoopTypeOK
<1>3. /\ Unanswered(r)' /\ ~ Unanswered(r)
      /\ \A q \in Requests \ {r} : Unanswered(q)' <=> Unanswered(q)
  BY <1>0, <1>1 DEF OwnTypeOK, IInv, AskInv, Unanswered
<1>4. ~ Held(r)
  BY <1>3 DEF IInv, HeldInv
<1>5. \A q : InQueue(q)' <=> InQueue(q) \/ q = r
  BY <1>2 DEF InQueue
<1>6. \A i, j \in DOMAIN queue' : queue'[i] = queue'[j] => i = j
  BY <1>2, <1>4 DEF IInv, HeldInv, Held, InQueue
<1>7. \A s \in Shards : \A q \in shards[s] \cup saving[s] : Home(q)' = s /\ ~ InQueue(q)'
  BY <1>1, <1>4, <1>5 DEF IInv, HeldInv, Held, Home, Agg, Cmd
<1>8. \A q \in Requests : Held(q)' <=> Unanswered(q)'
  BY <1>1, <1>3, <1>5 DEF IInv, HeldInv, Held
<1>9. status # "stop" /\ lpc # "make"
  BY <1>1 DEF IInv, LoopInv, RunInv
<1>10. QED
  BY <1>1, <1>6, <1>7, <1>8, <1>9 DEF IInv, HeldInv

LEMMA ReceiveHeld ==
  ASSUME IInv, Receive
  PROVE  HeldInv'
<1>0. LoopTypeOK(Requests, Labels) /\ OwnTypeOK /\ BatchInv
  BY TypeParts DEF IInv, LoopInv
<1>1. PICK r \in Requests, items \in SUBSET Requests :
        /\ queue # <<>> /\ queue \in Seq(Requests)
        /\ r = Head(queue) /\ Unanswered(r) /\ Home(r) \in Shards
        /\ Sort(Home(r), items)
        /\ UNCHANGED <<store, callers, jobs>>
        /\ \/ items = shards[Home(r)] \cup {r} /\ UNCHANGED answers
           \/ items = shards[Home(r)] /\ Answer(r, "error")
  BY ReceiveFacts
<1>2. PICK s \in Shards : s = Home(r)
  BY <1>1
<1>3. /\ lpc = "select" /\ lpc' \in {"select", "batch"} /\ queue' = Tail(queue)
      /\ \A t \in Shards : saving[t] = {}
      /\ \A t \in Shards \ {s} : shards'[t] = shards[t] /\ saving'[t] = {}
      /\ \/ shards'[s] = items /\ saving'[s] = {}
         \/ shards'[s] = {} /\ saving'[s] = items
      /\ UNCHANGED status
  BY <1>0, <1>1, <1>2, SortFacts DEF life
<1>4. /\ r = queue[1] /\ 1 \in DOMAIN queue
      /\ \A i \in DOMAIN queue : i = 1 \/ (i - 1 \in DOMAIN queue' /\ queue'[i - 1] = queue[i])
      /\ \A i \in DOMAIN queue' : /\ i \in Nat /\ i + 1 \in DOMAIN queue /\ 1 < i + 1
                                  /\ queue'[i] = queue[i + 1]
  BY <1>1, <1>3, TailFacts
<1>5. \A i, j \in DOMAIN queue : queue[i] = queue[j] => i = j
  BY DEF IInv, HeldInv
<1>6. \A i, j \in DOMAIN queue' : queue'[i] = queue'[j] => i = j
  BY <1>4, <1>5
<1>7. \A q : InQueue(q)' <=> InQueue(q) /\ q # r
  BY <1>4, <1>5 DEF InQueue
<1>8. InQueue(r) /\ \A t \in Shards : r \notin shards[t]
  BY <1>4 DEF InQueue, IInv, HeldInv
<1>9. asked' = asked
  BY <1>1 DEF callers
<1>10. \A t \in Shards : /\ shards'[t] \cap saving'[t] = {}
                         /\ \A q : q \in shards'[t] \cup saving'[t] <=>
                                     q \in shards[t] \/ (q \in items /\ t = s)
  BY <1>1, <1>2, <1>3
<1>11. \A t \in Shards : \A q \in shards'[t] \cup saving'[t] : Home(q)' = t /\ ~ InQueue(q)'
  <2> SUFFICES ASSUME NEW t \in Shards, NEW q \in shards'[t] \cup saving'[t]
               PROVE  Home(q)' = t /\ ~ InQueue(q)'
    OBVIOUS
  <2>1. q \in shards[t] \/ (q = r /\ t = s)
    BY <1>1, <1>2, <1>10
  <2>2. Home(q) = t /\ (q = r \/ ~ InQueue(q))
    BY <1>2, <2>1 DEF IInv, HeldInv
  <2>3. QED
    BY <1>7, <1>9, <2>2 DEF Home, Agg, Cmd
<1>12. \A q \in Requests : Held(q)' <=> Unanswered(q)'
  <2>1. CASE items = shards[Home(r)] \cup {r} /\ UNCHANGED answers
    <3>1. \A q \in Requests : Unanswered(q)' <=> Unanswered(q)
      BY <1>1, <2>1 DEF Unanswered, callers
    <3>2. \A q \in Requests : Held(q)' <=> Held(q)
      BY <1>1, <1>2, <1>3, <1>7, <1>8, <1>10, <2>1 DEF Held
    <3>3. QED
      BY <3>1, <3>2 DEF IInv, HeldInv
  <2>2. CASE items = shards[Home(r)] /\ Answer(r, "error")
    <3>1. ~ Unanswered(r)' /\ \A q \in Requests \ {r} : Unanswered(q)' <=> Unanswered(q)
      BY <1>0, <1>1, <2>2, AnswerFacts DEF Unanswered, callers
    <3>2. ~ Held(r)' /\ \A q \in Requests \ {r} : Held(q)' <=> Held(q)
      BY <1>1, <1>2, <1>3, <1>7, <1>8, <1>10, <2>2 DEF Held
    <3>3. QED
      BY <3>1, <3>2 DEF IInv, HeldInv
  <2>3. QED
    BY <1>1, <2>1, <2>2
<1>13. status' # "stop" /\ lpc' # "make"
  BY <1>1, <1>3 DEF IInv, HeldInv
<1>14. QED
  BY <1>6, <1>10, <1>11, <1>12, <1>13 DEF HeldInv

LEMMA AnswersHeld ==
  ASSUME IInv, NEW s \in Shards, NEW r \in Requests, Answers(s, r)
  PROVE  HeldInv'
<1>0. LoopTypeOK(Requests, Labels) /\ OwnTypeOK /\ BatchInv
  BY TypeParts DEF IInv, LoopInv
<1>1. PICK a \in {"nil", "error"} :
        /\ jpc[s] # "none" /\ r \in saving[s] /\ Unanswered(r) /\ Drop(s, r)
        /\ UNCHANGED callers /\ Answer(r, a)
  BY AnswersFacts
<1>2. /\ saving' = [saving EXCEPT ![s] = @ \ {r}] /\ saving \in [Shards -> SUBSET Requests]
      /\ UNCHANGED <<queue, shards, status, lpc, asked, rpc>>
  BY <1>0, <1>1 DEF LoopTypeOK, Drop, life, channel, sorting, callers
<1>3. ~ Unanswered(r)' /\ \A q \in Requests \ {r} : Unanswered(q)' <=> Unanswered(q)
  BY <1>0, <1>1, <1>2, AnswerFacts DEF Unanswered
<1>4. \A q : InQueue(q)' <=> InQueue(q)
  BY <1>2 DEF InQueue
<1>5. \A t \in Shards : r \in shards[t] \cup saving[t] => t = s /\ r \notin shards[t]
  BY <1>1 DEF IInv, HeldInv
<1>6. ~ InQueue(r)
  BY <1>1 DEF IInv, HeldInv
<1>7. \A t \in Shards : \A q : q \in shards'[t] \cup saving'[t] <=>
                                 q \in shards[t] \cup saving[t] /\ q # r
  BY <1>2, <1>5
<1>8. ~ Held(r)' /\ \A q \in Requests \ {r} : Held(q)' <=> Held(q)
  BY <1>4, <1>6, <1>7 DEF Held
<1>9. \A t \in Shards : \A q \in shards'[t] \cup saving'[t] : Home(q)' = t /\ ~ InQueue(q)'
  BY <1>2, <1>4, <1>7 DEF IInv, HeldInv, Home, Agg, Cmd
<1>10. \A t \in Shards : shards'[t] \cap saving'[t] = {}
  BY <1>2 DEF IInv, HeldInv
<1>11. status' # "stop" /\ lpc' # "make"
  BY <1>1, <1>2 DEF IInv, HeldInv
<1>12. QED
  BY <1>2, <1>3, <1>8, <1>9, <1>10, <1>11 DEF IInv, HeldInv

LEMMA HeldStep ==
  ASSUME IInv, [Next]_vars
  PROVE  HeldInv'
<1>0. LoopTypeOK(Requests, Labels) /\ OwnTypeOK /\ BatchInv
  BY TypeParts DEF IInv, LoopInv
<1>1. ASSUME UNCHANGED <<queue, shards, saving, callers, answers>>,
             status' = "stop" \/ lpc' = "make" => \A r \in Requests : ~ Unanswered(r)
      PROVE  HeldInv'
  BY <1>1, HeldKept DEF Unanswered, callers
<1>2. ASSUME UNCHANGED <<queue, shards, saving, callers, answers, status, lpc>> PROVE HeldInv'
  BY <1>1, <1>2 DEF IInv, HeldInv
<1>3. ASSUME NEW r \in Requests, CallerStep(r) PROVE HeldInv'
  <2>1. ASSUME NEW c, NEW v, Ask(r, c, v) PROVE HeldInv'
    <3>1. /\ rpc[r] = "new" /\ rpc' = [rpc EXCEPT ![r] = "send"]
          /\ asked' = [asked EXCEPT ![r] = <<c, v>>]
          /\ UNCHANGED <<queue, shards, saving, answers, status, lpc>>
      BY <2>1 DEF Ask, loopVars, life, channel, sorting, batches
    <3>2. \A q \in Requests : /\ Unanswered(q)' <=> Unanswered(q)
                              /\ Unanswered(q) => asked'[q] = asked[q]
      BY <1>0, <3>1 DEF OwnTypeOK, Unanswered
    <3>3. QED
      BY <3>1, <3>2, HeldKept DEF IInv, HeldInv
  <2>2. CASE SendFails(r)
    <3>1. /\ rpc[r] = "send" /\ \E label \in {"stuck", "panicked"} : rpc' = [rpc EXCEPT ![r] = label]
          /\ UNCHANGED <<queue, shards, saving, answers, status, lpc, asked>>
      BY <2>2 DEF SendFails, loopVars, life, channel, sorting, batches
    <3>2. \A q \in Requests : Unanswered(q)' <=> Unanswered(q)
      BY <1>0, <3>1 DEF OwnTypeOK, Unanswered
    <3>3. QED
      BY <3>1, <3>2, HeldKept DEF IInv, HeldInv
  <2>3. QED
    BY <1>3, <2>1, <2>2, SendHeld DEF CallerStep
<1>4. CASE LifeStep
  <2>1. CASE StopClose \/ ReceiveClosed \/ Saved \/ CheckStatus
    <3>1. /\ UNCHANGED <<queue, shards, saving, callers, answers, status>>
          /\ UNCHANGED lpc \/ lpc' # "make"
      BY <1>4, <2>1 DEF LifeStep, StopClose, ReceiveClosed, Saved, CheckStatus, own, life,
                        channel, sorting, batches
    <3>2. QED
      BY <1>1, <3>1 DEF IInv, HeldInv
  <2>2. CASE StopEnd(\A r \in Requests : ~ InSave(r))
    <3>1. UNCHANGED <<queue, shards, saving, callers, answers>>
      BY <1>4, <2>2 DEF LifeStep, StopEnd, own, channel, sorting, batches
    <3>2. \A r \in Requests : ~ Unanswered(r)
      BY <2>2 DEF StopEnd, InSave, Unanswered
    <3>3. QED
      BY <1>1, <3>1, <3>2
  <2>3. CASE MakeChannel
    <3>1. \A r \in Requests : ~ Unanswered(r)
      BY <2>3 DEF MakeChannel, IInv, HeldInv
    <3>2. /\ queue' = <<>> /\ shards' = [s \in Shards |-> {}] /\ UNCHANGED saving
          /\ UNCHANGED <<callers, answers>>
      BY <1>4, <2>3 DEF LifeStep, MakeChannel, own, batches
    <3>3. \A s \in Shards : saving[s] = {}
      BY <2>3 DEF MakeChannel, IInv, LoopInv, BatchInv
    <3>4. \A r \in Requests : ~ Unanswered(r)'
      BY <3>1, <3>2 DEF Unanswered, callers
    <3>5. QED
      BY <3>2, <3>3, <3>4 DEF HeldInv, Held, InQueue
  <2>4. QED
    BY <1>4, <2>1, <2>2, <2>3 DEF LifeStep, LoopStep
<1>5. CASE Start /\ UNCHANGED own
  <2>1. UNCHANGED <<queue, shards, saving, callers, answers>>
    BY <1>5 DEF Start, own, channel, sorting, batches
  <2>2. QED
    BY <1>1, <1>5, <2>1 DEF Start, IInv, HeldInv
<1>6. CASE StopBegin /\ UNCHANGED own
  <2>1. UNCHANGED <<queue, shards, saving, callers, answers, lpc>> /\ status' # "stop"
    BY <1>6 DEF StopBegin, own, channel, sorting, batches
  <2>2. QED
    BY <1>1, <2>1 DEF IInv, HeldInv
<1>7. ASSUME NEW due, due \subseteq timed, Tick(due), UNCHANGED own PROVE HeldInv'
  <2>1. /\ lpc = "select" /\ lpc' = "flush" /\ UNCHANGED <<queue, status>>
        /\ \A s \in Shards : /\ saving[s] = {}
                             /\ \/ shards'[s] = shards[s] /\ saving'[s] = {}
                                \/ shards'[s] = {} /\ saving'[s] = shards[s]
    BY <1>0, <1>7, TickFacts DEF life, channel
  <2>2. \A s \in Shards : /\ shards'[s] \cap saving'[s] = {}
                          /\ shards'[s] \cup saving'[s] = shards[s] \cup saving[s]
    BY <2>1
  <2>3. /\ \A r \in Requests : Unanswered(r)' <=> Unanswered(r)
        /\ \A r : Home(r)' = Home(r)
    BY <1>7 DEF own, callers, Unanswered, Home, Agg, Cmd
  <2>4. \A r : /\ InQueue(r)' <=> InQueue(r)
               /\ Held(r)' <=> Held(r)
    BY <2>1, <2>2 DEF InQueue, Held
  <2>5. status' = "stop" => \A r \in Requests : ~ Unanswered(r)
    BY <2>1 DEF IInv, HeldInv
  <2>6. QED
    BY <2>1, <2>2, <2>3, <2>4, <2>5 DEF IInv, HeldInv
<1>8. ASSUME NEW s \in Shards, Saves(s) PROVE HeldInv'
  <2>1. UNCHANGED <<queue, shards, saving, callers, answers, status, lpc>>
    BY <1>8 DEF Saves, Insert, AppendStep, InsertStream, UnexpectedVersion, AllInserted,
                BatchDone, StoreFails, StoreTimesOut, Conclude, Goto, own, loopVars, life,
                channel, sorting, batches
  <2>2. QED
    BY <1>2, <2>1
<1>9. CASE UNCHANGED vars
  BY <1>2, <1>9 DEF vars, own, loopVars, life, channel, sorting, batches
<1>10. QED
  BY <1>3, <1>4, <1>5, <1>6, <1>7, <1>8, <1>9, ReceiveHeld, AnswersHeld
     DEF Next, JobStep, Answers, Saves

-----------------------------------------------------------------------------
(* What is stored.                                                         *)

\* The stream of r is appended: its command is stored then, and nothing changes for the
\* commands of other aggregates.
LEMMA InsertFacts ==
  ASSUME IInv, NEW s \in Shards, NEW r \in Requests, InsertStream(s, r)
  PROVE  /\ jpc[s] = "insert" /\ r \in todo[s] /\ r \in saving[s]
         /\ Unanswered(r) /\ ~ Stored(Cmd(r)) /\ Ver(r) = Len(log[Agg(r)]) + 1
         /\ Cmd(r) \in Commands /\ Agg(r) \in Aggregates
         /\ Stored(Cmd(r))'
         /\ \A c \in Commands : AggregateOf[c] # Agg(r) => (Stored(c)' <=> Stored(c))
         /\ \A c \in Commands : Stored(c) => Stored(c)'
         /\ UNCHANGED <<loopVars, callers, answers, outcome>>
<1>1. OwnTypeOK
  BY TypeParts DEF IInv
<1>2. /\ jpc[s] = "insert" /\ r \in todo[s] /\ r \in saving[s] /\ ~ Stored(Cmd(r))
      /\ Ver(r) = Len(log[Agg(r)]) + 1 /\ log' = [log EXCEPT ![Agg(r)] = Append(@, Cmd(r))]
      /\ UNCHANGED <<loopVars, callers, answers, outcome>>
  BY DEF InsertStream, IInv, StoredInv
<1>3. Unanswered(r)
  BY <1>2 DEF IInv, HeldInv, Held
<1>4. Cmd(r) \in Commands /\ Agg(r) \in Aggregates
  BY <1>1, <1>3, AskedFacts DEF Unanswered, IInv
<1>5. Cmd(r)' = Cmd(r)
  BY <1>2 DEF Cmd, callers
<1>6. PICK a \in Aggregates, c \in Commands : a = Agg(r) /\ c = Cmd(r) /\ AggregateOf[c] = a
  BY <1>4 DEF Agg
<1>7. /\ log[a] \in Seq(Commands)
      /\ log'[a] = Append(log[a], c)
      /\ \A b \in Aggregates \ {a} : log'[b] = log[b]
  BY <1>1, <1>2, <1>6 DEF OwnTypeOK
<1>8. /\ \A i \in DOMAIN log[a] : log'[a][i] = log[a][i]
      /\ log'[a][Len(log[a]) + 1] = c
      /\ DOMAIN log'[a] = DOMAIN log[a] \cup {Len(log[a]) + 1}
  BY <1>6, <1>7, AppendFacts
<1>9. Stored(c)' /\ \A d \in Commands : Stored(d) => Stored(d)'
  BY <1>6, <1>7, <1>8 DEF Stored
<1>10. \A d \in Commands : AggregateOf[d] # a => (Stored(d)' <=> Stored(d))
  BY <1>7 DEF Stored
<1>11. QED
  BY <1>2, <1>3, <1>4, <1>5, <1>6, <1>9, <1>10

\* What StoredInv says of one shard.
StoredIn(s) ==
  /\ \A q, r \in shards[s] : Agg(q) = Agg(r) => q = r
  /\ \A q, r \in saving[s] : Agg(q) = Agg(r) => q = r
  /\ jpc[s] = "insert" => /\ todo[s] \subseteq saving[s]
                          /\ \A r \in saving[s] : Stored(Cmd(r)) <=> r \notin todo[s]
  /\ jpc[s] = "answer" /\ outcome[s] = "nil" => \A r \in saving[s] : Stored(Cmd(r))

LEMMA StoredParts == /\ StoredInv <=> \A s \in Shards : StoredIn(s)
                     /\ StoredInv' <=> \A s \in Shards : StoredIn(s)'
  BY DEF StoredInv, StoredIn

\* A shard that a step leaves alone.
LEMMA StoredInKept ==
  ASSUME IInv, NEW t \in Shards, StoredIn(t), log' = log,
         shards'[t] = shards[t], saving'[t] = saving[t], jpc'[t] = jpc[t],
         todo'[t] = todo[t], outcome'[t] = outcome[t],
         \A r \in Requests : Unanswered(r) => asked'[r] = asked[r]
  PROVE  StoredIn(t)'
<1>1. \A r \in shards[t] \cup saving[t] : r \in Requests /\ Unanswered(r)
  BY TypeParts DEF IInv, LoopTypeOK, HeldInv, Held
<1>2. \A r \in shards[t] \cup saving[t] : Cmd(r)' = Cmd(r) /\ Agg(r)' = Agg(r)
  BY <1>1 DEF Cmd, Agg
<1>3. \A c : Stored(c)' <=> Stored(c)
  BY DEF Stored
<1>4. QED
  BY <1>2, <1>3 DEF StoredIn

\* The items of a shard become a batch, or stay where they are.
LEMMA StoredInSorted ==
  ASSUME UNCHANGED asked, NEW t \in Shards, NEW items,
         \A q, r \in items : Agg(q) = Agg(r) => q = r,
         \/ shards'[t] = items /\ saving'[t] = {} /\ jpc'[t] = "none"
         \/ shards'[t] = {} /\ saving'[t] = items /\ jpc'[t] = "append"
  PROVE  StoredIn(t)'
<1>1. \A r : Agg(r)' = Agg(r)
  BY DEF Cmd, Agg
<1>2. QED
  BY <1>1 DEF StoredIn

LEMMA SavesStored ==
  ASSUME IInv, NEW s \in Shards, Saves(s)
  PROVE  StoredInv'
<1>0. LoopTypeOK(Requests, Labels) /\ OwnTypeOK /\ \A t \in Shards : StoredIn(t)
  BY TypeParts, StoredParts DEF IInv
<1>1. ASSUME UNCHANGED <<callers, log, shards, saving>>,
             \A t \in Shards \ {s} : /\ jpc'[t] = jpc[t] /\ todo'[t] = todo[t]
                                     /\ outcome'[t] = outcome[t],
             StoredIn(s)'
      PROVE  StoredInv'
  BY <1>0, <1>1, StoredInKept, StoredParts DEF callers
<1>2. ASSUME UNCHANGED <<callers, log>>
      PROVE  /\ \A r : Cmd(r)' = Cmd(r) /\ Agg(r)' = Agg(r)
             /\ \A c : Stored(c)' <=> Stored(c)
  BY <1>2 DEF Cmd, Agg, Stored, callers
<1>3. ASSUME NEW label \in Labels \cup {"none"}, Goto(s, label)
      PROVE  /\ UNCHANGED <<shards, saving>> /\ jpc'[s] = label
             /\ \A t \in Shards \ {s} : jpc'[t] = jpc[t]
  BY <1>0, <1>3 DEF Goto, LoopTypeOK, sorting
<1>4. CASE Insert(s)
  <2>1. /\ UNCHANGED <<callers, log, outcome>> /\ todo' = [todo EXCEPT ![s] = saving[s]]
        /\ \A r \in saving[s] : ~ Stored(Cmd(r))
        /\ Goto(s, "insert")
    BY <1>4 DEF Insert, store
  <2>2. todo'[s] = saving[s] /\ \A t \in Shards \ {s} : todo'[t] = todo[t]
    BY <1>0, <2>1 DEF OwnTypeOK
  <2>3. StoredIn(s)'
    BY <1>0, <1>2, <1>3, <2>1, <2>2 DEF StoredIn, Labels
  <2>4. QED
    BY <1>1, <1>3, <2>1, <2>2, <2>3 DEF Labels
<1>5. ASSUME NEW r \in Requests, InsertStream(s, r) PROVE StoredInv'
  <2>1. /\ jpc[s] = "insert" /\ r \in saving[s]
        /\ Cmd(r) \in Commands
        /\ Stored(Cmd(r))'
        /\ \A c \in Commands : AggregateOf[c] # Agg(r) => (Stored(c)' <=> Stored(c))
        /\ UNCHANGED <<loopVars, callers, outcome>>
    BY <1>5, InsertFacts
  <2>2. todo' = [todo EXCEPT ![s] = @ \ {r}] /\ UNCHANGED <<shards, saving, jpc, asked>>
    BY <1>5, <2>1 DEF InsertStream, loopVars, sorting, batches, callers
  <2>3. \A q : Cmd(q)' = Cmd(q) /\ Agg(q)' = Agg(q)
    BY <2>2 DEF Cmd, Agg
  <2>4. \A t \in Shards : \A q \in saving[t] :
          /\ Cmd(q) \in Commands /\ Agg(q) = AggregateOf[Cmd(q)]
          /\ Home(q) = t
    <3>1. \A t \in Shards : \A q \in saving[t] : q \in Requests /\ Unanswered(q) /\ Home(q) = t
      BY <1>0 DEF LoopTypeOK, IInv, HeldInv, Held
    <3>2. QED
      BY <1>0, <3>1, AskedFacts DEF Unanswered, IInv, Agg
  <2>5. \A t \in Shards : \A q \in saving[t] :
          q # r => /\ Agg(q) # Agg(r)
                   /\ Stored(Cmd(q))' <=> Stored(Cmd(q))
    BY <1>0, <2>1, <2>3, <2>4 DEF StoredIn, Home
  <2>6. \A t \in Shards : t # s => todo'[t] = todo[t] /\ r \notin saving[t]
    BY <1>0, <2>1, <2>2, <2>4 DEF OwnTypeOK
  <2>7. StoredIn(s)'
    <3>1. todo'[s] = todo[s] \ {r}
      BY <1>0, <2>2 DEF OwnTypeOK
    <3>2. QED
      BY <1>0, <2>1, <2>2, <2>3, <2>5, <3>1 DEF StoredIn
  <2>8. \A t \in Shards \ {s} : StoredIn(t)'
    BY <1>0, <2>1, <2>2, <2>3, <2>5, <2>6 DEF StoredIn
  <2>9. QED
    BY <2>7, <2>8, StoredParts
<1>6. ASSUME NEW result \in {"nil", "error"}, Conclude(s, result), UNCHANGED <<callers, log>>,
             result = "nil" => \A r \in saving[s] : Stored(Cmd(r))
      PROVE  StoredInv'
  <2>1. outcome'[s] = result /\ \A t \in Shards \ {s} : outcome'[t] = outcome[t]
    BY <1>0, <1>6 DEF Conclude, OwnTypeOK
  <2>2. Goto(s, "answer") /\ UNCHANGED todo
    BY <1>6 DEF Conclude
  <2>3. StoredIn(s)'
    BY <1>0, <1>2, <1>3, <1>6, <2>1, <2>2 DEF StoredIn, Labels
  <2>4. QED
    BY <1>1, <1>3, <1>6, <2>1, <2>2, <2>3 DEF Labels
<1>7. CASE UnexpectedVersion(s) \/ StoreFails(s)
  BY <1>6, <1>7 DEF UnexpectedVersion, StoreFails, Conclude, store
<1>8. CASE AllInserted(s)
  <2>1. \A r \in saving[s] : Stored(Cmd(r))
    BY <1>0, <1>8 DEF AllInserted, StoredIn
  <2>2. QED
    BY <1>6, <1>8, <2>1 DEF AllInserted, Conclude, store
<1>9. CASE BatchDone(s) \/ StoreTimesOut(s)
  <2>1. UNCHANGED <<callers, log, todo, outcome>>
    BY <1>9 DEF BatchDone, StoreTimesOut, own, store, jobs
  <2>2. \E label \in {"none", "append"} : Goto(s, label)
    BY <1>9 DEF BatchDone, StoreTimesOut
  <2>3. StoredIn(s)'
    BY <1>0, <1>2, <1>3, <2>1, <2>2 DEF StoredIn, Labels
  <2>4. QED
    BY <1>1, <1>3, <2>1, <2>2, <2>3 DEF Labels
<1>10. QED
  BY <1>4, <1>5, <1>7, <1>8, <1>9 DEF Saves, AppendStep

LEMMA StoredStep ==
  ASSUME IInv, [Next]_vars
  PROVE  StoredInv'
<1>0. /\ LoopTypeOK(Requests, Labels) /\ OwnTypeOK /\ BatchInv
      /\ \A t \in Shards : StoredIn(t)
  BY TypeParts, StoredParts DEF IInv, LoopInv
<1>1. ASSUME UNCHANGED <<log, shards, saving, jpc, jobs>>,
             \A r \in Requests : Unanswered(r) => asked'[r] = asked[r]
      PROVE  StoredInv'
  BY <1>0, <1>1, StoredInKept, StoredParts DEF jobs
<1>2. ASSUME NEW r \in Requests, CallerStep(r) PROVE StoredInv'
  <2>1. UNCHANGED <<log, shards, saving, jpc, jobs>>
    BY <1>2 DEF CallerStep, Ask, Send, SendFails, Enqueue, store, loopVars, sorting, batches
  <2>2. \A q \in Requests : Unanswered(q) => asked'[q] = asked[q]
    BY <1>0, <1>2 DEF CallerStep, Ask, Send, SendFails, Unanswered, OwnTypeOK
  <2>3. QED
    BY <1>1, <2>1, <2>2
<1>3. CASE Receive
  <2>1. PICK r \in Requests, items \in SUBSET Requests :
          /\ Home(r) \in Shards
          /\ Sort(Home(r), items)
          /\ UNCHANGED <<store, callers, jobs>>
          /\ \/ /\ \A q \in shards[Home(r)] : Agg(q) # Agg(r)
                /\ items = shards[Home(r)] \cup {r}
             \/ items = shards[Home(r)]
    BY <1>3, ReceiveFacts
  <2>2. PICK s \in Shards : s = Home(r)
    BY <2>1
  <2>3. \A p, q \in items : Agg(p) = Agg(q) => p = q
    BY <1>0, <2>1, <2>2 DEF StoredIn
  <2>4. /\ \A t \in Shards : saving[t] = {} /\ jpc[t] = "none"
        /\ \A t \in Shards \ {s} : /\ shards'[t] = shards[t]
                                   /\ saving'[t] = {} /\ jpc'[t] = "none"
        /\ \/ shards'[s] = items /\ saving'[s] = {} /\ jpc'[s] = "none"
           \/ shards'[s] = {} /\ saving'[s] = items /\ jpc'[s] = "append"
    BY <1>0, <2>1, <2>2, SortFacts
  <2>5. UNCHANGED asked
    BY <2>1 DEF callers
  <2>6. StoredIn(s)'
    BY <2>3, <2>4, <2>5, StoredInSorted
  <2>7. ASSUME NEW t \in Shards, t # s PROVE StoredIn(t)'
    BY <1>0, <2>4, <2>5, <2>7, StoredInSorted DEF StoredIn
  <2>8. QED
    BY <2>6, <2>7, StoredParts
<1>4. ASSUME NEW due, due \subseteq timed, Tick(due), UNCHANGED own PROVE StoredInv'
  <2>1. \A s \in Shards : \/ shards'[s] = shards[s] /\ saving'[s] = {} /\ jpc'[s] = "none"
                          \/ shards'[s] = {} /\ saving'[s] = shards[s] /\ jpc'[s] = "append"
    BY <1>0, <1>4, TickFacts
  <2>2. UNCHANGED asked
    BY <1>4 DEF own, callers
  <2>3. ASSUME NEW s \in Shards PROVE StoredIn(s)'
    <3>1. \A p, q \in shards[s] : Agg(p) = Agg(q) => p = q
      BY <1>0 DEF StoredIn
    <3>2. QED
      BY <2>1, <2>2, <3>1, StoredInSorted
  <2>4. QED
    BY <2>3, StoredParts
<1>5. CASE LifeStep
  <2>1. CASE MakeChannel
    <3>1. UNCHANGED asked
      BY <1>5 DEF LifeStep, own, callers
    <3>2. \A s \in Shards : shards'[s] = {} /\ saving'[s] = {} /\ jpc'[s] = "none"
      BY <1>0, <2>1 DEF MakeChannel, BatchInv, batches
    <3>3. \A s \in Shards : StoredIn(s)'
      BY <3>2 DEF StoredIn
    <3>4. QED
      BY <3>3, StoredParts
  <2>2. CASE ~ MakeChannel
    <3>1. UNCHANGED <<shards, saving, jpc, own>>
      BY <1>5, <2>2 DEF LifeStep, LoopStep, StopClose, StopEnd, ReceiveClosed, Saved,
                        CheckStatus, sorting, batches
    <3>2. QED
      BY <1>1, <3>1 DEF own, store, callers
  <2>3. QED
    BY <2>1, <2>2
<1>6. CASE (Start \/ StopBegin) /\ UNCHANGED own
  BY <1>1, <1>6 DEF Start, StopBegin, own, store, callers, sorting, batches
<1>7. ASSUME NEW s \in Shards, NEW r \in Requests, Answers(s, r) PROVE StoredInv'
  <2>1. /\ jpc[s] \in {"append", "answer"}
        /\ saving' = [saving EXCEPT ![s] = @ \ {r}]
        /\ UNCHANGED <<log, asked, jobs, shards, jpc>>
    BY <1>7 DEF Answers, SkipDuplicate, AnswerOne, Drop, store, callers, sorting
  <2>2. \A t \in Shards : saving'[t] \subseteq saving[t] /\ (t # s => saving'[t] = saving[t])
    BY <1>0, <2>1 DEF LoopTypeOK
  <2>3. /\ \A q : Cmd(q)' = Cmd(q) /\ Agg(q)' = Agg(q)
        /\ \A c : Stored(c)' <=> Stored(c)
    BY <2>1 DEF Cmd, Agg, Stored
  <2>4. \A t \in Shards : StoredIn(t)'
    BY <1>0, <2>1, <2>2, <2>3 DEF StoredIn, jobs
  <2>5. QED
    BY <2>4, StoredParts
<1>8. CASE UNCHANGED vars
  BY <1>1, <1>8 DEF vars, own, store, callers, loopVars, sorting, batches
<1>9. QED
  BY <1>2, <1>3, <1>4, <1>5, <1>6, <1>7, <1>8, SavesStored
     DEF Next, JobStep, Answers, Saves

LEMMA Inductive == IInv /\ [Next]_vars => IInv'
<1> SUFFICES ASSUME IInv, [Next]_vars PROVE IInv'
  OBVIOUS
<1>1. TypeOK' /\ LoopInv'
  BY LoopPartStep, OwnTypeStep, TypeParts
<1>2. QED
  BY <1>1, AskStep, HeldStep, StoredStep DEF IInv

LEMMA Always == Spec => []IInv
  BY Initial, Inductive, PTL DEF Spec

(* The variables of EventStoreSaver have their types in every reachable     *)
(* state; the channel holds at most two batches.                           *)
THEOREM TypeCorrect == Spec => []TypeOK
<1>1. IInv => TypeOK
  BY DEF IInv
<1>2. QED
  BY <1>1, Always, PTL

(* A request is in exactly one place of the saver while it waits for its    *)
(* answer, and in none otherwise, over batches, restarts and a store that  *)
(* fails: it is neither lost nor answered twice.                           *)
THEOREM HeldOnceCorrect == Spec => []HeldOnce
<1>1. ASSUME IInv, NEW r \in Requests
      PROVE  Cardinality(Holders(r)) = (IF Unanswered(r) THEN 1 ELSE 0)
  <2>1. /\ \A i, j \in DOMAIN queue : queue[i] = queue[j] => i = j
        /\ \A s \in Shards : \A q \in shards[s] \cup saving[s] : Home(q) = s /\ ~ InQueue(q)
        /\ \A s \in Shards : shards[s] \cap saving[s] = {}
        /\ Held(r) <=> Unanswered(r)
    BY <1>1 DEF IInv, HeldInv
  <2>2. ASSUME ~ Held(r) PROVE Holders(r) = {}
    BY <2>2 DEF Holders, Held, InQueue
  <2>3. ASSUME NEW i \in DOMAIN queue, queue[i] = r PROVE Holders(r) = {<<"queue", i>>}
    BY <2>1, <2>3 DEF Holders, InQueue
  <2>4. ASSUME NEW s \in Shards, r \in shards[s] PROVE Holders(r) = {<<"shard", s>>}
    BY <2>1, <2>4 DEF Holders, InQueue
  <2>5. ASSUME NEW s \in Shards, r \in saving[s] PROVE Holders(r) = {<<"saving", s>>}
    BY <2>1, <2>5 DEF Holders, InQueue
  <2>6. ASSUME Held(r) PROVE \E p : Holders(r) = {p}
    BY <2>3, <2>4, <2>5, <2>6 DEF Held, InQueue
  <2>7. Cardinality({}) = 0 /\ \A p : Cardinality({p}) = 1
    BY FS_EmptySet, FS_Singleton
  <2>8. QED
    BY <2>1, <2>2, <2>6, <2>7
<1>2. IInv => HeldOnce
  BY <1>1 DEF HeldOnce
<1>3. QED
  BY <1>2, Always, PTL

-----------------------------------------------------------------------------
(* The saver implements EventAppender.                                     *)

\* The abstract appender sees the same requests wait, and the same streams.
LEMMA SameView ==
  ASSUME IInv
  PROVE  /\ \A r \in Requests : Unanswered(r) => Appender!Unanswered(r)
         /\ \A c : Appender!Stored(c) <=> Stored(c)
  BY DEF IInv, AskInv, Unanswered, Appender!Unanswered, Stored, Appender!Stored,
         NotAsked, Appender!NotAsked

LEMMA AnswerIsAbstract ==
  ASSUME IInv, NEW r \in Requests, NEW a \in {"nil", "error"}, Unanswered(r), Answer(r, a),
         a = "nil" => Stored(Cmd(r)), UNCHANGED <<store, callers>>
  PROVE  Appender!Next
<1>1. answers' = [answers EXCEPT ![r] = <<a>>]
  BY TypeParts, AnswerFacts DEF IInv, Unanswered
<1>2. Appender!Unanswered(r) /\ UNCHANGED <<log, asked>>
  BY SameView DEF store, callers
<1>3. CASE a = "nil"
  <2>1. Appender!Stored(asked[r][1])
    BY <1>3, SameView DEF Cmd
  <2>2. Appender!Confirm(r)
    BY <1>1, <1>2, <1>3, <2>1 DEF Appender!Confirm
  <2>3. QED
    BY <2>2 DEF Appender!Next
<1>4. CASE a = "error"
  <2>1. Appender!Refuse(r)
    BY <1>1, <1>2, <1>4 DEF Appender!Refuse
  <2>2. QED
    BY <2>1 DEF Appender!Next
<1>5. QED
  BY <1>3, <1>4

LEMMA AppenderStep ==
  ASSUME IInv, [Next]_vars
  PROVE  [Appender!Next]_(Appender!vars)
<1>1. UNCHANGED <<log, asked, answers>> => UNCHANGED Appender!vars
  BY DEF Appender!vars
<1>2. ASSUME NEW r \in Requests, CallerStep(r) PROVE [Appender!Next]_(Appender!vars)
  <2>1. ASSUME NEW c \in Commands, NEW v \in 1..(Len(log[AggregateOf[c]]) + 1), Ask(r, c, v)
        PROVE  Appender!Next
    <3>1. Appender!Ask(r, c, v)
      BY <2>1 DEF Ask, Appender!Ask, IInv, AskInv, NotAsked, Appender!NotAsked, store
    <3>2. QED
      BY <3>1 DEF Appender!Next
  <2>2. CASE Send(r) \/ SendFails(r)
    BY <1>1, <2>2 DEF Send, SendFails, store
  <2>3. QED
    BY <1>2, <2>1, <2>2 DEF CallerStep
<1>3. CASE Receive
  <2>1. PICK r \in Requests : /\ Unanswered(r) /\ UNCHANGED <<store, callers, jobs>>
                              /\ UNCHANGED answers \/ Answer(r, "error")
    BY <1>3, ReceiveFacts
  <2>2. CASE UNCHANGED answers
    BY <1>1, <2>1, <2>2 DEF store, callers
  <2>3. CASE Answer(r, "error")
    BY <2>1, <2>3, AnswerIsAbstract
  <2>4. QED
    BY <2>1, <2>2, <2>3
<1>4. ASSUME NEW s \in Shards, NEW r \in Requests, Answers(s, r)
      PROVE  [Appender!Next]_(Appender!vars)
  <2>1. PICK a \in {"nil", "error"} :
          /\ Unanswered(r) /\ UNCHANGED <<store, callers>>
          /\ Answer(r, a) /\ (a = "nil" => Stored(Cmd(r)))
    BY <1>4, AnswersFacts
  <2>2. QED
    BY <2>1, AnswerIsAbstract
<1>5. ASSUME NEW s \in Shards, Saves(s) PROVE [Appender!Next]_(Appender!vars)
  <2>1. ASSUME NEW r \in Requests, InsertStream(s, r) PROVE Appender!Next
    <3>1. /\ Unanswered(r) /\ ~ Stored(Cmd(r)) /\ Ver(r) = Len(log[Agg(r)]) + 1
          /\ log' = [log EXCEPT ![Agg(r)] = Append(@, Cmd(r))]
          /\ UNCHANGED <<asked, answers>>
      BY <2>1, InsertFacts DEF InsertStream, callers
    <3>2. Appender!Unanswered(r) /\ ~ Appender!Stored(Cmd(r))
      BY <3>1, SameView
    <3>3. Appender!Store(r)
      BY <3>1, <3>2 DEF Appender!Store, Cmd, Ver, Agg
    <3>4. QED
      BY <3>3 DEF Appender!Next
  <2>2. CASE Insert(s) \/ UnexpectedVersion(s) \/ AllInserted(s) \/ BatchDone(s)
             \/ StoreFails(s) \/ StoreTimesOut(s)
    BY <1>1, <2>2 DEF Insert, UnexpectedVersion, AllInserted, BatchDone, StoreFails,
                      StoreTimesOut, Conclude, own, store, callers
  <2>3. QED
    BY <1>5, <2>1, <2>2 DEF Saves, AppendStep
<1>6. CASE UNCHANGED own
  BY <1>1, <1>6 DEF own, store, callers
<1>7. QED
  BY <1>2, <1>3, <1>4, <1>5, <1>6 DEF Next, LifeStep, JobStep, Answers, Saves, vars

(* DefaultEventStoreSaver implements the abstract appender: a confirmed      *)
(* request is stored, a command is stored once and at the version asked    *)
(* for, and no request gets two answers, however batches, shards, retries, *)
(* lost answers and restarts fall.                                         *)
THEOREM ImplementsAppenderCorrect == Spec => ImplementsAppender
<1>1. Init => Appender!Init
  BY DEF Init, Appender!Init, NotAsked, Appender!NotAsked
<1>2. IInv /\ [Next]_vars => [Appender!Next]_(Appender!vars)
  BY AppenderStep
<1>3. QED
  BY <1>1, <1>2, Always, PTL DEF Spec, ImplementsAppender, Appender!Spec
=============================================================================
