------------------------------- MODULE EventBus -------------------------------
(***************************************************************************)
(* InMemoryEventBus (eventing/inmemoryeb/inmemoryeb.go) in front of the    *)
(* event dispatcher: a channel, a loop goroutine for each Start, and Stop, *)
(* which does not end the loop but leaves that to its next timeout.  The   *)
(* command dispatcher has no bus: Send of the command service calls it on  *)
(* the goroutine of the sender.                                            *)
(***************************************************************************)
EXTENDS Dispatcher, FiniteSets

CONSTANT BufferSize

ASSUME EventBusAssumption == BufferSize \in Nat \ {0}

VARIABLES
  queue,      \* mqCh
  published,  \* how many messages have been published or sent, in their order
  status,     \* status word
  spc,        \* where the caller of Stop is
  overlapped  \* history: two loops have been alive at once

bus == <<queue, published, status, spc, overlapped>>
vars == <<dispatcherVars, bus>>

TypeOK ==
  /\ DispatcherTypeOK
  /\ queue \in Seq(Ids)
  /\ Len(queue) <= BufferSize
  /\ published \in 0..Len(Messages)
  /\ status \in {"stop", "running", "stopping"}
  /\ spc \in {"none", "wait", "drained"}
  /\ overlapped \in BOOLEAN

Init ==
  /\ DispatcherInit
  /\ queue = <<>>
  /\ published = 0
  /\ status = "stop"
  /\ spc = "none"
  /\ overlapped = FALSE

Alive(c) == dpc[c] \notin {"none", "ended"}

\* The next message.
NextMessage ==
  /\ published < Len(Messages)
  /\ published' = published + 1

\* Caller c takes message i and goes on to Dispatch.
Take(c, i) ==
  /\ dpc[c] = "select"
  /\ hand' = [hand EXCEPT ![c] = i]
  /\ dpc' = [dpc EXCEPT ![c] = "took"]
  /\ UNCHANGED <<kind, registration, got, used, mailboxes, ends>>

\* Send of the command service.
Send(c) ==
  /\ kind = "command"
  /\ NextMessage
  /\ Take(c, published')
  /\ UNCHANGED <<queue, status, spc, overlapped>>

\* Faulty: the stream is put there without room.
PublishAtOnce ==
  /\ kind = "event"
  /\ NextMessage
  /\ queue' = Append(queue, published')
  /\ UNCHANGED <<dispatcherVars, status, spc, overlapped>>

\* Publish waits for room in the channel, whatever the status is.
Publish ==
  /\ kind = "event"
  /\ Len(queue) < BufferSize
  /\ NextMessage
  /\ queue' = Append(queue, published')
  /\ UNCHANGED <<dispatcherVars, status, spc, overlapped>>

Start(c) ==
  /\ kind = "event"
  /\ status = "stop"
  /\ dpc[c] = "none"
  /\ status' = "running"
  /\ dpc' = [dpc EXCEPT ![c] = "select"]
  /\ overlapped' = (overlapped \/ \E d \in Callers : Alive(d))
  /\ UNCHANGED <<kind, registration, hand, got, used, mailboxes, ends, queue, published, spc>>

\* Faulty: a stream is left in the channel until it has been dispatched.
FetchPeek(c) ==
  /\ kind = "event"
  /\ queue # <<>>
  /\ Take(c, Head(queue))
  /\ UNCHANGED bus

Fetch(c) ==
  /\ kind = "event"
  /\ queue # <<>>
  /\ Take(c, Head(queue))
  /\ queue' = Tail(queue)
  /\ UNCHANGED <<published, status, spc, overlapped>>

\* Faulty: the first second without a stream ends the loop.
LoopEndsWhenIdle(c) ==
  /\ kind = "event"
  /\ dpc[c] = "select"
  /\ dpc' = [dpc EXCEPT ![c] = "ended"]
  /\ UNCHANGED <<kind, registration, hand, got, used, mailboxes, ends, bus>>

\* time.After fires and the status is not 1.  (Otherwise the loop goes on.)
LoopEnds(c) ==
  /\ kind = "event"
  /\ dpc[c] = "select"
  /\ status # "running"
  /\ dpc' = [dpc EXCEPT ![c] = "ended"]
  /\ UNCHANGED <<kind, registration, hand, got, used, mailboxes, ends, bus>>

StopBegin ==
  /\ status = "running"
  /\ spc = "none"
  /\ status' = "stopping"
  /\ spc' = "wait"
  /\ UNCHANGED <<dispatcherVars, queue, published, overlapped>>

\* len(mqCh) is 0.
StopDrained ==
  /\ spc = "wait"
  /\ queue = <<>>
  /\ spc' = "drained"
  /\ UNCHANGED <<dispatcherVars, queue, published, status, overlapped>>

\* goroutine.Wait returns: no caller is in Dispatch and no mailbox in processMails.
StopEnd ==
  /\ spc = "drained"
  /\ \A c \in Callers : dpc[c] \in {"none", "select", "took", "ended"}
  /\ \A a \in Aggregates : busy[a] = 0
  /\ status' = "stop"
  /\ spc' = "none"
  /\ UNCHANGED <<dispatcherVars, queue, published, overlapped>>

Next ==
  /\ dead = "no"
  /\ \/ DispatcherStep /\ UNCHANGED bus
     \/ \E c \in Callers : Send(c) \/ Start(c) \/ Fetch(c) \/ LoopEnds(c)
     \/ Publish \/ StopBegin \/ StopDrained \/ StopEnd

Spec == Init /\ [][Next]_vars

\* Goroutines that can run do.  A select that finds the channel ready again and again
\* takes from it; and a caller that finds a mailbox serving again and again sends
\* before it is released, which takes a mailbox half a minute without a message.
Fairness ==
  LET Goes(step) == dead = "no" /\ step /\ UNCHANGED bus IN
    /\ \A c \in Callers : /\ SF_vars(dead = "no" /\ Fetch(c))
                          /\ SF_vars(Goes(Deliver(c)))
                          /\ WF_vars(Goes(CallerStep(c)))
    /\ \A a \in Aggregates : WF_vars(Goes(MailboxStep(a)))

FairSpec == Spec /\ Fairness

-----------------------------------------------------------------------------
\* Where message i is.
Places(i) ==
  {<<"queue", j>> : j \in {j \in DOMAIN queue : queue[j] = i}}
  \cup {<<"hand", c>> : c \in {c \in Callers : hand[c] = i}}
  \cup (UNION {{<<"inbox", a, j>> : j \in {j \in DOMAIN inbox[a] : inbox[a][j] = i}} :
                 a \in Aggregates})
  \cup {<<"busy", a>> : a \in {a \in Aggregates : busy[a] = i}}
  \cup {<<"handled", j>> : j \in {j \in DOMAIN handled : handled[j] = i}}
  \cup (IF i \in lost THEN {<<"lost">>} ELSE {})

(* A published stream or sent command is in one place, the channel of a     *)
(* released mailbox being one where it stays: stopping and starting the    *)
(* bus, two loops at one channel and mailboxes released and made anew      *)
(* never double a message, and none vanishes anywhere else.                *)
OnePlace ==
  \A i \in 1..published : Cardinality(Places(i)) = 1

(* The streams of an aggregate are handled in the order of publication, as *)
(* long as Start has not been called while the loop of an earlier run was  *)
(* still there: then two loops race from the channel to the mailbox.       *)
InOrderWithOneLoop ==
  kind = "event" /\ ~ overlapped =>
    \A j, k \in DOMAIN handled :
      j < k /\ AggregateOf(handled[j]) = AggregateOf(handled[k])
        => handled[j] < handled[k]

(* What is published or sent is handled in the end, unless it is lost at     *)
(* the release of a mailbox or the process dies.  A bus that is stopping   *)
(* handles it as well; only what is in the channel when no loop is left    *)
(* waits there for the next Start.                                         *)
PublishedIsHandled ==
  \A i \in Ids :
    i <= published ~> \/ \E j \in DOMAIN handled : handled[j] = i
                      \/ i \in lost
                      \/ dead # "no"
                      \/ /\ kind = "event" /\ status # "running"
                         /\ \E j \in DOMAIN queue : queue[j] = i
                         /\ \A c \in Callers : ~ Alive(c)
=============================================================================
