---------------------------- MODULE CommandResult ----------------------------
(***************************************************************************)
(* How the sender of a command learns what became of it.                   *)
(*                                                                         *)
(* InMemoryCommandService.Send registers two watches, one for the handling *)
(* of the command and one for that of its event stream, and dispatches the *)
(* command.  The dispatchers' goroutines give results to the               *)
(* InMemoryMessageHandleResultNotifier, which passes each to the channel   *)
(* registered for the command id and provider.  The sender waits with      *)
(* FromCommandHandle or FromEventHandle of the CommandHandleResult.        *)
(*                                                                         *)
(* The mailboxes of the command and the event dispatcher are queues here;  *)
(* MailHandling is the worker of the latter.  The command handler is       *)
(* abstracted to the outcomes of Repository.Save.                          *)
(***************************************************************************)
EXTENDS MailHandling, Bags

CONSTANTS
  Senders,     \* calls of Send
  Commands,
  StreamOf,    \* command -> the types of the events its handler raises
  Nobody,
  MaxPublished, \* bound: how many event streams are published
  MaxCalls,     \* bound: how many results a sender asks for
  MayTimeOut    \* the time given to a wait may be up

ASSUME CommandResultAssumption ==
  /\ StreamOf \in [Commands -> Seq(Types)]
  /\ Nobody \notin Senders
  /\ MaxPublished \in Nat
  /\ MaxCalls \in 1..2
  /\ MayTimeOut \in BOOLEAN

Providers == {"command", "event"}
Keys == Commands \X Providers
CommandResults == {"changed", "unchanged", "error"}
EventResults == {"ok", "error"}
None == "none"

VARIABLES
  watch,     \* resultMapper: <<command id, provider>> -> whose channel
  box,       \* sender -> provider -> what is in the channel of its watch
  spc,       \* sender -> where it is
  cmdOf,     \* sender -> its command
  first,     \* sender -> what FromCommandHandle has returned
  second,    \* sender -> what FromEventHandle has returned
  inbox,     \* commands' mailbox: senders
  streams,   \* events' mailbox: commands
  stored,    \* commands whose stream is in the event store
  published, \* how many streams have been published
  notes,     \* bag of results on the way to the notifier: <<key, result>>
  happened   \* history: <<key, result>> of everything handled

registry == <<watch, box>>
senders == <<spc, cmdOf, first, second>>
server == <<inbox, streams, stored, published>>
results == <<notes, happened>>
vars == <<mailVars, registry, senders, server, results>>

SenderPCs == {"new", "watchEvent", "dispatch", "sent", "waitCommand", "between",
              "waitFirst", "waitSecond", "unwatchEvent", "done"}

TypeOK ==
  /\ MailTypeOK
  /\ watch \in [Keys -> Senders \cup {Nobody}]
  /\ box \in [Senders -> [Providers -> Seq(CommandResults \cup EventResults)]]
  /\ spc \in [Senders -> SenderPCs]
  /\ cmdOf \in [Senders -> Commands]
  /\ first \in [Senders -> CommandResults \cup {None, "timeout"}]
  /\ second \in [Senders -> CommandResults \cup EventResults \cup {None, "timeout"}]
  /\ inbox \in Seq(Senders)
  /\ streams \in Seq(Commands)
  /\ stored \subseteq Commands
  /\ published \in 0..MaxPublished
  /\ IsABag(notes) /\ BagToSet(notes) \subseteq Keys \X (CommandResults \cup EventResults)
  /\ happened \subseteq Keys \X (CommandResults \cup EventResults)

Init ==
  /\ MailInit
  /\ watch = [key \in Keys |-> Nobody]
  /\ box = [s \in Senders |-> [p \in Providers |-> <<>>]]
  /\ spc = [s \in Senders |-> "new"]
  /\ cmdOf \in [Senders -> Commands]
  /\ first = [s \in Senders |-> None]
  /\ second = [s \in Senders |-> None]
  /\ inbox = <<>>
  /\ streams = <<>>
  /\ stored = {}
  /\ published = 0
  /\ notes = EmptyBag
  /\ happened = {}

Goto(s, label) == spc' = [spc EXCEPT ![s] = label]

-----------------------------------------------------------------------------
(* Send.                                                                   *)

WatchFor(s, p) == watch' = [watch EXCEPT ![<<cmdOf[s], p>>] = s]

WatchCommand(s) ==
  /\ spc[s] = "new"
  /\ WatchFor(s, "command")
  /\ Goto(s, "watchEvent")
  /\ UNCHANGED <<mailVars, box, cmdOf, first, second, server, results>>

\* Faulty: the command is dispatched before the second watch is there.
WatchEventLate(s) ==
  /\ \/ spc[s] = "watchEvent" /\ inbox' = Append(inbox, s) /\ Goto(s, "dispatch") /\ UNCHANGED watch
     \/ spc[s] = "dispatch" /\ WatchFor(s, "event") /\ Goto(s, "sent") /\ UNCHANGED inbox
  /\ UNCHANGED <<mailVars, box, cmdOf, first, second, streams, stored, published, results>>

WatchEvent(s) ==
  /\ spc[s] = "watchEvent"
  /\ WatchFor(s, "event")
  /\ Goto(s, "dispatch")
  /\ UNCHANGED <<mailVars, box, cmdOf, first, second, server, results>>

Dispatch(s) ==
  /\ spc[s] = "dispatch"
  /\ inbox' = Append(inbox, s)
  /\ Goto(s, "sent")
  /\ UNCHANGED <<mailVars, registry, cmdOf, first, second, streams, stored, published, results>>

-----------------------------------------------------------------------------
(* FromCommandHandle and FromEventHandle.                                  *)

CallFromCommandHandle(s) ==
  /\ spc[s] = "sent"
  /\ Goto(s, "waitCommand")
  /\ UNCHANGED <<mailVars, registry, cmdOf, first, second, server, results>>

CallFromEventHandle(s) ==
  /\ spc[s] = "sent" \/ (spc[s] = "between" /\ MaxCalls = 2)
  /\ Goto(s, "waitFirst")
  /\ UNCHANGED <<mailVars, registry, cmdOf, first, second, server, results>>

\* The sender takes the result r out of the channel of its watch for p.
Take(s, p, r) ==
  /\ box[s][p] # <<>>
  /\ r = Head(box[s][p])
  /\ box' = [box EXCEPT ![s][p] = Tail(@)]
  /\ UNCHANGED <<mailVars, watch, cmdOf, server, results>>

TakeCommandResult(s, r) ==
  /\ spc[s] = "waitCommand"
  /\ Take(s, "command", r)
  /\ first' = [first EXCEPT ![s] = r]
  /\ Goto(s, "between")
  /\ UNCHANGED second

\* Only a command that has changed its aggregate has an event stream to wait for.
TakeFirst(s, r) ==
  /\ spc[s] = "waitFirst"
  /\ Take(s, "command", r)
  /\ second' = [second EXCEPT ![s] = IF r = "changed" THEN None ELSE r]
  /\ Goto(s, IF r = "changed" THEN "waitSecond" ELSE "unwatchEvent")
  /\ UNCHANGED first

TakeSecond(s, r) ==
  /\ spc[s] = "waitSecond"
  /\ Take(s, "event", r)
  /\ second' = [second EXCEPT ![s] = r]
  /\ Goto(s, "done")
  /\ UNCHANGED first

\* Unwatch deletes by key, whoever has registered there.
Unwatch(s, p) == watch' = [watch EXCEPT ![<<cmdOf[s], p>>] = Nobody]

\* Time is up, or the sender's context is cancelled.
TimeOut(s) ==
  /\ MayTimeOut
  /\ \/ /\ spc[s] = "waitCommand"
        /\ Unwatch(s, "command")
        /\ first' = [first EXCEPT ![s] = "timeout"]
        /\ Goto(s, "between")
        /\ UNCHANGED second
     \/ /\ spc[s] = "waitFirst"
        /\ Unwatch(s, "command")
        /\ second' = [second EXCEPT ![s] = "timeout"]
        /\ Goto(s, "unwatchEvent")
        /\ UNCHANGED first
     \/ /\ spc[s] = "waitSecond"
        /\ second' = [second EXCEPT ![s] = "timeout"]
        /\ Goto(s, "unwatchEvent")
        /\ UNCHANGED <<watch, first>>
  /\ UNCHANGED <<mailVars, box, cmdOf, server, results>>

UnwatchEvent(s) ==
  /\ spc[s] = "unwatchEvent"
  /\ Unwatch(s, "event")
  /\ Goto(s, "done")
  /\ UNCHANGED <<mailVars, box, cmdOf, first, second, server, results>>

-----------------------------------------------------------------------------
(* Handling and notifying.                                                 *)

\* A goroutine of the dispatcher has the result r for key.
Note(key, r) ==
  /\ notes' = notes (+) SetToBag({<<key, r>>})
  /\ happened' = happened \cup {<<key, r>>}

Published(cs) ==
  /\ published + Len(cs) <= MaxPublished
  /\ streams' = streams \o cs
  /\ published' = published + Len(cs)

\* The next command is handled: Save stores and publishes its stream, finds
\* nothing changed, or fails, perhaps after the stream was stored.
HandleCommand(r) ==
  /\ inbox # <<>>
  /\ LET c == cmdOf[Head(inbox)] IN
       /\ Published(IF r = "changed" THEN <<c>> ELSE <<>>)
       /\ \/ r # "unchanged" /\ stored' = stored \cup {c}
          \/ r # "changed" /\ UNCHANGED stored
       /\ Note(<<c, "command">>, r)
  /\ inbox' = Tail(inbox)
  /\ UNCHANGED <<mailVars, registry, senders>>

\* A publisher finds a stored stream unpublished, or does not know that it was
\* published.
Republish(c) ==
  /\ c \in stored
  /\ Published(<<c>>)
  /\ UNCHANGED <<mailVars, registry, senders, inbox, stored, results>>

HandleStream ==
  /\ streams # <<>>
  /\ BeginGroup(StreamOf[Head(streams)])
  /\ UNCHANGED <<registry, senders, server, results>>

HandleMail ==
  /\ MailStep
  /\ UNCHANGED <<registry, senders, server, results>>

StreamHandled ==
  /\ EndGroup
  /\ streams' = Tail(streams)
  /\ Note(<<Head(streams), "event">>, Result)
  /\ UNCHANGED <<registry, senders, inbox, stored, published>>

\* Faulty: the watch stays registered.
NotifyWatchKept(note) ==
  LET key == note[1]  s == watch[key] IN
    /\ BagIn(note, notes)
    /\ notes' = notes (-) SetToBag({note})
    /\ box' = IF s = Nobody THEN box ELSE [box EXCEPT ![s][key[2]] = Append(@, note[2])]
    /\ UNCHANGED <<mailVars, watch, senders, server, happened>>

\* Faulty: the provider is not part of the key.
NotifyByCommand(note) ==
  \E p \in Providers :
    LET key == <<note[1][1], p>>  s == watch[key] IN
      /\ BagIn(note, notes)
      /\ notes' = notes (-) SetToBag({note})
      /\ box' = IF s = Nobody THEN box ELSE [box EXCEPT ![s][p] = Append(@, note[2])]
      /\ watch' = [watch EXCEPT ![key] = Nobody]
      /\ UNCHANGED <<mailVars, senders, server, happened>>

\* Notify and Receive: the watch is taken out of the map and gets the result.  The
\* dispatchers' goroutines come in any order.
Notify(note) ==
  LET key == note[1]  s == watch[key] IN
    /\ BagIn(note, notes)
    /\ notes' = notes (-) SetToBag({note})
    /\ box' = IF s = Nobody THEN box ELSE [box EXCEPT ![s][key[2]] = Append(@, note[2])]
    /\ watch' = [watch EXCEPT ![key] = Nobody]
    /\ UNCHANGED <<mailVars, senders, server, happened>>

-----------------------------------------------------------------------------
SendStep(s) == WatchCommand(s) \/ WatchEvent(s) \/ Dispatch(s)

WaitStep(s) ==
  \/ \E r \in CommandResults : TakeCommandResult(s, r) \/ TakeFirst(s, r)
  \/ \E r \in EventResults : TakeSecond(s, r)
  \/ UnwatchEvent(s)

ServerStep ==
  \/ \E r \in CommandResults : HandleCommand(r)
  \/ HandleStream \/ HandleMail \/ StreamHandled
  \/ \E note \in BagToSet(notes) : Notify(note)

Next ==
  \/ \E s \in Senders : \/ SendStep(s) \/ WaitStep(s) \/ TimeOut(s)
                        \/ CallFromCommandHandle(s) \/ CallFromEventHandle(s)
  \/ ServerStep
  \/ \E c \in Commands : Republish(c)

Spec == Init /\ [][Next]_vars

-----------------------------------------------------------------------------
Alone(s) == \A t \in Senders \ {s} : cmdOf[t] # cmdOf[s]

OnTheWay(key) == \E note \in BagToSet(notes) : note[1] = key

Happened(key) == \E r \in CommandResults \cup EventResults : <<key, r>> \in happened

(* A watched channel is empty and still to be read: the notifier's write    *)
(* never blocks, and no watch gets two results, however often a command is *)
(* handled and its stream published.                                       *)
WatchedIsEmpty ==
  \A key \in Keys :
    watch[key] # Nobody => box[watch[key]][key[2]] = <<>>

(* What the two calls return has been reported of the sender's own command, *)
(* also when several senders use one command id: FromCommandHandle returns *)
(* a result of the command, FromEventHandle one of the command, its error  *)
(* among them, or, of a command that was reported changed, one of its      *)
(* event stream.                                                           *)
ReturnsWhatHappened ==
  \A s \in Senders :
    LET reported(p, r) == <<<<cmdOf[s], p>>, r>> \in happened IN
      /\ first[s] \in CommandResults => reported("command", first[s])
      /\ second[s] \in CommandResults \cup EventResults =>
           \/ second[s] # "changed" /\ reported("command", second[s])
           \/ reported("command", "changed") /\ reported("event", second[s])

(* A sender that is the only one with its command misses no result: when    *)
(* it waits for one that has come to the notifier, it is in its channel,   *)
(* no matter that handling may be over before Send has returned.           *)
SoleSenderMissesNothing ==
  \A s \in Senders :
    LET waitsFor(p) == \/ p = "command" /\ spc[s] \in {"sent", "waitCommand"}
                       \/ p = "command" /\ spc[s] = "waitFirst" /\ first[s] = None
                       \/ p = "event" /\ spc[s] = "waitSecond"
    IN Alone(s) => \A p \in Providers :
         LET key == <<cmdOf[s], p>> IN
           waitsFor(p) /\ Happened(key) => box[s][p] # <<>> \/ OnTheWay(key)
=============================================================================
