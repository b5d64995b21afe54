---------------------------- MODULE MailHandling -----------------------------
(***************************************************************************)
(* How the worker of a mailbox handles one group of mails (processMails    *)
(* and processMail of messaging/mailbox.go): the events of a stream, one   *)
(* after the other, each with all handlers subscribed to its type.         *)
(***************************************************************************)
EXTENDS Naturals, Sequences, SequencesExt

CONSTANTS
  Types,       \* event types
  Handlers,    \* handler functions
  HandlersOf,  \* type -> handlers in the order of their subscription
  IsAsync      \* handlers that reach the mailbox with IsAsync: none through the
               \* default dispatcher, whose Subscribe and AddProxy leave it out

ASSUME MailHandlingAssumption ==
  /\ HandlersOf \in [Types -> Seq(Handlers)]
  /\ IsAsync \subseteq Handlers

VARIABLES
  mpc,         \* where processMails is
  mails,       \* the group it handles: the types of its events
  at,          \* mail in hand
  turn,        \* how many of its handlers the loop over them has come to
  running,     \* positions of its handlers that run in goroutines of their own
  broken,      \* positions of those of them that have returned an error
  errOf,       \* mail whose error is in handlerErrs, 0 for nil
  failed,      \* failedHandlers: <<mail, position>>
  ran          \* history: <<mail, position, succeeded>> in the order they ended

progress == <<mpc, mails, at, turn, running>>
errors == <<broken, errOf, failed>>
mailVars == <<progress, errors, ran>>

HandlersAt(i) == HandlersOf[mails[i]]

\* Handlers are told apart by their position: one may be subscribed twice.
Positions(i) == DOMAIN HandlersAt(i)

Parallel(i, k) == HandlersAt(i)[k] \in IsAsync

MailTypeOK ==
  /\ mpc \in {"idle", "mail", "sync", "async"}
  /\ mails \in Seq(Types)
  /\ at \in 0..Len(mails)
  /\ turn \in Nat
  /\ running \subseteq 1..turn
  /\ broken \subseteq 1..turn
  /\ errOf \in 0..Len(mails)
  /\ failed \in Seq((1..Len(mails)) \X Nat)
  /\ ran \in Seq((1..Len(mails)) \X Nat \X BOOLEAN)

MailInit ==
  /\ mpc = "idle"
  /\ mails = <<>>
  /\ at = 0
  /\ turn = 0
  /\ running = {}
  /\ broken = {}
  /\ errOf = 0
  /\ failed = <<>>
  /\ ran = <<>>

BeginGroup(group) ==
  /\ mpc = "idle"
  /\ mpc' = "mail"
  /\ mails' = group
  /\ UNCHANGED <<at, turn, running, errors, ran>>

\* The next mail of the group, if there is a handler for it.
NextMail ==
  /\ mpc = "mail"
  /\ at < Len(mails)
  /\ at' = at + 1
  /\ turn' = 0
  /\ \/ HandlersAt(at + 1) # <<>> /\ mpc' = "sync" /\ UNCHANGED errOf
     \/ HandlersAt(at + 1) = <<>> /\ errOf' = at + 1 /\ UNCHANGED mpc
  /\ UNCHANGED <<mails, running, broken, failed, ran>>

\* The loop comes to its next handler.
NextHandler ==
  /\ mpc = "sync"
  /\ turn < Len(HandlersAt(at))
  /\ turn' = turn + 1
  /\ UNCHANGED <<mails, at, running, broken>>

\* It is put aside until the others have run.
PutAside ==
  /\ NextHandler
  /\ Parallel(at, turn')
  /\ UNCHANGED <<mpc, errOf, failed, ran>>

\* It returns nil or ErrAggregateNoChange; timeouts are tried again before.
SyncSucceeds ==
  /\ NextHandler
  /\ ~ Parallel(at, turn')
  /\ ran' = Append(ran, <<at, turn', TRUE>>)
  /\ UNCHANGED <<mpc, errOf, failed>>

\* Faulty: the other handlers run although this one has failed.
SyncFailureIgnored ==
  /\ NextHandler
  /\ ~ Parallel(at, turn')
  /\ ran' = Append(ran, <<at, turn', FALSE>>)
  /\ failed' = Append(failed, <<at, turn'>>)
  /\ errOf' = at
  /\ UNCHANGED mpc

\* An error, or a panic: the other handlers of this mail are left out.
SyncFails ==
  /\ NextHandler
  /\ ~ Parallel(at, turn')
  /\ ran' = Append(ran, <<at, turn', FALSE>>)
  /\ failed' = Append(failed, <<at, turn'>>)
  /\ errOf' = at
  /\ mpc' = "mail"

StartAsync ==
  /\ mpc = "sync"
  /\ turn = Len(HandlersAt(at))
  /\ running' = {k \in Positions(at) : Parallel(at, k)}
  /\ mpc' = IF running' = {} THEN "mail" ELSE "async"
  /\ UNCHANGED <<mails, at, turn, errors, ran>>

EndAsync(k, succeeded) ==
  /\ k \in running
  /\ running' = running \ {k}
  /\ broken' = IF succeeded THEN broken ELSE broken \cup {k}
  /\ ran' = Append(ran, <<at, k, succeeded>>)
  /\ UNCHANGED <<mpc, mails, at, turn, errOf, failed>>

\* The members of S in ascending order: a set of one sequence.
Ascending(S) ==
  {ks \in [1..Cardinality(S) -> S] : \A i, j \in DOMAIN ks : i < j => ks[i] < ks[j]}

\* The broken handlers are named in the order of their subscription.
NameBroken ==
  \E ks \in Ascending(broken) : failed' = failed \o [i \in DOMAIN ks |-> <<at, ks[i]>>]

\* Faulty: the errors are collected without waiting for everyone.
JoinEarly ==
  /\ mpc = "async"
  /\ errOf' = IF broken # {} THEN at ELSE errOf
  /\ NameBroken
  /\ broken' = {}
  /\ mpc' = "mail"
  /\ UNCHANGED <<mails, at, turn, running, ran>>

\* Faulty: only the first error is looked at.
JoinFirst ==
  /\ mpc = "async"
  /\ running = {}
  /\ errOf' = IF 1 \in broken THEN at ELSE errOf
  /\ NameBroken
  /\ broken' = {}
  /\ mpc' = "mail"
  /\ UNCHANGED <<mails, at, turn, running, ran>>

\* WaitGroup.Wait returns.  An error of this mail takes the place of one of an
\* earlier mail, as errors.Join is given only the new one.
JoinAsync ==
  /\ mpc = "async"
  /\ running = {}
  /\ errOf' = IF broken # {} THEN at ELSE errOf
  /\ NameBroken
  /\ broken' = {}
  /\ mpc' = "mail"
  /\ UNCHANGED <<mails, at, turn, running, ran>>

GroupEnded == mpc = "mail" /\ at = Len(mails)

Result == IF errOf = 0 THEN "ok" ELSE "error"

\* Faulty: the error is still there when the next group begins.
EndGroupKeepsError ==
  /\ GroupEnded
  /\ mpc' = "idle"
  /\ mails' = <<>>
  /\ at' = 0
  /\ turn' = 0
  /\ failed' = <<>>
  /\ ran' = <<>>
  /\ UNCHANGED <<running, broken, errOf>>

\* The result goes to ResultCh.
EndGroup ==
  /\ GroupEnded
  /\ mpc' = "idle"
  /\ mails' = <<>>
  /\ at' = 0
  /\ turn' = 0
  /\ errOf' = 0
  /\ failed' = <<>>
  /\ ran' = <<>>
  /\ UNCHANGED <<running, broken>>

MailStep ==
  \/ NextMail \/ PutAside \/ SyncSucceeds \/ SyncFails \/ StartAsync \/ JoinAsync
  \/ \E k \in running : \E succeeded \in BOOLEAN : EndAsync(k, succeeded)

-----------------------------------------------------------------------------
(* A group gets the result nil exactly if each of its mails had a handler   *)
(* and all handlers subscribed to it have succeeded.                       *)
NilMeansHandled ==
  GroupEnded =>
    (errOf = 0 <=> \A i \in DOMAIN mails :
                     /\ HandlersAt(i) # <<>>
                     /\ \A k \in Positions(i) : <<i, k, TRUE>> \in ToSet(ran))

(* FailedMessageHandlers names those that failed, no other and none twice,  *)
(* in the order of the mails and then of the subscriptions.                *)
FailedAreNamed ==
  GroupEnded =>
    /\ ToSet(failed) = {<<run[1], run[2]>> : run \in {run \in ToSet(ran) : ~ run[3]}}
    /\ \A j, l \in DOMAIN failed :
         j < l => \/ failed[j][1] < failed[l][1]
                  \/ failed[j][1] = failed[l][1] /\ failed[j][2] < failed[l][2]

(* A handler ends after all handlers of earlier mails, and after all that  *)
(* were subscribed before it to run one after the other, which have        *)
(* succeeded: IsAsync lets a handler overtake only others of its kind.     *)
HandledInOrder ==
  \A j \in DOMAIN ran :
    LET i == ran[j][1]  k == ran[j][2] IN
      /\ \A l \in 1..(j - 1) : ran[l][1] <= i
      /\ \A earlier \in Positions(i) :
           ~ Parallel(i, earlier) /\ (earlier < k \/ Parallel(i, k))
             => \E l \in 1..(j - 1) : ran[l] = <<i, earlier, TRUE>>
=============================================================================
