------------------------- MODULE CommandResultProofs --------------------------
(***************************************************************************)
(* Proofs about the handling of mails and the results of commands, for any *)
(* senders, commands, event types and subscriptions.                       *)
(*                                                                         *)
(* The first half is about the worker of the mailbox.  It keeps apart how  *)
(* far the loop over the handlers of one mail has come (TurnInv), in which *)
(* order they ended (RanInv), and what of it is remembered: one error      *)
(* (ErrInv) and the names of those that failed (FailedInv).                *)
(***************************************************************************)
EXTENDS CommandResult, FiniteSetTheorems, SequenceTheorems, TLAPS

\* The handler in position k of mail i has ended so.
Ended(r, i, k, succeeded) == \E j \in DOMAIN r : r[j] = <<i, k, succeeded>>

Good(i, k) == Ended(ran, i, k, TRUE)

Bad(i, k) == Ended(ran, i, k, FALSE)

Names(f, i, k) == \E j \in DOMAIN f : f[j] = <<i, k>>

InTurn == mpc \in {"sync", "async"}

PhaseInv ==
  /\ mpc # "async" => running = {} /\ broken = {}
  /\ mpc = "idle" => at = 0 /\ errOf = 0 /\ failed = <<>> /\ ran = <<>>
  /\ InTurn => at > 0 /\ turn <= Len(HandlersAt(at)) /\ HandlersAt(at) # <<>>
  /\ mpc = "async" => /\ turn = Len(HandlersAt(at))
                      /\ broken \cap running = {}
                      /\ \A k \in running \cup broken : Parallel(at, k)

\* What the loop, and the goroutines, have done with the mail in hand.
TurnInv ==
  InTurn => \A k \in Positions(at) :
    /\ Good(at, k) <=> \/ ~ Parallel(at, k) /\ k <= turn
                       \/ Parallel(at, k) /\ mpc = "async" /\ k \notin running \cup broken
    /\ Bad(at, k) <=> k \in broken

RanInv ==
  /\ \A j \in DOMAIN ran : ran[j][1] <= at /\ ran[j][2] \in Positions(ran[j][1])
  /\ HandledInOrder

\* Mails that are over.
Past == {i \in 1..Len(mails) : i < at \/ (i = at /\ ~ InTurn)}

AllGood(i) == HandlersAt(i) # <<>> /\ \A k \in Positions(i) : Good(i, k)

ErrInv == errOf = 0 <=> \A i \in Past : AllGood(i)

Before(e, f) == e[1] < f[1] \/ (e[1] = f[1] /\ e[2] < f[2])

FailedInv ==
  /\ \A i \in 1..Len(mails) : \A k \in Positions(i) :
       Names(failed, i, k) <=> Bad(i, k) /\ ~ (i = at /\ k \in broken)
  /\ \A j \in DOMAIN failed : failed[j][2] \in Positions(failed[j][1])
  /\ \A j, l \in DOMAIN failed : j < l => Before(failed[j], failed[l])

MailInv == MailTypeOK /\ PhaseInv /\ TurnInv /\ RanInv /\ ErrInv /\ FailedInv

\* What a step of CommandResult does to the worker.
MailAction ==
  \/ \E group \in Seq(Types) : BeginGroup(group)
  \/ MailStep
  \/ EndGroup
  \/ UNCHANGED mailVars

-----------------------------------------------------------------------------
LEMMA PositionFacts ==
  ASSUME mails \in Seq(Types), NEW i \in 1..Len(mails)
  PROVE  /\ HandlersAt(i) \in Seq(Handlers)
         /\ Len(HandlersAt(i)) \in Nat
         /\ Positions(i) = 1..Len(HandlersAt(i))
         /\ HandlersAt(i) # <<>> <=> Len(HandlersAt(i)) > 0
  <1>1. HandlersAt(i) \in Seq(Handlers)
    BY MailHandlingAssumption DEF HandlersAt
  <1> QED
    BY <1>1 DEF Positions

LEMMA SameMails ==
  ASSUME mails' = mails
  PROVE  \A i : /\ HandlersAt(i)' = HandlersAt(i)
                /\ Positions(i)' = Positions(i)
                /\ \A k : Parallel(i, k)' <=> Parallel(i, k)
  BY DEF HandlersAt, Positions, Parallel

LEMMA AppendHas ==
  ASSUME NEW T, NEW r \in Seq(T), NEW e \in T, NEW f
  PROVE  (\E j \in DOMAIN Append(r, e) : Append(r, e)[j] = f) <=> (\E j \in DOMAIN r : r[j] = f) \/ f = e
  <1>1. /\ DOMAIN Append(r, e) = 1..(Len(r) + 1)
        /\ DOMAIN r = 1..Len(r)
        /\ Len(r) \in Nat
        /\ \A j \in 1..Len(r) : Append(r, e)[j] = r[j]
        /\ Append(r, e)[Len(r) + 1] = e
    OBVIOUS
  <1>2. \A j \in 1..(Len(r) + 1) : j \in 1..Len(r) \/ j = Len(r) + 1
    BY <1>1
  <1>3. Len(r) + 1 \in 1..(Len(r) + 1) /\ 1..Len(r) \subseteq 1..(Len(r) + 1)
    BY <1>1
  <1> DEFINE a == Append(r, e)
  <1> HIDE DEF a
  <1> QED
    BY <1>1, <1>2, <1>3, Zenon DEF a

LEMMA InTurnFacts ==
  ASSUME MailTypeOK, PhaseInv, InTurn
  PROVE  /\ at \in 1..Len(mails)
         /\ at \in Nat
         /\ turn \in Nat
         /\ turn <= Len(HandlersAt(at))
         /\ HandlersAt(at) # <<>>
         /\ Positions(at) = 1..Len(HandlersAt(at))
         /\ Len(HandlersAt(at)) \in Nat
  <1>1. at \in 1..Len(mails) /\ at \in Nat /\ turn \in Nat /\ mails \in Seq(Types)
    BY DEF MailTypeOK, PhaseInv
  <1>2. turn <= Len(HandlersAt(at)) /\ HandlersAt(at) # <<>>
    BY DEF PhaseInv
  <1> QED
    BY <1>1, <1>2, PositionFacts

LEMMA EndedAppend ==
  ASSUME NEW T, NEW r \in Seq(T), NEW i, NEW k, NEW b, <<i, k, b>> \in T
  PROVE  \A i2, k2, b2 :
           Ended(Append(r, <<i, k, b>>), i2, k2, b2)
             <=> Ended(r, i2, k2, b2) \/ <<i2, k2, b2>> = <<i, k, b>>
  <1> TAKE i2, k2, b2
  <1> DEFINE e == <<i, k, b>>
             f == <<i2, k2, b2>>
  <1>1. (\E j \in DOMAIN Append(r, e) : Append(r, e)[j] = f) <=> (\E j \in DOMAIN r : r[j] = f) \/ f = e
    <2> HIDE DEF e, f
    <2>1. e \in T
      BY DEF e
    <2> QED
      BY <2>1, AppendHas
  <1> QED
    BY <1>1, Zenon DEF Ended

LEMMA NamesAppend ==
  ASSUME NEW T, NEW f \in Seq(T), NEW i, NEW k, <<i, k>> \in T
  PROVE  \A i2, k2 : Names(Append(f, <<i, k>>), i2, k2)
                       <=> Names(f, i2, k2) \/ (i2 = i /\ k2 = k)
  <1> TAKE i2, k2
  <1> DEFINE d == <<i, k>>
             e == <<i2, k2>>
  <1>1. (\E j \in DOMAIN Append(f, d) : Append(f, d)[j] = e) <=> (\E j \in DOMAIN f : f[j] = e) \/ e = d
    <2> HIDE DEF d, e
    <2>1. d \in T
      BY DEF d
    <2> QED
      BY <2>1, AppendHas
  <1>2. e = d <=> i2 = i /\ k2 = k
    OBVIOUS
  <1> QED
    BY <1>1, <1>2, Zenon DEF Names

-----------------------------------------------------------------------------
(* The broken handlers are named without gap or repetition.                *)

LEMMA AscendingIsOnto ==
  ASSUME NEW S, S \subseteq Nat, IsFiniteSet(S), NEW ks \in Ascending(S)
  PROVE  /\ ks \in Seq(S)
         /\ \A i, j \in DOMAIN ks : i < j => ks[i] < ks[j]
         /\ \A k \in S : \E i \in DOMAIN ks : ks[i] = k
  <1> DEFINE c == Cardinality(S)
  <1>1. IsFiniteSet(S) /\ c \in Nat
    BY FS_CardinalityType
  <1>2. /\ ks \in [1..c -> S]
        /\ \A i, j \in DOMAIN ks : i < j => ks[i] < ks[j]
    BY DEF Ascending
  <1>3. ks \in Seq(S)
    BY <1>1, <1>2
  <1> DEFINE R == {ks[i] : i \in 1..c}
  <1>4. IsFiniteSet(1..c) /\ Cardinality(1..c) = c
    BY <1>1, FS_Interval
  <1>5. ks \in Surjection(1..c, R)
    BY <1>2 DEF Surjection
  <1>6. \A i, j \in 1..c : ks[i] = ks[j] => i = j
    <2>1. \A i, j \in 1..c : i < j => ks[i] < ks[j]
      BY <1>2
    <2>2. \A i \in 1..c : ks[i] \in Nat
      BY <1>2
    <2> HIDE DEF c
    <2> QED
      BY <1>1, <2>1, <2>2
  <1>7. Cardinality(R) = c
    <2>1. ks \in Injection(1..c, R)
      BY <1>5, <1>6 DEF Injection, Surjection, IsInjective
    <2>2. IsFiniteSet(1..c) /\ Cardinality(1..c) = c
      BY <1>4
    <2> HIDE DEF c, R
    <2> QED
      BY <1>5, <2>1, <2>2, FS_Surjection
  <1>8. R \subseteq S
    BY <1>2
  <1>9. R = S
    BY <1>1, <1>7, <1>8, FS_Subset
  <1> QED
    BY <1>2, <1>3, <1>9
\* What the broken handlers add to failedHandlers.
LEMMA NameBrokenFacts ==
  ASSUME MailTypeOK, PhaseInv, mpc = "async", NameBroken
  PROVE  /\ failed' \in Seq((1..Len(mails)) \X Nat)
         /\ \A i, k : Names(failed', i, k) <=> Names(failed, i, k) \/ (i = at /\ k \in broken)
         /\ Len(failed) <= Len(failed')
         /\ \A j \in 1..Len(failed) : failed'[j] = failed[j]
         /\ \A j \in 1..Len(failed') : j > Len(failed) => /\ failed'[j][1] = at
                                                         /\ failed'[j][2] \in broken
         /\ \A j, l \in 1..Len(failed') :
              j > Len(failed) /\ j < l => failed'[j][2] < failed'[l][2]
  <1>1. PICK ks \in Ascending(broken) : failed' = failed \o [i \in DOMAIN ks |-> <<at, ks[i]>>]
    BY DEF NameBroken
  <1>2. broken \subseteq 1..turn /\ turn \in Nat /\ at \in 1..Len(mails)
    BY DEF MailTypeOK, PhaseInv, InTurn
  <1>3. /\ ks \in Seq(broken)
        /\ \A i, j \in DOMAIN ks : i < j => ks[i] < ks[j]
        /\ \A k \in broken : \E i \in DOMAIN ks : ks[i] = k
    <2>1. IsFiniteSet(1..turn)
      BY <1>2, FS_Interval
    <2>2. broken \in SUBSET (1..turn)
      BY <1>2
    <2>3. IsFiniteSet(broken)
      BY <2>1, <2>2, FS_Subset
    <2>4. broken \subseteq Nat
      BY <2>2
    <2> QED
      BY <1>1, <2>3, <2>4, AscendingIsOnto
  <1> DEFINE names == [i \in DOMAIN ks |-> <<at, ks[i]>>]
             T == (1..Len(mails)) \X Nat
  <1>4. failed \in Seq(T)
    BY DEF MailTypeOK
  <1>5. /\ names \in Seq(T)
        /\ Len(names) = Len(ks)
        /\ \A i \in 1..Len(ks) : names[i] = <<at, ks[i]>>
    <2>1. \A i \in DOMAIN ks : ks[i] \in broken /\ ks[i] \in Nat
      <3>1. \A i \in DOMAIN ks : ks[i] \in broken
        BY <1>3
      <3>2. \A k \in broken : k \in Nat
        BY <1>2
      <3> QED
        BY <3>1, <3>2
    <2>2. \A i \in DOMAIN ks : <<at, ks[i]>> \in T
      BY <1>2, <2>1
    <2> HIDE DEF T
    <2> QED
      BY <1>3, <2>2
  <1>6. /\ failed' \in Seq(T)
        /\ Len(failed') = Len(failed) + Len(ks)
        /\ \A j \in 1..Len(failed) : failed'[j] = failed[j]
        /\ \A j \in 1..Len(failed') : j > Len(failed) => /\ j - Len(failed) \in 1..Len(ks)
                                                        /\ failed'[j] = names[j - Len(failed)]
        /\ \A i \in 1..Len(ks) : /\ Len(failed) + i \in 1..Len(failed')
                                 /\ failed'[Len(failed) + i] = names[i]
    <2>1. failed' = failed \o names
      BY <1>1
    <2>2. Len(ks) \in Nat
      BY <1>3
    <2>3. /\ Len(failed') = Len(failed) + Len(names)
          /\ \A j \in 1..(Len(failed) + Len(names)) :
               failed'[j] = IF j <= Len(failed) THEN failed[j] ELSE names[j - Len(failed)]
      <3>1. failed \in Seq(T) /\ names \in Seq(T)
        BY <1>4, <1>5
      <3> HIDE DEF names, T
      <3> QED
        BY <2>1, <3>1, ConcatProperties
    <2>4. Len(failed) \in Nat /\ failed' \in Seq(T)
      <3> HIDE DEF names, T
      <3> QED
        BY <1>4, <1>5, <2>1
    <2> HIDE DEF names, T
    <2> QED
      BY <1>5, <2>2, <2>3, <2>4
  <1>7. /\ Len(failed) \in Nat
        /\ Len(ks) \in Nat
        /\ Len(failed') \in Nat
        /\ DOMAIN failed = 1..Len(failed)
        /\ DOMAIN failed' = 1..Len(failed')
        /\ DOMAIN ks = 1..Len(ks)
        /\ \A i \in 1..Len(ks) : ks[i] \in broken
    <2> HIDE DEF T
    <2> QED
      BY <1>3, <1>4, <1>6
  <1>8. \A j \in 1..Len(failed') : j > Len(failed) => failed'[j] = <<at, ks[j - Len(failed)]>>
    BY <1>5, <1>6
  <1>9. \A i, k : Names(failed', i, k) <=> Names(failed, i, k) \/ (i = at /\ k \in broken)
    <2> TAKE i, k
    <2>1. ASSUME Names(failed', i, k) PROVE Names(failed, i, k) \/ (i = at /\ k \in broken)
      <3>1. PICK j \in 1..Len(failed') : failed'[j] = <<i, k>>
        BY <1>7, <2>1 DEF Names
      <3>2. CASE j <= Len(failed)
        <4>1. j \in 1..Len(failed)
          BY <3>2, <1>7
        <4> QED
          BY <1>6, <1>7, <3>1, <4>1 DEF Names
      <3>3. CASE j > Len(failed)
        <4>1. <<i, k>> = <<at, ks[j - Len(failed)]>> /\ ks[j - Len(failed)] \in broken
          BY <1>6, <1>7, <1>8, <3>1, <3>3
        <4> QED
          BY <4>1
      <3> QED
        BY <1>7, <3>2, <3>3
    <2>2. ASSUME Names(failed, i, k) PROVE Names(failed', i, k)
      <3>1. PICK j \in 1..Len(failed) : failed[j] = <<i, k>>
        BY <1>7, <2>2 DEF Names
      <3>2. j \in 1..Len(failed') /\ failed'[j] = <<i, k>>
        BY <1>6, <1>7, <3>1
      <3> QED
        BY <1>7, <3>2 DEF Names
    <2>3. ASSUME i = at, k \in broken PROVE Names(failed', i, k)
      <3>1. PICK l \in 1..Len(ks) : ks[l] = k
        BY <1>3, <1>7, <2>3
      <3>2. Len(failed) + l \in 1..Len(failed') /\ failed'[Len(failed) + l] = <<i, k>>
        BY <1>5, <1>6, <2>3, <3>1
      <3> QED
        BY <1>7, <3>2 DEF Names
    <2> QED
      BY <2>1, <2>2, <2>3
  <1>10. \A j \in 1..Len(failed') : j > Len(failed) => /\ failed'[j][1] = at
                                                       /\ failed'[j][2] \in broken
    <2> TAKE j \in 1..Len(failed')
    <2> HAVE j > Len(failed)
    <2>1. failed'[j] = <<at, ks[j - Len(failed)]>> /\ ks[j - Len(failed)] \in broken
      BY <1>6, <1>7, <1>8
    <2> QED
      BY <2>1
  <1>11. ASSUME NEW j \in 1..Len(failed'), NEW l \in 1..Len(failed'), j > Len(failed), j < l
         PROVE  failed'[j][2] < failed'[l][2]
    <2>1. l > Len(failed) /\ j - Len(failed) < l - Len(failed)
      BY <1>7, <1>11
    <2>2. ks[j - Len(failed)] < ks[l - Len(failed)]
      BY <1>3, <1>6, <1>7, <1>11, <2>1
    <2> QED
      BY <1>8, <1>11, <2>1, <2>2
  <1> QED
    BY <1>6, <1>7, <1>9, <1>10, <1>11
-----------------------------------------------------------------------------
LEMMA MailTypeStep ==
  ASSUME MailTypeOK, PhaseInv, MailAction
  PROVE  MailTypeOK'
  <1> USE DEF MailTypeOK, PhaseInv
  <1> DEFINE T == (1..Len(mails)) \X Nat
             U == (1..Len(mails)) \X Nat \X BOOLEAN
  <1>0. Len(mails) \in Nat /\ at \in Nat
    OBVIOUS
  <1>1. CASE \E group \in Seq(Types) : BeginGroup(group)
    <2>1. PICK group \in Seq(Types) : BeginGroup(group)
      BY <1>1
    <2>2. mails' \in Seq(Types) /\ Len(mails') \in Nat
      BY <2>1 DEF BeginGroup
    <2> QED
      BY <2>1, <2>2 DEF BeginGroup, errors
  <1>2. CASE NextMail
    <2>1. running = {} /\ broken = {}
      BY <1>2 DEF NextMail
    <2> QED
      BY <1>0, <1>2, <2>1 DEF NextMail
  <1>3. CASE PutAside
    BY <1>0, <1>3 DEF PutAside, NextHandler
  <1>4. ASSUME SyncSucceeds \/ SyncFails PROVE MailTypeOK'
    <2>1. at \in 1..Len(mails) /\ turn + 1 \in Nat
      <3> HIDE DEF MailTypeOK, PhaseInv
      <3>1. InTurn
        BY <1>4 DEF SyncSucceeds, SyncFails, NextHandler, InTurn
      <3> QED
        BY <3>1, InTurnFacts
    <2>2. <<at, turn + 1, TRUE>> \in U /\ <<at, turn + 1, FALSE>> \in U /\ <<at, turn + 1>> \in T
      BY <2>1
    <2>3. /\ Append(ran, <<at, turn + 1, TRUE>>) \in Seq(U)
          /\ Append(ran, <<at, turn + 1, FALSE>>) \in Seq(U)
          /\ Append(failed, <<at, turn + 1>>) \in Seq(T)
      <3>1. ran \in Seq(U) /\ failed \in Seq(T)
        OBVIOUS
      <3> HIDE DEF T, U
      <3> QED
        BY <2>2, <3>1
    <2>4. ran' \in Seq(U) /\ failed' \in Seq(T)
      <3>1. ran \in Seq(U) /\ failed \in Seq(T)
        OBVIOUS
      <3> HIDE DEF T, U
      <3> QED
        BY <1>4, <2>3, <3>1 DEF SyncSucceeds, SyncFails, NextHandler
    <2>5. running' \subseteq 1..turn' /\ broken' \subseteq 1..turn' /\ turn' \in Nat
      BY <1>4, <2>1 DEF SyncSucceeds, SyncFails, NextHandler
    <2>6. mpc' \in {"mail", "sync"} /\ mails' = mails /\ at' = at /\ errOf' \in 0..Len(mails)
      BY <1>4, <2>1 DEF SyncSucceeds, SyncFails, NextHandler
    <2> QED
      BY <2>4, <2>5, <2>6
  <1>5. CASE StartAsync
    <2>1. at \in 1..Len(mails) /\ turn = Len(HandlersAt(at))
      BY <1>5 DEF StartAsync, InTurn
    <2>2. running' \subseteq 1..turn
      BY <1>5, <2>1, PositionFacts DEF StartAsync
    <2> QED
      BY <1>5, <2>2 DEF StartAsync, errors
  <1>6. CASE JoinAsync
    <2>1. failed' \in Seq(T)
      BY <1>6, NameBrokenFacts DEF JoinAsync
    <2>2. errOf' \in 0..Len(mails)
      BY <1>6 DEF JoinAsync
    <2> QED
      BY <1>6, <2>1, <2>2 DEF JoinAsync
  <1>7. CASE \E k \in running : \E succeeded \in BOOLEAN : EndAsync(k, succeeded)
    <2>1. PICK k \in running : \E succeeded \in BOOLEAN : EndAsync(k, succeeded)
      BY <1>7
    <2>2. PICK succeeded \in BOOLEAN : EndAsync(k, succeeded)
      BY <2>1
    <2>3. k \in Nat /\ at \in 1..Len(mails) /\ k \in 1..turn
      BY <2>1 DEF InTurn
    <2>4. ran' \in Seq(U)
      <3>1. <<at, k, succeeded>> \in U
        BY <2>2, <2>3
      <3>2. ran \in Seq(U)
        OBVIOUS
      <3> HIDE DEF U
      <3> QED
        BY <2>2, <3>1, <3>2 DEF EndAsync
    <2>5. running' \subseteq 1..turn /\ broken' \subseteq 1..turn
      BY <2>2, <2>3 DEF EndAsync
    <2> QED
      BY <2>2, <2>4, <2>5 DEF EndAsync
  <1>8. CASE EndGroup
    <2>1. running = {} /\ broken = {}
      BY <1>8 DEF EndGroup, GroupEnded
    <2> QED
      BY <1>8, <2>1 DEF EndGroup
  <1>9. CASE UNCHANGED mailVars
    BY <1>9 DEF mailVars, progress, errors
  <1> QED
    BY <1>1, <1>2, <1>3, <1>4, <1>5, <1>6, <1>7, <1>8, <1>9 DEF MailAction, MailStep
LEMMA NextHandlerFacts ==
  ASSUME MailTypeOK, PhaseInv, NextHandler
  PROVE  /\ InTurn /\ mpc = "sync" /\ mails' = mails /\ at' = at
         /\ running = {} /\ broken = {} /\ running' = {} /\ broken' = {}
         /\ turn' = turn + 1 /\ turn' \in Positions(at)
  <1>1. InTurn /\ mpc = "sync"
    BY DEF NextHandler, InTurn
  <1>2. running = {} /\ broken = {}
    BY <1>1 DEF PhaseInv
  <1> QED
    BY <1>1, <1>2, InTurnFacts DEF NextHandler

\* A handler of the mail in hand ends.
LEMMA RanEffect ==
  ASSUME MailTypeOK, PhaseInv, InTurn, NEW k \in Positions(at), NEW b \in BOOLEAN,
         ran' = Append(ran, <<at, k, b>>)
  PROVE  /\ \A i2, k2 : Good(i2, k2)' <=> Good(i2, k2) \/ (b /\ i2 = at /\ k2 = k)
         /\ \A i2, k2 : Bad(i2, k2)' <=> Bad(i2, k2) \/ (~ b /\ i2 = at /\ k2 = k)
  <1> DEFINE U == (1..Len(mails)) \X Nat \X BOOLEAN
  <1>1. <<at, k, b>> \in U
    BY InTurnFacts
  <1>2. ran \in Seq(U)
    BY DEF MailTypeOK
  <1>3. \A i2, k2, b2 : Ended(ran', i2, k2, b2) <=> Ended(ran, i2, k2, b2) \/ <<i2, k2, b2>> = <<at, k, b>>
    <2> HIDE DEF U
    <2> QED
      BY <1>1, <1>2, EndedAppend
  <1>4. \A i2, k2 : <<i2, k2, TRUE>> = <<at, k, b>> <=> b /\ i2 = at /\ k2 = k
    OBVIOUS
  <1>5. \A i2, k2 : <<i2, k2, FALSE>> = <<at, k, b>> <=> ~ b /\ i2 = at /\ k2 = k
    OBVIOUS
  <1>6. \A i2, k2 : Ended(ran', i2, k2, TRUE) <=> Ended(ran, i2, k2, TRUE) \/ (b /\ i2 = at /\ k2 = k)
    <2> TAKE i2, k2
    <2>1. Ended(ran', i2, k2, TRUE) <=> Ended(ran, i2, k2, TRUE) \/ <<i2, k2, TRUE>> = <<at, k, b>>
      BY <1>3
    <2> QED
      BY <1>4, <2>1, Zenon
  <1>7. \A i2, k2 : Ended(ran', i2, k2, FALSE) <=> Ended(ran, i2, k2, FALSE) \/ (~ b /\ i2 = at /\ k2 = k)
    <2> TAKE i2, k2
    <2>1. Ended(ran', i2, k2, FALSE) <=> Ended(ran, i2, k2, FALSE) \/ <<i2, k2, FALSE>> = <<at, k, b>>
      BY <1>3
    <2> QED
      BY <1>5, <2>1, Zenon
  <1> QED
    BY <1>6, <1>7 DEF Good, Bad

LEMMA RanKept ==
  ASSUME ran' = ran
  PROVE  \A i, k : (Good(i, k)' <=> Good(i, k)) /\ (Bad(i, k)' <=> Bad(i, k))
  BY DEF Good, Bad

LEMMA PhaseStep ==
  ASSUME MailTypeOK, PhaseInv, MailAction
  PROVE  PhaseInv'
  <1>1. CASE \E group \in Seq(Types) : BeginGroup(group)
    BY <1>1 DEF PhaseInv, BeginGroup, InTurn, errors
  <1>2. CASE NextMail
    <2>1. HandlersAt(at)' = HandlersAt(at + 1) /\ Len(HandlersAt(at + 1)) >= 0
      <3>1. at + 1 \in 1..Len(mails) /\ mails \in Seq(Types)
        BY <1>2 DEF NextMail, MailTypeOK
      <3>2. HandlersAt(at)' = HandlersAt(at + 1)
        BY <1>2 DEF NextMail, HandlersAt
      <3> QED
        BY <3>1, <3>2, PositionFacts
    <2>2. mpc = "mail" /\ running' = {} /\ broken' = {}
      BY <1>2 DEF NextMail, PhaseInv
    <2> QED
      BY <1>2, <2>1, <2>2 DEF MailTypeOK, PhaseInv, NextMail, InTurn
  <1>3. ASSUME PutAside \/ SyncSucceeds \/ SyncFails PROVE PhaseInv'
    <2>1. NextHandler /\ mpc' \in {"sync", "mail"}
      BY <1>3 DEF PutAside, SyncSucceeds, SyncFails, NextHandler
    <2>2. HandlersAt(at)' = HandlersAt(at)
      BY <2>1, NextHandlerFacts, SameMails DEF HandlersAt
    <2> QED
      BY <2>1, <2>2, NextHandlerFacts, InTurnFacts DEF PhaseInv, InTurn
  <1>4. CASE StartAsync
    <2>1. InTurn /\ mails' = mails /\ at' = at /\ turn' = turn /\ broken' = {} /\ mpc' \in {"mail", "async"}
      BY <1>4 DEF StartAsync, InTurn, PhaseInv, errors
    <2>2. HandlersAt(at)' = HandlersAt(at) /\ \A k : Parallel(at, k)' <=> Parallel(at, k)
      BY <2>1, SameMails DEF HandlersAt, Parallel
    <2>3. \A k \in running' : Parallel(at, k)
      BY <1>4 DEF StartAsync
    <2>4. turn = Len(HandlersAt(at)) /\ (mpc' # "async" => running' = {})
      BY <1>4 DEF StartAsync
    <2> QED
      BY <2>1, <2>2, <2>3, <2>4, InTurnFacts DEF PhaseInv, InTurn
  <1>5. CASE JoinAsync
    BY <1>5 DEF PhaseInv, JoinAsync, InTurn
  <1>6. CASE \E k \in running : \E succeeded \in BOOLEAN : EndAsync(k, succeeded)
    <2>1. PICK k \in running : \E succeeded \in BOOLEAN : EndAsync(k, succeeded)
      BY <1>6
    <2>2. PICK succeeded \in BOOLEAN : EndAsync(k, succeeded)
      BY <2>1
    <2>3. InTurn /\ mpc = "async"
      BY <2>1 DEF PhaseInv, InTurn
    <2>4. /\ mails' = mails /\ at' = at /\ turn' = turn /\ mpc' = mpc
          /\ running' = running \ {k}
          /\ broken' \subseteq broken \cup {k}
      BY <2>2 DEF EndAsync
    <2>5. HandlersAt(at)' = HandlersAt(at) /\ \A l : Parallel(at, l)' <=> Parallel(at, l)
      BY <2>4, SameMails DEF HandlersAt, Parallel
    <2> QED
      BY <2>1, <2>3, <2>4, <2>5, InTurnFacts DEF PhaseInv, InTurn
  <1>7. CASE EndGroup
    BY <1>7 DEF PhaseInv, EndGroup, GroupEnded, InTurn
  <1>8. CASE UNCHANGED mailVars
    BY <1>8 DEF PhaseInv, mailVars, progress, errors, InTurn, HandlersAt, Parallel
  <1> QED
    BY <1>1, <1>2, <1>3, <1>4, <1>5, <1>6, <1>7, <1>8 DEF MailAction, MailStep
-----------------------------------------------------------------------------
LEMMA EndedSoFar ==
  ASSUME MailTypeOK, RanInv
  PROVE  \A i, k : Good(i, k) \/ Bad(i, k) => i <= at /\ i \in 1..Len(mails) /\ k \in Positions(i)
  <1>1. \A j \in DOMAIN ran : ran[j] \in (1..Len(mails)) \X Nat \X BOOLEAN
    BY DEF MailTypeOK
  <1> TAKE i, k
  <1> HAVE Good(i, k) \/ Bad(i, k)
  <1>2. PICK j \in DOMAIN ran : ran[j] = <<i, k, TRUE>> \/ ran[j] = <<i, k, FALSE>>
    BY DEF Good, Bad, Ended
  <1>3. ran[j][1] = i /\ ran[j][2] = k
    <2>1. CASE ran[j] = <<i, k, TRUE>>
      BY <2>1
    <2>2. CASE ran[j] = <<i, k, FALSE>>
      BY <2>2
    <2> QED
      BY <1>2, <2>1, <2>2, Zenon
  <1>4. i \in 1..Len(mails)
    BY <1>1, <1>3
  <1>5. i <= at /\ k \in Positions(i)
    BY <1>3 DEF RanInv
  <1> QED
    BY <1>4, <1>5

LEMMA TurnStep ==
  ASSUME MailTypeOK, PhaseInv, RanInv, TurnInv, MailAction
  PROVE  TurnInv'
  <1>1. CASE \E group \in Seq(Types) : BeginGroup(group)
    BY <1>1 DEF BeginGroup, TurnInv, InTurn
  <1>2. CASE NextMail
    <2>1. Positions(at)' = Positions(at + 1) /\ Positions(at + 1) = 1..Len(HandlersAt(at + 1))
      <3>1. at + 1 \in 1..Len(mails) /\ mails \in Seq(Types)
        BY <1>2 DEF NextMail, MailTypeOK
      <3>2. Positions(at)' = Positions(at + 1)
        BY <1>2 DEF NextMail, HandlersAt, Positions
      <3> QED
        BY <3>1, <3>2, PositionFacts
    <2>2. \A k : ~ Good(at, k)' /\ ~ Bad(at, k)'
      <3>1. at \in Nat /\ at' = at + 1 /\ ran' = ran
        BY <1>2 DEF NextMail, MailTypeOK
      <3>2. \A k : ~ Good(at + 1, k) /\ ~ Bad(at + 1, k)
        BY <3>1, EndedSoFar
      <3> QED
        BY <3>1, <3>2 DEF Good, Bad
    <2>3. mpc' # "async" /\ turn' = 0 /\ broken' = {}
      BY <1>2 DEF NextMail, PhaseInv
    <2> QED
      BY <2>1, <2>2, <2>3 DEF TurnInv
  <1>3. CASE PutAside \/ SyncSucceeds
    <2>1. NextHandler /\ mpc' = "sync"
      BY <1>3 DEF PutAside, SyncSucceeds, NextHandler
    <2>2. /\ InTurn /\ mails' = mails /\ at' = at /\ turn' = turn + 1
          /\ broken = {} /\ broken' = {} /\ mpc = "sync" /\ turn + 1 \in Positions(at)
      BY <2>1, NextHandlerFacts
    <2>3. Positions(at)' = Positions(at) /\ \A k : Parallel(at, k)' <=> Parallel(at, k)
      BY <2>2 DEF Positions, HandlersAt, Parallel
    <2>4. /\ turn \in Nat
          /\ Positions(at) \subseteq Nat
      BY <2>2, InTurnFacts
    <2>5. \A k \in Positions(at) : (Good(at, k) <=> ~ Parallel(at, k) /\ k <= turn) /\ ~ Bad(at, k)
      BY <2>2 DEF TurnInv
    <2>6. \A k \in Positions(at) :
            /\ Good(at, k)' <=> Good(at, k) \/ (~ Parallel(at, turn + 1) /\ k = turn + 1)
            /\ ~ Bad(at, k)'
      <3>1. CASE PutAside
        <4>1. ran' = ran /\ Parallel(at, turn + 1)
          BY <2>2, <3>1 DEF PutAside
        <4> QED
          BY <2>2, <2>5, <4>1, RanKept DEF Good, Bad
      <3>2. CASE SyncSucceeds
        <4>1. ran' = Append(ran, <<at, turn + 1, TRUE>>) /\ ~ Parallel(at, turn + 1)
          BY <2>2, <3>2 DEF SyncSucceeds
        <4>2. \A k : (Good(at, k)' <=> Good(at, k) \/ k = turn + 1) /\ (Bad(at, k)' <=> Bad(at, k))
          BY <2>2, <4>1, RanEffect DEF Good, Bad
        <4> QED
          BY <2>5, <4>1, <4>2
      <3> QED
        BY <1>3, <3>1, <3>2
    <2>7. \A k \in Positions(at) : k <= turn + 1 <=> k <= turn \/ k = turn + 1
      BY <2>4
    <2>8. \A k \in Positions(at) : (Good(at, k)' <=> ~ Parallel(at, k) /\ k <= turn + 1) /\ ~ Bad(at, k)'
      BY <2>5, <2>6, <2>7
    <2> QED
      BY <2>1, <2>2, <2>3, <2>8 DEF TurnInv
  <1>4. CASE SyncFails \/ JoinAsync \/ EndGroup
    BY <1>4 DEF SyncFails, JoinAsync, EndGroup, TurnInv, InTurn
  <1>5. CASE StartAsync
    <2>1. /\ InTurn /\ mails' = mails /\ at' = at /\ turn' = turn /\ broken' = {} /\ broken = {}
          /\ mpc = "sync" /\ turn = Len(HandlersAt(at)) /\ ran' = ran
          /\ running' = {k \in Positions(at) : Parallel(at, k)}
      BY <1>5 DEF StartAsync, InTurn, PhaseInv, errors
    <2>2. Positions(at)' = Positions(at) /\ \A k : Parallel(at, k)' <=> Parallel(at, k)
      BY <2>1 DEF Positions, HandlersAt, Parallel
    <2>3. \A k \in Positions(at) : k <= turn
      BY <2>1, InTurnFacts
    <2>4. \A k \in Positions(at) : (Good(at, k) <=> ~ Parallel(at, k)) /\ ~ Bad(at, k)
      BY <2>1, <2>3 DEF TurnInv
    <2>5. \A k : (Good(at, k)' <=> Good(at, k)) /\ (Bad(at, k)' <=> Bad(at, k))
      BY <2>1, RanKept DEF Good, Bad
    <2> QED
      BY <2>1, <2>2, <2>3, <2>4, <2>5 DEF TurnInv
  <1>6. CASE \E k \in running : \E succeeded \in BOOLEAN : EndAsync(k, succeeded)
    <2>1. PICK k \in running : \E succeeded \in BOOLEAN : EndAsync(k, succeeded)
      BY <1>6
    <2>2. PICK succeeded \in BOOLEAN : EndAsync(k, succeeded)
      BY <2>1
    <2>3. InTurn /\ mpc = "async" /\ k \notin broken /\ Parallel(at, k)
      BY <2>1 DEF PhaseInv, InTurn
    <2>4. /\ mails' = mails /\ at' = at /\ turn' = turn /\ mpc' = mpc
          /\ running' = running \ {k}
          /\ broken' = IF succeeded THEN broken ELSE broken \cup {k}
          /\ ran' = Append(ran, <<at, k, succeeded>>)
      BY <2>2 DEF EndAsync
    <2>5. Positions(at)' = Positions(at) /\ \A l : Parallel(at, l)' <=> Parallel(at, l)
      BY <2>4 DEF Positions, HandlersAt, Parallel
    <2>6. k \in Positions(at)
      BY <2>1, <2>3, InTurnFacts DEF MailTypeOK, PhaseInv
    <2>7. \A l : /\ Good(at, l)' <=> Good(at, l) \/ (succeeded /\ l = k)
                 /\ Bad(at, l)' <=> Bad(at, l) \/ (~ succeeded /\ l = k)
      BY <2>2, <2>3, <2>4, <2>6, RanEffect DEF Good, Bad
    <2>8. \A l \in Positions(at) :
            /\ Good(at, l) <=> \/ ~ Parallel(at, l) /\ l <= turn
                               \/ Parallel(at, l) /\ l \notin running \cup broken
            /\ Bad(at, l) <=> l \in broken
      BY <2>3 DEF TurnInv
    <2>9. \A l \in Positions(at) :
            /\ Good(at, l)' <=> \/ ~ Parallel(at, l) /\ l <= turn
                                \/ Parallel(at, l) /\ l \notin running' \cup broken'
            /\ Bad(at, l)' <=> l \in broken'
      <3>1. CASE succeeded
        BY <2>1, <2>3, <2>4, <2>7, <2>8, <3>1
      <3>2. CASE ~ succeeded
        BY <2>1, <2>3, <2>4, <2>7, <2>8, <3>2
      <3> QED
        BY <3>1, <3>2
    <2> QED
      BY <2>3, <2>4, <2>5, <2>9 DEF TurnInv
  <1>7. CASE UNCHANGED mailVars
    <2>1. UNCHANGED <<mpc, mails, at, turn, running, broken, ran>>
      BY <1>7 DEF mailVars, progress, errors
    <2> QED
      BY <2>1 DEF TurnInv, InTurn, Positions, HandlersAt, Parallel, Good, Bad
  <1> QED
    BY <1>1, <1>2, <1>3, <1>4, <1>5, <1>6, <1>7 DEF MailAction, MailStep
LEMMA RanAppend ==
  ASSUME MailTypeOK, PhaseInv, RanInv, InTurn, NEW k \in Positions(at), NEW b \in BOOLEAN,
         ran' = Append(ran, <<at, k, b>>), mails' = mails, at' = at,
         \A e \in Positions(at) : ~ Parallel(at, e) /\ (e < k \/ Parallel(at, k)) => Good(at, e)
  PROVE  RanInv'
  <1> DEFINE n == Len(ran)
  <1>1. /\ n \in Nat
        /\ DOMAIN ran = 1..n
        /\ DOMAIN ran' = 1..(n + 1)
        /\ \A j \in 1..n : ran'[j] = ran[j]
        /\ ran'[n + 1] = <<at, k, b>>
    <2> DEFINE U == (1..Len(mails)) \X Nat \X BOOLEAN
    <2>1. ran \in Seq(U)
      BY DEF MailTypeOK
    <2> HIDE DEF U
    <2> QED
      BY <2>1
  <1> HIDE DEF n
  <1>2. \A i : Positions(i)' = Positions(i) /\ \A e : Parallel(i, e)' <=> Parallel(i, e)
    BY SameMails
  <1>3. \A j \in 1..n : ran[j][1] <= at /\ ran[j][2] \in Positions(ran[j][1])
    BY <1>1 DEF RanInv
  <1>4. at \in Nat
    BY InTurnFacts
  <1>5. ASSUME NEW j \in 1..(n + 1)
        PROVE  ran'[j][1] <= at /\ ran'[j][2] \in Positions(ran'[j][1])
    <2>1. CASE j \in 1..n
      BY <1>1, <1>3, <2>1
    <2>2. CASE j = n + 1
      BY <1>1, <1>4, <2>2
    <2> QED
      BY <1>1, <2>1, <2>2
  <1>6. ASSUME NEW j \in 1..(n + 1)
        PROVE  /\ \A l \in 1..(j - 1) : ran'[l][1] <= ran'[j][1]
               /\ \A e \in Positions(ran'[j][1]) :
                    ~ Parallel(ran'[j][1], e) /\ (e < ran'[j][2] \/ Parallel(ran'[j][1], ran'[j][2]))
                      => \E l \in 1..(j - 1) : ran'[l] = <<ran'[j][1], e, TRUE>>
    <2>1. CASE j \in 1..n
      <3>1. /\ \A l \in 1..(j - 1) : ran[l][1] <= ran[j][1]
            /\ \A e \in Positions(ran[j][1]) :
                 ~ Parallel(ran[j][1], e) /\ (e < ran[j][2] \/ Parallel(ran[j][1], ran[j][2]))
                   => \E l \in 1..(j - 1) : ran[l] = <<ran[j][1], e, TRUE>>
        BY <1>1, <2>1 DEF RanInv, HandledInOrder
      <3>2. ran'[j] = ran[j] /\ \A l \in 1..(j - 1) : ran'[l] = ran[l]
        BY <1>1, <2>1
      <3> QED
        BY <3>1, <3>2
    <2>2. CASE j = n + 1
      <3>1. j - 1 = n /\ ran'[j][1] = at /\ ran'[j][2] = k
        BY <1>1, <2>2
      <3>2. \A l \in 1..n : ran'[l] = ran[l]
        BY <1>1
      <3>3. \A e : Good(at, e) => \E l \in 1..n : ran[l] = <<at, e, TRUE>>
        BY <1>1 DEF Good, Ended
      <3> QED
        BY <1>3, <3>1, <3>2, <3>3
    <2>3. j \in 1..n \/ j = n + 1
      BY <1>1
    <2> QED
      BY <2>1, <2>2, <2>3, Zenon
  <1>7. HandledInOrder'
    BY <1>1, <1>2, <1>6 DEF HandledInOrder
  <1> QED
    BY <1>1, <1>2, <1>5, <1>7 DEF RanInv

LEMMA RanStep ==
  ASSUME MailTypeOK, PhaseInv, RanInv, TurnInv, MailAction
  PROVE  RanInv'
  <1>1. CASE \E group \in Seq(Types) : BeginGroup(group)
    BY <1>1 DEF BeginGroup, RanInv, PhaseInv, HandledInOrder
  <1>2. CASE NextMail \/ PutAside \/ StartAsync \/ JoinAsync \/ UNCHANGED mailVars
    <2>1. ran' = ran /\ mails' = mails /\ at \in Nat /\ at' \in Nat /\ at <= at'
      BY <1>2 DEF NextMail, PutAside, NextHandler, StartAsync, JoinAsync, mailVars, progress, errors, MailTypeOK
    <2>2. \A i : Positions(i)' = Positions(i) /\ \A e : Parallel(i, e)' <=> Parallel(i, e)
      BY <2>1, SameMails
    <2>3. HandledInOrder'
      BY <2>1, <2>2 DEF RanInv, HandledInOrder
    <2>4. \A j \in DOMAIN ran : ran[j][1] \in Nat
      BY DEF MailTypeOK
    <2> QED
      BY <2>1, <2>2, <2>3, <2>4 DEF RanInv
  <1>3. ASSUME SyncSucceeds \/ SyncFails PROVE RanInv'
    <2>1. NextHandler /\ ~ Parallel(at, turn')
      BY <1>3 DEF SyncSucceeds, SyncFails
    <2>2. /\ InTurn /\ mails' = mails /\ at' = at /\ turn' = turn + 1
          /\ mpc = "sync" /\ turn + 1 \in Positions(at)
      BY <2>1, NextHandlerFacts
    <2>3. PICK b \in BOOLEAN : ran' = Append(ran, <<at, turn + 1, b>>)
      BY <1>3, <2>2 DEF SyncSucceeds, SyncFails
    <2>4. \A e \in Positions(at) : ~ Parallel(at, e) /\ e < turn + 1 => Good(at, e)
      <3>1. turn \in Nat /\ Positions(at) \subseteq Nat
        BY <2>2, InTurnFacts
      <3>2. \A e \in Positions(at) : e < turn + 1 => e <= turn
        BY <3>1
      <3> QED
        BY <2>2, <3>2 DEF TurnInv
    <2> QED
      BY <2>1, <2>2, <2>3, <2>4, RanAppend
  <1>4. CASE \E k \in running : \E succeeded \in BOOLEAN : EndAsync(k, succeeded)
    <2>1. PICK k \in running : \E succeeded \in BOOLEAN : EndAsync(k, succeeded)
      BY <1>4
    <2>2. PICK succeeded \in BOOLEAN : EndAsync(k, succeeded)
      BY <2>1
    <2>3. InTurn /\ mpc = "async" /\ turn = Len(HandlersAt(at))
      BY <2>1 DEF PhaseInv, InTurn
    <2>4. mails' = mails /\ at' = at /\ ran' = Append(ran, <<at, k, succeeded>>)
      BY <2>2 DEF EndAsync
    <2>5. k \in Positions(at)
      BY <2>1, <2>3, InTurnFacts DEF MailTypeOK
    <2>6. \A e \in Positions(at) : ~ Parallel(at, e) => Good(at, e)
      <3>1. \A e \in Positions(at) : e <= turn
        BY <2>3, InTurnFacts
      <3> QED
        BY <2>3, <3>1 DEF TurnInv
    <2> QED
      BY <2>2, <2>3, <2>4, <2>5, <2>6, RanAppend
  <1>5. CASE EndGroup
    BY <1>5 DEF EndGroup, RanInv, HandledInOrder
  <1> QED
    BY <1>1, <1>2, <1>3, <1>4, <1>5 DEF MailAction, MailStep
-----------------------------------------------------------------------------
LEMMA ErrStep ==
  ASSUME MailTypeOK, PhaseInv, RanInv, TurnInv, ErrInv, MailAction
  PROVE  ErrInv'
  <1>0. at \in Nat /\ Len(mails) \in Nat
    BY DEF MailTypeOK
  <1>1. CASE \E group \in Seq(Types) : BeginGroup(group)
    <2>1. PICK group \in Seq(Types) : BeginGroup(group)
      BY <1>1
    <2>2. errOf' = 0 /\ at' = 0
      BY <2>1 DEF BeginGroup, PhaseInv, errors
    <2> QED
      BY <2>2 DEF ErrInv, Past
  <1>2. ASSUME NextMail, NEW i \in 1..Len(mails)
        PROVE  i \in Past' <=> i \in Past \/ (i = at + 1 /\ mpc' = "mail")
    BY <1>0, <1>2 DEF NextMail, Past, InTurn
  <1>3. ASSUME NextMail PROVE ErrInv'
    <2>1. mails' = mails /\ ran' = ran /\ at + 1 \in 1..Len(mails)
      BY <1>0, <1>3 DEF NextMail
    <2>2. \A i : AllGood(i)' <=> AllGood(i)
      BY <2>1, SameMails, RanKept DEF AllGood
    <2>3. Past \subseteq 1..Len(mails) /\ Past' \subseteq 1..Len(mails)
      BY <2>1 DEF Past
    <2>4. CASE HandlersAt(at + 1) # <<>> /\ mpc' = "sync" /\ UNCHANGED errOf
      BY <1>2, <1>3, <2>2, <2>3, <2>4 DEF ErrInv
    <2>5. CASE HandlersAt(at + 1) = <<>> /\ errOf' = at + 1 /\ UNCHANGED mpc
      <3>1. at + 1 \in Past' /\ ~ AllGood(at + 1)
        BY <1>2, <1>3, <2>1, <2>5 DEF NextMail, AllGood
      <3> QED
        BY <1>0, <2>2, <2>5, <3>1 DEF ErrInv
    <2> QED
      BY <1>3, <2>4, <2>5 DEF NextMail
  <1>4. CASE PutAside \/ SyncSucceeds
    <2>1. NextHandler /\ errOf' = errOf /\ mpc' = "sync"
      BY <1>4 DEF PutAside, SyncSucceeds, NextHandler
    <2>2. InTurn /\ InTurn' /\ mails' = mails /\ at' = at /\ turn' \in Positions(at)
      BY <2>1, NextHandlerFacts DEF InTurn
    <2>3. Past' = Past /\ \A i \in Past : i # at
      BY <1>0, <2>2 DEF Past
    <2>4. \A i, k : i # at => (Good(i, k)' <=> Good(i, k))
      <3>1. CASE PutAside
        BY <3>1, RanKept DEF PutAside
      <3>2. CASE SyncSucceeds
        <4>1. turn + 1 \in Positions(at) /\ ran' = Append(ran, <<at, turn + 1, TRUE>>)
          BY <2>1, <2>2, <3>2, NextHandlerFacts DEF SyncSucceeds
        <4>2. \A i, k : Ended(ran', i, k, TRUE) <=> Ended(ran, i, k, TRUE) \/ (i = at /\ k = turn + 1)
          BY <2>2, <4>1, RanEffect DEF Good, Bad
        <4> QED
          BY <4>2 DEF Good
      <3> QED
        BY <1>4, <3>1, <3>2
    <2>5. \A i \in Past : AllGood(i)' <=> AllGood(i)
      BY <2>2, <2>3, <2>4, SameMails DEF AllGood
    <2> QED
      BY <2>1, <2>3, <2>5 DEF ErrInv
  <1>5. CASE SyncFails
    <2>1. NextHandler /\ errOf' = at /\ mpc' = "mail" /\ ~ Parallel(at, turn')
      BY <1>5 DEF SyncFails
    <2>2. /\ InTurn /\ ~ InTurn' /\ mails' = mails /\ at' = at /\ mpc = "sync"
          /\ turn' = turn + 1 /\ turn + 1 \in Positions(at)
      BY <2>1, NextHandlerFacts DEF InTurn
    <2>3. ran' = Append(ran, <<at, turn + 1, FALSE>>) /\ turn \in Nat /\ at \in 1..Len(mails)
      BY <1>5, <2>2, InTurnFacts DEF SyncFails
    <2>4. ~ Good(at, turn + 1)
      BY <2>1, <2>2, <2>3 DEF TurnInv
    <2>5. ~ Ended(ran', at, turn + 1, TRUE)
      <3>1. \A i2, k2 : Ended(ran', i2, k2, TRUE) <=> Ended(ran, i2, k2, TRUE)
        BY <2>2, <2>3, RanEffect DEF Good, Bad
      <3> QED
        BY <2>4, <3>1 DEF Good
    <2>6. turn + 1 \in Positions(at)'
      BY <2>2, SameMails
    <2>7. at \in Past' /\ ~ (AllGood(at)')
      BY <2>2, <2>3, <2>5, <2>6 DEF Past, AllGood, Good
    <2> QED
      BY <1>0, <2>1, <2>2, <2>3, <2>7 DEF ErrInv
  <1>6. CASE StartAsync
    <2>1. /\ InTurn /\ mails' = mails /\ at' = at /\ errOf' = errOf /\ ran' = ran
          /\ mpc = "sync" /\ turn = Len(HandlersAt(at))
          /\ running' = {k \in Positions(at) : Parallel(at, k)}
          /\ mpc' = IF running' = {} THEN "mail" ELSE "async"
      BY <1>6 DEF StartAsync, InTurn, errors
    <2>2. \A i : AllGood(i)' <=> AllGood(i)
      BY <2>1, SameMails, RanKept DEF AllGood
    <2>3. CASE running' = {}
      <3>1. Past' = Past \cup {at}
        BY <1>0, <2>1, <2>3, InTurnFacts DEF Past, InTurn
      <3>2. \A k \in Positions(at) : ~ Parallel(at, k) /\ k <= turn
        BY <2>1, <2>3, InTurnFacts
      <3>3. AllGood(at)
        BY <2>1, <3>2, InTurnFacts DEF AllGood, TurnInv
      <3> QED
        BY <2>1, <2>2, <3>1, <3>3 DEF ErrInv
    <2>4. CASE running' # {}
      <3>1. Past' = Past
        BY <2>1, <2>4 DEF Past, InTurn
      <3> QED
        BY <2>1, <2>2, <3>1 DEF ErrInv
    <2> QED
      BY <2>3, <2>4
  <1>7. CASE JoinAsync
    <2>1. /\ InTurn /\ mails' = mails /\ at' = at /\ ran' = ran /\ running = {}
          /\ mpc = "async" /\ mpc' = "mail" /\ errOf' = IF broken # {} THEN at ELSE errOf
          /\ turn = Len(HandlersAt(at))
      BY <1>7 DEF JoinAsync, InTurn, PhaseInv
    <2>2. \A i : AllGood(i)' <=> AllGood(i)
      BY <2>1, SameMails, RanKept DEF AllGood
    <2>3. Past' = Past \cup {at}
      BY <1>0, <2>1, InTurnFacts DEF Past, InTurn
    <2>4. \A k \in Positions(at) : k <= turn
      BY <2>1, InTurnFacts
    <2>5. CASE broken = {}
      <3>1. AllGood(at)
        BY <2>1, <2>4, <2>5, InTurnFacts DEF AllGood, TurnInv
      <3> QED
        BY <2>1, <2>2, <2>3, <2>5, <3>1 DEF ErrInv
    <2>6. CASE broken # {}
      <3>1. PICK k \in broken : TRUE
        BY <2>6
      <3>2. k \in Positions(at) /\ Parallel(at, k)
        BY <2>1, <3>1, InTurnFacts DEF PhaseInv, MailTypeOK
      <3>3. ~ AllGood(at)
        BY <2>1, <3>1, <3>2 DEF AllGood, TurnInv
      <3>4. at # 0
        BY <2>1, InTurnFacts
      <3> QED
        BY <2>1, <2>2, <2>3, <2>6, <3>3, <3>4 DEF ErrInv
    <2> QED
      BY <2>5, <2>6
  <1>8. CASE \E k \in running : \E succeeded \in BOOLEAN : EndAsync(k, succeeded)
    <2>1. PICK k \in running : \E succeeded \in BOOLEAN : EndAsync(k, succeeded)
      BY <1>8
    <2>2. PICK succeeded \in BOOLEAN : EndAsync(k, succeeded)
      BY <2>1
    <2>3. InTurn /\ mpc = "async" /\ turn = Len(HandlersAt(at))
      BY <2>1 DEF PhaseInv, InTurn
    <2>4. /\ mails' = mails /\ at' = at /\ mpc' = mpc /\ errOf' = errOf
          /\ ran' = Append(ran, <<at, k, succeeded>>)
      BY <2>2 DEF EndAsync
    <2>5. k \in Positions(at)
      BY <2>1, <2>3, InTurnFacts DEF MailTypeOK
    <2>6. Past' = Past /\ \A i \in Past : i # at
      BY <1>0, <2>3, <2>4 DEF Past, InTurn
    <2>7. \A i, l : i # at => (Good(i, l)' <=> Good(i, l))
      BY <2>2, <2>3, <2>4, <2>5, RanEffect
    <2>8. \A i \in Past : AllGood(i)' <=> AllGood(i)
      BY <2>4, <2>6, <2>7, SameMails DEF AllGood
    <2> QED
      BY <2>4, <2>6, <2>8 DEF ErrInv
  <1>9. CASE EndGroup
    <2>1. errOf' = 0 /\ at' = 0
      BY <1>9 DEF EndGroup
    <2> QED
      BY <2>1 DEF ErrInv, Past
  <1>10. CASE UNCHANGED mailVars
    <2>1. UNCHANGED <<mpc, mails, at, errOf, ran>>
      BY <1>10 DEF mailVars, progress, errors
    <2>2. Past' = Past /\ \A i : AllGood(i)' <=> AllGood(i)
      BY <2>1, SameMails, RanKept DEF AllGood, Past, InTurn
    <2> QED
      BY <2>1, <2>2 DEF ErrInv
  <1> QED
    BY <1>1, <1>3, <1>4, <1>5, <1>6, <1>7, <1>8, <1>9, <1>10 DEF MailAction, MailStep
-----------------------------------------------------------------------------
\* What failedHandlers names for the mail in hand is not there before it is over.
LEMMA FailedEarlier ==
  ASSUME MailTypeOK, PhaseInv, RanInv, TurnInv, FailedInv
  PROVE  \A j \in 1..Len(failed) : /\ failed[j][1] <= at
                                   /\ failed[j][1] \in Nat
                                   /\ failed[j][2] \in Nat
                                   /\ InTurn => failed[j][1] < at
  <1> TAKE j \in 1..Len(failed)
  <1>1. DOMAIN failed = 1..Len(failed) /\ failed[j] \in (1..Len(mails)) \X Nat /\ at \in Nat
    BY DEF MailTypeOK
  <1>2. PICK i \in 1..Len(mails) : \E k \in Nat : failed[j] = <<i, k>>
    BY <1>1
  <1>3. PICK k \in Nat : failed[j] = <<i, k>>
    BY <1>2
  <1>4. failed[j][1] = i /\ failed[j][2] = k
    BY <1>3
  <1>5. k \in Positions(i) /\ Names(failed, i, k)
    BY <1>1, <1>3, <1>4 DEF FailedInv, Names
  <1>6. Bad(i, k) /\ ~ (i = at /\ k \in broken)
    BY <1>2, <1>5 DEF FailedInv
  <1>7. i <= at
    BY <1>6, EndedSoFar
  <1>8. InTurn => i # at
    BY <1>5, <1>6 DEF TurnInv
  <1> QED
    BY <1>1, <1>4, <1>7, <1>8

LEMMA FailedStep ==
  ASSUME MailTypeOK, PhaseInv, RanInv, TurnInv, FailedInv, MailAction
  PROVE  FailedInv'
  <1>0. /\ at \in Nat /\ Len(mails) \in Nat /\ Len(failed) \in Nat
        /\ DOMAIN failed = 1..Len(failed) /\ failed \in Seq((1..Len(mails)) \X Nat)
    BY DEF MailTypeOK
  <1>1. ASSUME mails' = mails, failed' = failed,
               \A i \in 1..Len(mails) : \A k \in Positions(i) :
                 Bad(i, k)' /\ ~ (i = at' /\ k \in broken') <=> Bad(i, k) /\ ~ (i = at /\ k \in broken)
        PROVE  FailedInv'
    <2>1. \A i : Positions(i)' = Positions(i)
      BY <1>1, SameMails
    <2> QED
      BY <1>1, <2>1 DEF FailedInv
  <1>2. CASE (\E group \in Seq(Types) : BeginGroup(group)) \/ EndGroup
    <2>1. failed' = <<>> /\ ran' = <<>>
      BY <1>2 DEF BeginGroup, EndGroup, PhaseInv, errors
    <2> QED
      BY <2>1 DEF FailedInv, Names, Bad, Ended
  <1>3. CASE NextMail \/ PutAside \/ StartAsync \/ UNCHANGED mailVars
    <2>1. mails' = mails /\ failed' = failed /\ ran' = ran /\ broken' = broken
      BY <1>3 DEF NextMail, PutAside, NextHandler, StartAsync, mailVars, progress, errors
    <2>2. at' = at \/ broken = {}
      BY <1>3 DEF NextMail, PutAside, NextHandler, StartAsync, mailVars, progress, PhaseInv
    <2> QED
      BY <1>1, <2>1, <2>2 DEF Bad
  <1>4. CASE SyncSucceeds
    <2>1. NextHandler /\ failed' = failed /\ ran' = Append(ran, <<at, turn', TRUE>>)
      BY <1>4 DEF SyncSucceeds
    <2>2. /\ InTurn /\ mails' = mails /\ broken = {} /\ broken' = {}
          /\ turn' = turn + 1 /\ turn + 1 \in Positions(at)
      BY <2>1, NextHandlerFacts
    <2>3. \A i, k : Ended(ran', i, k, FALSE) <=> Ended(ran, i, k, FALSE)
      BY <2>1, <2>2, RanEffect DEF Good, Bad
    <2> QED
      BY <1>1, <2>1, <2>2, <2>3 DEF Bad
  <1>5. CASE SyncFails
    <2>1. NextHandler /\ failed' = Append(failed, <<at, turn'>>) /\ ran' = Append(ran, <<at, turn', FALSE>>)
      BY <1>5 DEF SyncFails
    <2>2. /\ InTurn /\ mails' = mails /\ broken = {} /\ broken' = {}
          /\ turn' = turn + 1 /\ turn + 1 \in Positions(at) /\ turn + 1 \in Nat
      BY <2>1, NextHandlerFacts, InTurnFacts
    <2>3. \A i : Positions(i)' = Positions(i)
      BY <2>2, SameMails
    <2>4. \A i, k : Ended(ran', i, k, FALSE) <=> Ended(ran, i, k, FALSE) \/ (i = at /\ k = turn + 1)
      BY <2>1, <2>2, RanEffect DEF Good, Bad
    <2>5. \A i, k : Names(failed', i, k) <=> Names(failed, i, k) \/ (i = at /\ k = turn + 1)
      <3>1. at \in 1..Len(mails)
        BY <2>2, InTurnFacts
      <3>2. <<at, turn + 1>> \in (1..Len(mails)) \X Nat
        BY <2>2, <3>1
      <3> QED
        BY <1>0, <2>1, <2>2, <3>2, NamesAppend
    <2>6. /\ Len(failed') = Len(failed) + 1
          /\ DOMAIN failed' = 1..(Len(failed) + 1)
          /\ \A j \in 1..Len(failed) : failed'[j] = failed[j]
          /\ failed'[Len(failed) + 1] = <<at, turn + 1>>
      BY <1>0, <2>1, <2>2
    <2>7. \A i \in 1..Len(mails) : \A k \in Positions(i) : Names(failed', i, k) <=> Ended(ran', i, k, FALSE)
      <3>1. \A i \in 1..Len(mails) : \A k \in Positions(i) : Names(failed, i, k) <=> Ended(ran, i, k, FALSE)
        BY <2>2 DEF FailedInv, Bad
      <3> TAKE i \in 1..Len(mails)
      <3> TAKE k \in Positions(i)
      <3>2. Names(failed, i, k) <=> Ended(ran, i, k, FALSE)
        BY <3>1
      <3> QED
        BY <2>4, <2>5, <3>2
    <2>8. ASSUME NEW j \in 1..(Len(failed) + 1)
          PROVE  failed'[j][2] \in Positions(failed'[j][1])
      <3>1. CASE j \in 1..Len(failed)
        BY <1>0, <2>6, <3>1 DEF FailedInv
      <3>2. CASE j = Len(failed) + 1
        BY <2>2, <2>6, <3>2
      <3> QED
        BY <1>0, <3>1, <3>2
    <2>9. ASSUME NEW j \in 1..(Len(failed) + 1), NEW l \in 1..(Len(failed) + 1), j < l
          PROVE  Before(failed'[j], failed'[l])
      <3>1. j \in 1..Len(failed)
        BY <1>0, <2>9
      <3>2. CASE l \in 1..Len(failed)
        BY <1>0, <2>6, <2>9, <3>1, <3>2 DEF FailedInv
      <3>3. CASE l = Len(failed) + 1
        <4>1. failed'[j][1] < at /\ failed'[l][1] = at
          BY <2>2, <2>6, <3>1, <3>3, FailedEarlier
        <4> QED
          BY <4>1 DEF Before
      <3>4. l \in 1..Len(failed) \/ l = Len(failed) + 1
        BY <1>0
      <3> QED
        BY <3>2, <3>3, <3>4
    <2> QED
      BY <2>2, <2>3, <2>6, <2>7, <2>8, <2>9 DEF FailedInv, Bad
  <1>6. CASE JoinAsync
    <2>1. /\ InTurn /\ mpc = "async" /\ mails' = mails /\ at' = at /\ ran' = ran /\ running = {}
          /\ NameBroken /\ broken' = {}
      BY <1>6 DEF JoinAsync, InTurn
    <2>2. \A i : Positions(i)' = Positions(i)
      BY <2>1, SameMails
    <2>3. \A k \in broken : k \in Positions(at) /\ k \in Nat /\ Bad(at, k)
      <3>1. turn = Len(HandlersAt(at)) /\ broken \subseteq 1..turn
        BY <2>1 DEF PhaseInv, MailTypeOK
      <3>2. \A k \in broken : k \in Positions(at) /\ k \in Nat
        BY <2>1, <3>1, InTurnFacts
      <3> QED
        BY <2>1, <3>2 DEF TurnInv
    <2>4. \A i \in 1..Len(mails) : \A k \in Positions(i) : Names(failed', i, k) <=> Bad(i, k)
      BY <2>1, <2>3, NameBrokenFacts DEF FailedInv
    <2>5. Len(failed') \in Nat /\ DOMAIN failed' = 1..Len(failed')
      BY <2>1, NameBrokenFacts
    <2>6. ASSUME NEW j \in 1..Len(failed')
          PROVE  failed'[j][2] \in Positions(failed'[j][1])
      <3>1. CASE j <= Len(failed)
        <4>1. j \in 1..Len(failed)
          BY <1>0, <3>1
        <4> QED
          BY <1>0, <2>1, <4>1, NameBrokenFacts DEF FailedInv
      <3>2. CASE j > Len(failed)
        BY <2>1, <2>3, <3>2, NameBrokenFacts
      <3> QED
        BY <1>0, <2>5, <3>1, <3>2
    <2>7. ASSUME NEW j \in 1..Len(failed'), NEW l \in 1..Len(failed'), j < l
          PROVE  Before(failed'[j], failed'[l])
      <3>1. CASE l <= Len(failed)
        <4>1. j \in 1..Len(failed) /\ l \in 1..Len(failed)
          BY <1>0, <2>5, <2>7, <3>1
        <4>2. failed'[j] = failed[j] /\ failed'[l] = failed[l]
          BY <2>1, <4>1, NameBrokenFacts
        <4> QED
          BY <1>0, <2>7, <4>1, <4>2 DEF FailedInv
      <3>2. CASE l > Len(failed) /\ j <= Len(failed)
        <4>1. j \in 1..Len(failed)
          BY <1>0, <3>2
        <4>2. failed'[j][1] < at /\ failed'[l][1] = at
          BY <2>1, <3>2, <4>1, NameBrokenFacts, FailedEarlier
        <4> QED
          BY <4>2 DEF Before
      <3>3. CASE j > Len(failed)
        <4>1. l > Len(failed)
          BY <1>0, <2>5, <2>7, <3>3
        <4>2. failed'[j][1] = at /\ failed'[l][1] = at /\ failed'[j][2] < failed'[l][2]
          BY <2>1, <2>7, <3>3, <4>1, NameBrokenFacts
        <4> QED
          BY <4>2 DEF Before
      <3> QED
        BY <1>0, <2>5, <3>1, <3>2, <3>3
    <2> QED
      BY <2>1, <2>2, <2>4, <2>5, <2>6, <2>7 DEF FailedInv, Bad
  <1>7. CASE \E k \in running : \E succeeded \in BOOLEAN : EndAsync(k, succeeded)
    <2>1. PICK k \in running : \E succeeded \in BOOLEAN : EndAsync(k, succeeded)
      BY <1>7
    <2>2. PICK succeeded \in BOOLEAN : EndAsync(k, succeeded)
      BY <2>1
    <2>3. InTurn /\ mpc = "async" /\ turn = Len(HandlersAt(at)) /\ k \notin broken
      BY <2>1 DEF PhaseInv, InTurn
    <2>4. /\ mails' = mails /\ at' = at /\ failed' = failed
          /\ broken' = IF succeeded THEN broken ELSE broken \cup {k}
          /\ ran' = Append(ran, <<at, k, succeeded>>)
      BY <2>2 DEF EndAsync
    <2>5. k \in Positions(at)
      BY <2>1, <2>3, InTurnFacts DEF MailTypeOK
    <2>6. \A i, l : Ended(ran', i, l, FALSE) <=> Ended(ran, i, l, FALSE) \/ (~ succeeded /\ i = at /\ l = k)
      BY <2>2, <2>3, <2>4, <2>5, RanEffect DEF Good, Bad
    <2>7. ~ Bad(at, k)
      BY <2>3, <2>5 DEF TurnInv
    <2>8. \A i \in 1..Len(mails) : \A l \in Positions(i) :
            Ended(ran', i, l, FALSE) /\ ~ (i = at' /\ l \in broken') <=> Bad(i, l) /\ ~ (i = at /\ l \in broken)
      <3>1. CASE succeeded
        BY <2>4, <2>6, <3>1 DEF Bad
      <3>2. CASE ~ succeeded
        BY <2>4, <2>6, <2>7, <3>2 DEF Bad
      <3> QED
        BY <3>1, <3>2
    <2> QED
      BY <1>1, <2>4, <2>8 DEF Bad
  <1> QED
    BY <1>2, <1>3, <1>4, <1>5, <1>6, <1>7 DEF MailAction, MailStep
-----------------------------------------------------------------------------
LEMMA MailInvInit ==
  ASSUME MailInit
  PROVE  MailInv
  <1>1. MailTypeOK
    BY DEF MailInit, MailTypeOK
  <1>2. PhaseInv /\ TurnInv
    BY DEF MailInit, PhaseInv, TurnInv, InTurn
  <1>3. RanInv
    BY DEF MailInit, RanInv, HandledInOrder
  <1>4. ErrInv
    BY DEF MailInit, ErrInv, Past
  <1>5. FailedInv
    BY DEF MailInit, FailedInv
  <1> QED
    BY <1>1, <1>2, <1>3, <1>4, <1>5 DEF MailInv

LEMMA MailInvStep ==
  ASSUME MailInv, MailAction
  PROVE  MailInv'
  BY MailTypeStep, PhaseStep, TurnStep, RanStep, ErrStep, FailedStep DEF MailInv

LEMMA MailInvHandled ==
  ASSUME MailInv
  PROVE  NilMeansHandled
  <1> SUFFICES ASSUME GroupEnded
               PROVE  errOf = 0 <=> \A i \in DOMAIN mails :
                                      /\ HandlersAt(i) # <<>>
                                      /\ \A k \in Positions(i) : <<i, k, TRUE>> \in ToSet(ran)
    BY DEF NilMeansHandled
  <1>1. DOMAIN mails = 1..Len(mails) /\ Len(mails) \in Nat /\ at = Len(mails) /\ ~ InTurn
    BY DEF MailInv, MailTypeOK, GroupEnded, InTurn
  <1>2. Past = DOMAIN mails
    BY <1>1 DEF Past
  <1>3. \A i, k : Good(i, k) <=> <<i, k, TRUE>> \in ToSet(ran)
    BY DEF Good, Ended, ToSet
  <1> QED
    BY <1>2, <1>3 DEF MailInv, ErrInv, AllGood

LEMMA MailInvNamed ==
  ASSUME MailInv
  PROVE  FailedAreNamed
  <1> SUFFICES ASSUME GroupEnded
               PROVE  /\ ToSet(failed) = {<<run[1], run[2]>> : run \in {run \in ToSet(ran) : ~ run[3]}}
                      /\ \A j, l \in DOMAIN failed : j < l => Before(failed[j], failed[l])
    BY DEF FailedAreNamed, Before
  <1>1. broken = {} /\ MailTypeOK
    BY DEF MailInv, PhaseInv, GroupEnded
  <1>2. \A i \in 1..Len(mails) : \A k \in Positions(i) : Names(failed, i, k) <=> Bad(i, k)
    BY <1>1 DEF MailInv, FailedInv
  <1>3. ASSUME NEW e \in ToSet(failed)
        PROVE  e \in {<<run[1], run[2]>> : run \in {run \in ToSet(ran) : ~ run[3]}}
    <2>1. PICK j \in DOMAIN failed : e = failed[j]
      BY DEF ToSet
    <2>2. e \in (1..Len(mails)) \X Nat
      BY <1>1, <2>1 DEF MailTypeOK
    <2>3. /\ e = <<e[1], e[2]>>
          /\ e[1] \in 1..Len(mails)
          /\ e[2] \in Positions(e[1])
          /\ Names(failed, e[1], e[2])
      BY <2>1, <2>2 DEF MailInv, FailedInv, Names
    <2>4. PICK n \in DOMAIN ran : ran[n] = <<e[1], e[2], FALSE>>
      BY <1>2, <2>3 DEF Bad, Ended
    <2> DEFINE run == <<e[1], e[2], FALSE>>
    <2>5. run \in ToSet(ran) /\ ~ run[3] /\ <<run[1], run[2]>> = e
      BY <2>3, <2>4 DEF ToSet
    <2> HIDE DEF run
    <2> QED
      BY <2>5
  <1>4. ASSUME NEW run \in ToSet(ran), ~ run[3]
        PROVE  <<run[1], run[2]>> \in ToSet(failed)
    <2>1. PICK n \in DOMAIN ran : run = ran[n]
      BY DEF ToSet
    <2>2. run \in (1..Len(mails)) \X Nat \X BOOLEAN
      BY <1>1, <2>1 DEF MailTypeOK
    <2>3. run[1] \in 1..Len(mails) /\ run[2] \in Positions(run[1])
      BY <2>1, <2>2 DEF MailInv, RanInv
    <2>4. run = <<run[1], run[2], FALSE>>
      <3>1. run = <<run[1], run[2], run[3]>> /\ run[3] \in BOOLEAN
        BY <2>2
      <3>2. run[3] = FALSE
        BY <1>4, <3>1
      <3> QED
        BY <3>1, <3>2, Zenon
    <2>5. Bad(run[1], run[2])
      BY <2>1, <2>4 DEF Bad, Ended
    <2> QED
      BY <1>2, <2>3, <2>5 DEF Names, ToSet
  <1> QED
    <2>1. ToSet(failed) = {<<run[1], run[2]>> : run \in {run \in ToSet(ran) : ~ run[3]}}
      BY <1>3, <1>4
    <2> QED
      BY <2>1 DEF MailInv, FailedInv
-----------------------------------------------------------------------------
(* The second half is about the senders.                                   *)

Outcomes == CommandResults \cup EventResults

OwnTypeOK ==
  /\ watch \in [Keys -> Senders \cup {Nobody}]
  /\ box \in [Senders -> [Providers -> Seq(Outcomes)]]
  /\ spc \in [Senders -> SenderPCs]
  /\ cmdOf \in [Senders -> Commands]
  /\ first \in [Senders -> CommandResults \cup {None, "timeout"}]
  /\ second \in [Senders -> Outcomes \cup {None, "timeout"}]
  /\ inbox \in Seq(Senders)
  /\ streams \in Seq(Commands)
  /\ stored \subseteq Commands
  /\ published \in 0..MaxPublished
  /\ IsABag(notes)
  /\ BagToSet(notes) \subseteq Keys \X Outcomes
  /\ happened \subseteq Keys \X Outcomes

\* The stream that the worker handles stays in the queue until it is over.
BusyInv == mpc # "idle" => streams # <<>>

LEMMA BagAdd ==
  ASSUME NEW B, IsABag(B), NEW e
  PROVE  /\ IsABag(B (+) SetToBag({e}))
         /\ BagToSet(B (+) SetToBag({e})) = BagToSet(B) \cup {e}
  BY DEF IsABag, BagToSet, SetToBag, (+)

LEMMA BagRemove ==
  ASSUME NEW B, IsABag(B), NEW e
  PROVE  /\ IsABag(B (-) SetToBag({e}))
         /\ BagToSet(B (-) SetToBag({e})) \subseteq BagToSet(B)
         /\ BagToSet(B) \subseteq BagToSet(B (-) SetToBag({e})) \cup {e}
  BY DEF IsABag, BagToSet, SetToBag, (-)

\* Steps that only the worker of the events' mailbox notices.
Quiet == UNCHANGED <<registry, senders, server, results>>

LEMMA NextCases ==
  ASSUME [Next]_vars
  PROVE  \/ \E s \in Senders :
              \/ WatchCommand(s) \/ WatchEvent(s) \/ Dispatch(s)
              \/ \E r \in CommandResults : TakeCommandResult(s, r) \/ TakeFirst(s, r)
              \/ \E r \in EventResults : TakeSecond(s, r)
              \/ UnwatchEvent(s) \/ TimeOut(s)
              \/ CallFromCommandHandle(s) \/ CallFromEventHandle(s)
         \/ \E r \in CommandResults : HandleCommand(r)
         \/ StreamHandled
         \/ \E note \in BagToSet(notes) : Notify(note)
         \/ \E c \in Commands : Republish(c)
         \/ Quiet
  <1>1. CASE Next
    BY <1>1 DEF Next, SendStep, WaitStep, ServerStep, HandleStream, HandleMail, Quiet
  <1>2. CASE UNCHANGED vars
    BY <1>2 DEF vars, Quiet
  <1> QED
    BY <1>1, <1>2

LEMMA NextIsMailAction ==
  ASSUME OwnTypeOK, [Next]_vars
  PROVE  MailAction
  <1>1. CASE HandleStream
    <2>1. Head(streams) \in Commands
      BY <1>1 DEF HandleStream, OwnTypeOK
    <2>2. StreamOf[Head(streams)] \in Seq(Types)
      BY <2>1, CommandResultAssumption
    <2> QED
      BY <1>1, <2>2 DEF HandleStream, MailAction
  <1>2. CASE HandleMail
    BY <1>2 DEF HandleMail, MailAction
  <1>3. CASE StreamHandled
    BY <1>3 DEF StreamHandled, MailAction
  <1>4. ASSUME NEW s \in Senders, SendStep(s) \/ WaitStep(s) \/ TimeOut(s)
                                    \/ CallFromCommandHandle(s) \/ CallFromEventHandle(s)
        PROVE  UNCHANGED mailVars
    BY <1>4 DEF SendStep, WaitStep, WatchCommand, WatchEvent, Dispatch, TakeCommandResult, TakeFirst, TakeSecond,
                Take, UnwatchEvent, TimeOut, CallFromCommandHandle, CallFromEventHandle
  <1>5. ASSUME (\E r \in CommandResults : HandleCommand(r)) \/ (\E note \in BagToSet(notes) : Notify(note))
                 \/ (\E c \in Commands : Republish(c)) \/ UNCHANGED vars
        PROVE  UNCHANGED mailVars
    BY <1>5 DEF HandleCommand, Notify, Republish, vars
  <1> QED
    BY <1>1, <1>2, <1>3, <1>4, <1>5 DEF Next, ServerStep, MailAction
LEMMA KeyFacts ==
  ASSUME OwnTypeOK, NEW s \in Senders
  PROVE  \A p \in Providers : <<cmdOf[s], p>> \in Keys
  BY DEF OwnTypeOK, Keys

LEMMA NotesOfResult ==
  ASSUME OwnTypeOK, NEW key \in Keys, NEW r \in Outcomes, Note(key, r)
  PROVE  /\ IsABag(notes')
         /\ BagToSet(notes') = BagToSet(notes) \cup {<<key, r>>}
         /\ happened' = happened \cup {<<key, r>>}
         /\ BagToSet(notes') \subseteq Keys \X Outcomes
         /\ happened' \subseteq Keys \X Outcomes
  <1>1. <<key, r>> \in Keys \X Outcomes
    OBVIOUS
  <1>2. IsABag(notes') /\ BagToSet(notes') = BagToSet(notes) \cup {<<key, r>>}
    BY BagAdd DEF OwnTypeOK, Note
  <1>3. happened' = happened \cup {<<key, r>>}
    BY DEF Note
  <1> QED
    BY <1>1, <1>2, <1>3 DEF OwnTypeOK

LEMMA NotesOfNotify ==
  ASSUME OwnTypeOK, NEW note \in BagToSet(notes), Notify(note)
  PROVE  /\ note \in Keys \X Outcomes
         /\ note[1] \in Keys /\ note[2] \in Outcomes
         /\ note[1][1] \in Commands /\ note[1][2] \in Providers
         /\ note[1] = <<note[1][1], note[1][2]>>
         /\ note = <<note[1], note[2]>>
         /\ IsABag(notes')
         /\ BagToSet(notes') \subseteq BagToSet(notes)
         /\ BagToSet(notes) \subseteq BagToSet(notes') \cup {note}
         /\ happened' = happened
  <1>1. note \in Keys \X Outcomes
    BY DEF OwnTypeOK
  <1>2. note[1] \in Commands \X Providers /\ note[2] \in Outcomes /\ note = <<note[1], note[2]>>
    BY <1>1 DEF Keys
  <1>3. note[1][1] \in Commands /\ note[1][2] \in Providers /\ note[1] = <<note[1][1], note[1][2]>>
    BY <1>2
  <1>4. notes' = notes (-) SetToBag({note}) /\ happened' = happened
    BY DEF Notify
  <1>5. /\ IsABag(notes')
        /\ BagToSet(notes') \subseteq BagToSet(notes)
        /\ BagToSet(notes) \subseteq BagToSet(notes') \cup {note}
    BY <1>4, BagRemove DEF OwnTypeOK
  <1> QED
    BY <1>1, <1>2, <1>3, <1>4, <1>5 DEF Keys

LEMMA OwnTypeStep ==
  ASSUME OwnTypeOK, BusyInv, [Next]_vars
  PROVE  OwnTypeOK'
  <1>1. ASSUME NEW s \in Senders,
               WatchCommand(s) \/ WatchEvent(s) \/ Dispatch(s)
                 \/ CallFromCommandHandle(s) \/ CallFromEventHandle(s) \/ UnwatchEvent(s)
        PROVE  OwnTypeOK'
    <2>1. UNCHANGED <<box, cmdOf, first, second, streams, stored, published, results>>
      BY <1>1 DEF WatchCommand, WatchEvent, Dispatch, CallFromCommandHandle, CallFromEventHandle, UnwatchEvent,
                  registry, server
    <2>2. watch' \in [Keys -> Senders \cup {Nobody}]
      BY <1>1, KeyFacts DEF OwnTypeOK, WatchCommand, WatchEvent, Dispatch, CallFromCommandHandle,
                  CallFromEventHandle, UnwatchEvent, registry, WatchFor, Unwatch, Providers
    <2>3. spc' \in [Senders -> SenderPCs]
      BY <1>1 DEF OwnTypeOK, WatchCommand, WatchEvent, Dispatch, CallFromCommandHandle,
                  CallFromEventHandle, UnwatchEvent, Goto, SenderPCs
    <2>4. inbox' \in Seq(Senders)
      <3>1. inbox \in Seq(Senders) /\ Append(inbox, s) \in Seq(Senders)
        BY DEF OwnTypeOK
      <3> QED
        BY <1>1, <3>1 DEF WatchCommand, WatchEvent, Dispatch, CallFromCommandHandle,
                  CallFromEventHandle, UnwatchEvent, server
    <2> QED
      BY <2>1, <2>2, <2>3, <2>4 DEF OwnTypeOK, results
  <1>2. ASSUME NEW s \in Senders, NEW p \in Providers, NEW r \in Outcomes, Take(s, p, r),
               first' \in [Senders -> CommandResults \cup {None, "timeout"}],
               second' \in [Senders -> Outcomes \cup {None, "timeout"}],
               spc' \in [Senders -> SenderPCs]
        PROVE  OwnTypeOK'
    <2>1. box[s] \in [Providers -> Seq(Outcomes)] /\ box[s][p] \in Seq(Outcomes) /\ box[s][p] # <<>>
      BY <1>2 DEF OwnTypeOK, Take
    <2>2. Tail(box[s][p]) \in Seq(Outcomes)
      BY <2>1
    <2>3. box' = [box EXCEPT ![s] = [box[s] EXCEPT ![p] = Tail(box[s][p])]]
      BY <1>2, <2>1 DEF Take
    <2>4. box' \in [Senders -> [Providers -> Seq(Outcomes)]]
      BY <2>1, <2>2, <2>3 DEF OwnTypeOK
    <2> QED
      BY <1>2, <2>4 DEF OwnTypeOK, Take, server, results
  <1>3. ASSUME NEW s \in Senders, NEW r \in CommandResults, TakeCommandResult(s, r)
        PROVE  OwnTypeOK'
    <2>1. /\ first' \in [Senders -> CommandResults \cup {None, "timeout"}]
          /\ second' \in [Senders -> Outcomes \cup {None, "timeout"}]
          /\ spc' \in [Senders -> SenderPCs]
      BY <1>3 DEF TakeCommandResult, OwnTypeOK, Goto, SenderPCs
    <2> QED
      BY <1>2, <1>3, <2>1 DEF TakeCommandResult, Outcomes, Providers
  <1>4. ASSUME NEW s \in Senders, NEW r \in CommandResults, TakeFirst(s, r)
        PROVE  OwnTypeOK'
    <2>1. /\ first' \in [Senders -> CommandResults \cup {None, "timeout"}]
          /\ second' \in [Senders -> Outcomes \cup {None, "timeout"}]
          /\ spc' \in [Senders -> SenderPCs]
      BY <1>4 DEF TakeFirst, OwnTypeOK, Goto, SenderPCs, Outcomes
    <2> QED
      BY <1>2, <1>4, <2>1 DEF TakeFirst, Outcomes, Providers
  <1>5. ASSUME NEW s \in Senders, NEW r \in EventResults, TakeSecond(s, r)
        PROVE  OwnTypeOK'
    <2>1. /\ first' \in [Senders -> CommandResults \cup {None, "timeout"}]
          /\ second' \in [Senders -> Outcomes \cup {None, "timeout"}]
          /\ spc' \in [Senders -> SenderPCs]
      BY <1>5 DEF TakeSecond, OwnTypeOK, Goto, SenderPCs, Outcomes
    <2> QED
      BY <1>2, <1>5, <2>1 DEF TakeSecond, Outcomes, Providers
  <1>6. ASSUME NEW s \in Senders, TimeOut(s)
        PROVE  OwnTypeOK'
    <2>1. UNCHANGED <<box, cmdOf, server, results>>
      BY <1>6 DEF TimeOut
    <2>2. watch' \in [Keys -> Senders \cup {Nobody}]
      BY <1>6, KeyFacts DEF TimeOut, OwnTypeOK, Unwatch, Providers
    <2>3. spc' \in [Senders -> SenderPCs]
      BY <1>6 DEF TimeOut, OwnTypeOK, Goto, SenderPCs
    <2>4. /\ first' \in [Senders -> CommandResults \cup {None, "timeout"}]
          /\ second' \in [Senders -> Outcomes \cup {None, "timeout"}]
      BY <1>6 DEF TimeOut, OwnTypeOK
    <2> QED
      BY <2>1, <2>2, <2>3, <2>4 DEF OwnTypeOK, server, results
  <1>7. ASSUME NEW cs \in Seq(Commands), Published(cs)
        PROVE  streams' \in Seq(Commands) /\ published' \in 0..MaxPublished
    BY <1>7, CommandResultAssumption DEF OwnTypeOK, Published
  <1>8. ASSUME NEW r \in CommandResults, HandleCommand(r)
        PROVE  OwnTypeOK'
    <2> DEFINE c == cmdOf[Head(inbox)]
               cs == IF r = "changed" THEN <<c>> ELSE <<>>
    <2>1. /\ Head(inbox) \in Senders /\ Tail(inbox) \in Seq(Senders)
          /\ c \in Commands /\ <<c, "command">> \in Keys /\ r \in Outcomes
      BY <1>8 DEF HandleCommand, OwnTypeOK, Outcomes, Keys, Providers
    <2>2. cs \in Seq(Commands)
      BY <2>1
    <2>3. streams' \in Seq(Commands) /\ published' \in 0..MaxPublished
      BY <1>7, <1>8, <2>2 DEF HandleCommand
    <2>4. Note(<<c, "command">>, r)
      BY <1>8 DEF HandleCommand
    <2>5. inbox' \in Seq(Senders) /\ stored' \subseteq Commands
      BY <1>8, <2>1 DEF HandleCommand, OwnTypeOK
    <2>6. /\ IsABag(notes')
          /\ BagToSet(notes') \subseteq Keys \X Outcomes
          /\ happened' \subseteq Keys \X Outcomes
      BY <2>1, <2>4, NotesOfResult
    <2>7. UNCHANGED <<registry, senders>>
      BY <1>8 DEF HandleCommand
    <2> QED
      BY <2>3, <2>5, <2>6, <2>7 DEF OwnTypeOK, registry, senders
  <1>9. CASE StreamHandled
    <2> DEFINE key == <<Head(streams), "event">>
    <2>1. UNCHANGED <<registry, senders, inbox, stored, published>> /\ streams' = Tail(streams)
      BY <1>9 DEF StreamHandled
    <2>2. streams # <<>>
      BY <1>9 DEF StreamHandled, EndGroup, GroupEnded, BusyInv
    <2>3. Head(streams) \in Commands /\ Tail(streams) \in Seq(Commands)
      BY <2>2 DEF OwnTypeOK
    <2>4. key \in Keys /\ Result \in Outcomes
      BY <2>3 DEF Keys, Providers, Result, Outcomes, EventResults
    <2>5. /\ IsABag(notes')
          /\ BagToSet(notes') \subseteq Keys \X Outcomes
          /\ happened' \subseteq Keys \X Outcomes
      BY <1>9, <2>4, NotesOfResult DEF StreamHandled
    <2> QED
      BY <2>1, <2>3, <2>5 DEF OwnTypeOK, registry, senders
  <1>10. ASSUME NEW note \in BagToSet(notes), Notify(note)
         PROVE  OwnTypeOK'
    <2> DEFINE key == note[1]
               s == watch[key]
    <2>1. /\ key \in Keys /\ note[2] \in Outcomes /\ key[2] \in Providers
          /\ IsABag(notes') /\ BagToSet(notes') \subseteq BagToSet(notes)
      BY <1>10, NotesOfNotify
    <2>2. s \in Senders \cup {Nobody}
      BY <2>1 DEF OwnTypeOK
    <2>3. watch' \in [Keys -> Senders \cup {Nobody}]
      BY <1>10, <2>1 DEF Notify, OwnTypeOK
    <2>4. box' \in [Senders -> [Providers -> Seq(Outcomes)]]
      <3>1. CASE s = Nobody
        BY <1>10, <3>1 DEF Notify, OwnTypeOK
      <3>2. CASE s # Nobody
        <4>1. s \in Senders
          BY <2>2, <3>2
        <4>2. box[s] \in [Providers -> Seq(Outcomes)] /\ Append(box[s][key[2]], note[2]) \in Seq(Outcomes)
          BY <2>1, <4>1 DEF OwnTypeOK
        <4>3. box' = [box EXCEPT ![s] = [box[s] EXCEPT ![key[2]] = Append(box[s][key[2]], note[2])]]
          BY <1>10, <3>2 DEF Notify
        <4> QED
          BY <2>1, <4>1, <4>2, <4>3 DEF OwnTypeOK
      <3> QED
        BY <3>1, <3>2
    <2> QED
      BY <1>10, <2>1, <2>3, <2>4 DEF OwnTypeOK, Notify, senders, server
  <1>11. ASSUME NEW c \in Commands, Republish(c)
         PROVE  OwnTypeOK'
    <2>1. streams' \in Seq(Commands) /\ published' \in 0..MaxPublished
      <3>1. <<c>> \in Seq(Commands) /\ Published(<<c>>)
        BY <1>11 DEF Republish
      <3> QED
        BY <1>7, <3>1
    <2> QED
      BY <1>11, <2>1 DEF OwnTypeOK, Republish, registry, senders, results
  <1>12. CASE Quiet
    BY <1>12 DEF OwnTypeOK, Quiet, registry, senders, server, results
  <1> QED
    BY <1>1, <1>3, <1>4, <1>5, <1>6, <1>8, <1>9, <1>10, <1>11, <1>12, NextCases
LEMMA BusyStep ==
  ASSUME OwnTypeOK, BusyInv, MailInv, [Next]_vars
  PROVE  BusyInv'
  <1>1. ASSUME mpc' = mpc, streams' = streams
        PROVE  BusyInv'
    BY <1>1 DEF BusyInv
  <1>2. ASSUME NEW cs \in Seq(Commands), Published(cs), mpc' = mpc
        PROVE  BusyInv'
    <2>1. streams' = streams \o cs /\ streams \in Seq(Commands)
      BY <1>2 DEF Published, OwnTypeOK
    <2>2. streams # <<>> => streams' # <<>>
      BY <1>2, <2>1
    <2> QED
      BY <1>2, <2>2 DEF BusyInv
  <1>3. CASE HandleStream
    BY <1>3 DEF HandleStream, server, BusyInv
  <1>4. CASE HandleMail
    <2>1. mpc # "idle" /\ streams' = streams
      BY <1>4 DEF HandleMail, MailStep, NextMail, PutAside, SyncSucceeds, SyncFails, NextHandler, StartAsync,
                  JoinAsync, MailInv, PhaseInv, server
    <2> QED
      BY <2>1 DEF BusyInv
  <1>5. CASE StreamHandled
    BY <1>5 DEF StreamHandled, EndGroup, BusyInv
  <1>6. ASSUME NEW s \in Senders, SendStep(s) \/ WaitStep(s) \/ TimeOut(s)
                                    \/ CallFromCommandHandle(s) \/ CallFromEventHandle(s)
        PROVE  mpc' = mpc /\ streams' = streams
    BY <1>6 DEF SendStep, WaitStep, WatchCommand, WatchEvent, Dispatch, TakeCommandResult, TakeFirst, TakeSecond,
                Take, UnwatchEvent, TimeOut, CallFromCommandHandle, CallFromEventHandle, mailVars, progress, server
  <1>7. ASSUME NEW r \in CommandResults, HandleCommand(r)
        PROVE  BusyInv'
    <2> DEFINE c == cmdOf[Head(inbox)]
               cs == IF r = "changed" THEN <<c>> ELSE <<>>
    <2>1. c \in Commands
      BY <1>7 DEF HandleCommand, OwnTypeOK
    <2>2. cs \in Seq(Commands)
      BY <2>1
    <2>3. Published(cs) /\ mpc' = mpc
      BY <1>7 DEF HandleCommand, mailVars, progress
    <2> HIDE DEF cs
    <2> QED
      BY <1>2, <2>2, <2>3
  <1>8. ASSUME NEW c \in Commands, Republish(c)
        PROVE  BusyInv'
    <2>1. <<c>> \in Seq(Commands) /\ Published(<<c>>) /\ mpc' = mpc
      BY <1>8 DEF Republish, mailVars, progress
    <2> QED
      BY <1>2, <2>1
  <1>9. ASSUME (\E note \in BagToSet(notes) : Notify(note)) \/ UNCHANGED vars
        PROVE  mpc' = mpc /\ streams' = streams
    BY <1>9 DEF Notify, vars, mailVars, progress, server
  <1> QED
    BY <1>1, <1>3, <1>4, <1>5, <1>6, <1>7, <1>8, <1>9 DEF Next, ServerStep

-----------------------------------------------------------------------------
Unsent(s) == spc[s] \in {"new", "watchEvent", "dispatch"}

\* The sender has not yet registered its watch for p.
Registering(s, p) == spc[s] = "new" \/ (p = "event" /\ spc[s] = "watchEvent")

WatchInv ==
  /\ \A key \in Keys : watch[key] # Nobody => /\ cmdOf[watch[key]] = key[1]
                                              /\ box[watch[key]][key[2]] = <<>>
                                              /\ ~ Registering(watch[key], key[2])
  /\ \A s \in Senders : \A p \in Providers : Registering(s, p) => box[s][p] = <<>>

\* What is on its way or in a channel has happened.
TrueInv ==
  /\ BagToSet(notes) \subseteq happened
  /\ \A s \in Senders : \A p \in Providers : \A i \in DOMAIN box[s][p] :
       <<<<cmdOf[s], p>>, box[s][p][i]>> \in happened

\* A sender waits for an event stream only if the command has changed something.
StreamWaits ==
  \A s \in Senders :
    spc[s] = "waitSecond" => <<<<cmdOf[s], "command">>, "changed">> \in happened

Sent(c) == \E s \in Senders : cmdOf[s] = c /\ ~ Unsent(s)

\* Nothing becomes of a command before it is sent.
ActiveInv ==
  /\ \A i \in DOMAIN inbox : ~ Unsent(inbox[i])
  /\ \A i \in DOMAIN streams : Sent(streams[i])
  /\ \A c \in stored : Sent(c)
  /\ \A c \in Commands : \A p \in Providers : Happened(<<c, p>>) => Sent(c)

\* The sender has a watch for p whose result it has not taken or given up.
Waiting(s, p) ==
  \/ p = "command" /\ (\/ spc[s] \in {"watchEvent", "dispatch", "sent", "waitCommand"}
                       \/ spc[s] = "waitFirst" /\ first[s] = None)
  \/ p = "event" /\ spc[s] \in {"dispatch", "sent", "waitCommand", "between", "waitFirst", "waitSecond"}

SenderWaits(s) ==
  /\ Unsent(s) \/ spc[s] \in {"sent", "waitCommand"} => first[s] = None
  /\ spc[s] = "between" => first[s] # None
  /\ \A p \in Providers :
       Alone(s) /\ Waiting(s, p) => box[s][p] # <<>> \/ watch[<<cmdOf[s], p>>] = s
  /\ \A p \in Providers :
       Alone(s) /\ watch[<<cmdOf[s], p>>] = s /\ Happened(<<cmdOf[s], p>>) => OnTheWay(<<cmdOf[s], p>>)

WaitInv == \A s \in Senders : SenderWaits(s)

LEMMA Onwards ==
  ASSUME OwnTypeOK, [Next]_vars
  PROVE  /\ cmdOf' = cmdOf
         /\ happened \subseteq happened'
         /\ \A s \in Senders : Unsent(s)' => Unsent(s)
         /\ \A s \in Senders : \A p \in Providers : Registering(s, p)' => Registering(s, p)
  <1>1. ASSUME NEW t \in Senders,
               \/ WatchCommand(t) \/ WatchEvent(t) \/ Dispatch(t)
               \/ \E r \in CommandResults : TakeCommandResult(t, r) \/ TakeFirst(t, r)
               \/ \E r \in EventResults : TakeSecond(t, r)
               \/ UnwatchEvent(t) \/ TimeOut(t)
               \/ CallFromCommandHandle(t) \/ CallFromEventHandle(t)
        PROVE  /\ cmdOf' = cmdOf /\ happened' = happened
               /\ \E label \in SenderPCs \ {"new"} :
                    /\ spc' = [spc EXCEPT ![t] = label]
                    /\ label = "watchEvent" => spc[t] = "new"
                    /\ label = "dispatch" => spc[t] = "watchEvent"
    <2>1. cmdOf' = cmdOf /\ happened' = happened
      BY <1>1 DEF WatchCommand, WatchEvent, Dispatch, TakeCommandResult, TakeFirst, TakeSecond, Take,
                  UnwatchEvent, TimeOut, CallFromCommandHandle, CallFromEventHandle, results
    <2>2. \/ Goto(t, "watchEvent") /\ spc[t] = "new"
          \/ Goto(t, "dispatch") /\ spc[t] = "watchEvent"
          \/ \E label \in SenderPCs \ {"new", "watchEvent", "dispatch"} : Goto(t, label)
      <3>1. CASE WatchCommand(t) \/ WatchEvent(t) \/ Dispatch(t)
        BY <3>1 DEF WatchCommand, WatchEvent, Dispatch, SenderPCs
      <3>2. CASE (\E r \in CommandResults : TakeCommandResult(t, r) \/ TakeFirst(t, r))
                   \/ \E r \in EventResults : TakeSecond(t, r)
        BY <3>2 DEF TakeCommandResult, TakeFirst, TakeSecond, SenderPCs
      <3>3. CASE UnwatchEvent(t) \/ TimeOut(t) \/ CallFromCommandHandle(t) \/ CallFromEventHandle(t)
        BY <3>3 DEF UnwatchEvent, TimeOut, CallFromCommandHandle, CallFromEventHandle, SenderPCs
      <3> QED
        BY <1>1, <3>1, <3>2, <3>3
    <2>3. \E label \in SenderPCs \ {"new"} : /\ Goto(t, label)
                                             /\ label = "watchEvent" => spc[t] = "new"
                                             /\ label = "dispatch" => spc[t] = "watchEvent"
      BY <2>2 DEF SenderPCs
    <2> QED
      BY <2>1, <2>3 DEF Goto
  <1>2. ASSUME NEW t \in Senders, cmdOf' = cmdOf, happened' = happened,
               NEW label \in SenderPCs \ {"new"}, spc' = [spc EXCEPT ![t] = label],
               label = "watchEvent" => spc[t] = "new",
               label = "dispatch" => spc[t] = "watchEvent"
        PROVE  /\ cmdOf' = cmdOf
               /\ happened \subseteq happened'
               /\ \A s \in Senders : Unsent(s)' => Unsent(s)
               /\ \A s \in Senders : \A p \in Providers : Registering(s, p)' => Registering(s, p)
    BY <1>2 DEF OwnTypeOK, Unsent, Registering
  <1>3. ASSUME \/ \E r \in CommandResults : HandleCommand(r)
               \/ StreamHandled
               \/ \E note \in BagToSet(notes) : Notify(note)
               \/ \E c \in Commands : Republish(c)
               \/ Quiet
        PROVE  UNCHANGED senders /\ happened \subseteq happened'
    BY <1>3 DEF HandleCommand, StreamHandled, Notify, Republish, Quiet, Note, results
  <1>4. ASSUME UNCHANGED senders
        PROVE  /\ cmdOf' = cmdOf
               /\ \A s \in Senders : Unsent(s)' => Unsent(s)
               /\ \A s \in Senders : \A p \in Providers : Registering(s, p)' => Registering(s, p)
    BY <1>4 DEF senders, Unsent, Registering
  <1>5. CASE \E t \in Senders :
               \/ WatchCommand(t) \/ WatchEvent(t) \/ Dispatch(t)
               \/ \E r \in CommandResults : TakeCommandResult(t, r) \/ TakeFirst(t, r)
               \/ \E r \in EventResults : TakeSecond(t, r)
               \/ UnwatchEvent(t) \/ TimeOut(t)
               \/ CallFromCommandHandle(t) \/ CallFromEventHandle(t)
    BY <1>1, <1>2, <1>5
  <1>6. CASE \/ \E r \in CommandResults : HandleCommand(r)
             \/ StreamHandled
             \/ \E note \in BagToSet(notes) : Notify(note)
             \/ \E c \in Commands : Republish(c)
             \/ Quiet
    BY <1>3, <1>4, <1>6
  <1> QED
    BY <1>5, <1>6, NextCases

LEMMA WatchStep ==
  ASSUME OwnTypeOK, WatchInv, [Next]_vars
  PROVE  WatchInv'
  <1>1. ASSUME box' = box, \A key \in Keys : watch'[key] \in {watch[key], Nobody}
        PROVE  WatchInv'
    <2>1. \A key \in Keys : watch[key] \in Senders \cup {Nobody} /\ key[2] \in Providers
      BY DEF OwnTypeOK, Keys
    <2> QED
      BY <1>1, <2>1, Onwards DEF WatchInv
  <1>2. ASSUME NEW s \in Senders, NEW p \in Providers, Registering(s, p), ~ Registering(s, p)',
               WatchFor(s, p), box' = box
        PROVE  WatchInv'
    <2>1. \A key \in Keys : /\ watch[key] \in Senders \cup {Nobody} /\ key[2] \in Providers
                            /\ watch'[key] = IF key = <<cmdOf[s], p>> THEN s ELSE watch[key]
      BY <1>2 DEF OwnTypeOK, Keys, WatchFor
    <2>2. ASSUME NEW key \in Keys, watch'[key] # Nobody
          PROVE  /\ cmdOf'[watch'[key]] = key[1]
                 /\ box'[watch'[key]][key[2]] = <<>>
                 /\ ~ (Registering(watch[key], key[2])')
      <3>1. CASE key = <<cmdOf[s], p>>
        BY <1>2, <2>1, <3>1, Onwards DEF WatchInv, Registering
      <3>2. CASE key # <<cmdOf[s], p>>
        BY <1>2, <2>1, <2>2, <3>2, Onwards DEF WatchInv, Registering
      <3> QED
        BY <3>1, <3>2
    <2> QED
      BY <1>2, <2>2, Onwards DEF WatchInv
  <1>3. ASSUME NEW s \in Senders, NEW p \in Providers, NEW r, Take(s, p, r)
        PROVE  WatchInv'
    <2>1. watch' = watch /\ box' = [box EXCEPT ![s][p] = Tail(@)] /\ box[s][p] # <<>>
      BY <1>3 DEF Take
    <2>2. \A t \in Senders : \A q \in Providers : (t # s \/ q # p) => box'[t][q] = box[t][q]
      BY <2>1 DEF OwnTypeOK
    <2>3. \A key \in Keys : watch[key] \in Senders \cup {Nobody} /\ key[2] \in Providers
      BY DEF OwnTypeOK, Keys
    <2> QED
      BY <2>1, <2>2, <2>3, Onwards DEF WatchInv
  <1>4. ASSUME NEW note \in BagToSet(notes), Notify(note)
        PROVE  WatchInv'
    <2> DEFINE key == note[1]
               s == watch[key]
    <2>1. key \in Keys /\ key[2] \in Providers /\ key = <<key[1], key[2]>>
      BY <1>4, NotesOfNotify
    <2>2. s \in Senders \cup {Nobody} /\ watch' = [watch EXCEPT ![key] = Nobody]
      BY <1>4, <2>1 DEF OwnTypeOK, Notify
    <2>3. CASE s = Nobody
      <3>1. box' = box
        BY <1>4, <2>3 DEF Notify
      <3> QED
        BY <1>1, <2>2, <3>1 DEF OwnTypeOK
    <2>4. CASE s # Nobody
      <3>1. s \in Senders /\ cmdOf[s] = key[1] /\ ~ Registering(s, key[2])
        BY <2>1, <2>2, <2>4 DEF WatchInv
      <3>2. box' = [box EXCEPT ![s][key[2]] = Append(@, note[2])]
        BY <1>4, <2>4 DEF Notify
      <3>3. \A t \in Senders : \A q \in Providers : (t # s \/ q # key[2]) => box'[t][q] = box[t][q]
        BY <3>1, <3>2 DEF OwnTypeOK
      <3>4. \A k \in Keys : /\ watch[k] \in Senders \cup {Nobody} /\ k[2] \in Providers
                            /\ k = <<k[1], k[2]>>
                            /\ watch'[k] = IF k = key THEN Nobody ELSE watch[k]
        BY <2>2 DEF OwnTypeOK, Keys
      <3>5. ASSUME NEW k \in Keys, watch'[k] # Nobody
            PROVE  /\ watch'[k] = watch[k]
                   /\ watch[k] # s \/ k[2] # key[2]
        <4>1. k # key /\ watch'[k] = watch[k] /\ cmdOf[watch[k]] = k[1]
          BY <3>4, <3>5 DEF WatchInv
        <4> QED
          BY <2>1, <3>1, <3>4, <4>1
      <3>6. \A k \in Keys : watch'[k] # Nobody => /\ cmdOf'[watch'[k]] = k[1]
                                                  /\ box'[watch'[k]][k[2]] = <<>>
                                                  /\ ~ (Registering(watch[k], k[2])')
        BY <3>3, <3>4, <3>5, Onwards DEF WatchInv, Registering
      <3>7. \A t \in Senders : \A q \in Providers : Registering(t, q)' => box'[t][q] = <<>>
        BY <3>1, <3>3, Onwards DEF WatchInv
      <3> QED
        BY <3>6, <3>7 DEF WatchInv
    <2> QED
      BY <2>3, <2>4
  <1>5. ASSUME NEW s \in Senders, WatchCommand(s) PROVE WatchInv'
    <2>1. Registering(s, "command") /\ ~ Registering(s, "command")' /\ WatchFor(s, "command") /\ box' = box
      BY <1>5 DEF WatchCommand, Registering, Goto, OwnTypeOK
    <2> QED
      BY <1>2, <2>1 DEF Providers
  <1>6. ASSUME NEW s \in Senders, WatchEvent(s) PROVE WatchInv'
    <2>1. Registering(s, "event") /\ ~ Registering(s, "event")' /\ WatchFor(s, "event") /\ box' = box
      BY <1>6 DEF WatchEvent, Registering, Goto, OwnTypeOK
    <2> QED
      BY <1>2, <2>1 DEF Providers
  <1>7. ASSUME NEW s \in Senders, \/ \E r \in CommandResults : TakeCommandResult(s, r) \/ TakeFirst(s, r)
                                  \/ \E r \in EventResults : TakeSecond(s, r)
        PROVE  WatchInv'
    <2>1. \E p \in Providers, r \in Outcomes : Take(s, p, r)
      BY <1>7 DEF TakeCommandResult, TakeFirst, TakeSecond, Providers, Outcomes
    <2> QED
      BY <1>3, <2>1
  <1>8. ASSUME \/ \E s \in Senders : \/ Dispatch(s) \/ UnwatchEvent(s) \/ TimeOut(s)
                                     \/ CallFromCommandHandle(s) \/ CallFromEventHandle(s)
               \/ \E r \in CommandResults : HandleCommand(r)
               \/ StreamHandled
               \/ \E c \in Commands : Republish(c)
               \/ Quiet
        PROVE  box' = box /\ \A key \in Keys : watch'[key] \in {watch[key], Nobody}
    BY <1>8 DEF Dispatch, UnwatchEvent, TimeOut, Unwatch, CallFromCommandHandle, CallFromEventHandle,
                HandleCommand, StreamHandled, Republish, Quiet, registry, OwnTypeOK
  <1> QED
    BY <1>1, <1>4, <1>5, <1>6, <1>7, <1>8, NextCases
-----------------------------------------------------------------------------
LEMMA NoteHappened ==
  ASSUME OwnTypeOK, TrueInv, NEW key \in Keys, NEW r \in Outcomes, Note(key, r),
         UNCHANGED <<registry, senders>>
  PROVE  TrueInv'
  BY NotesOfResult DEF TrueInv, registry, senders

LEMMA TrueStep ==
  ASSUME OwnTypeOK, BusyInv, WatchInv, TrueInv, [Next]_vars
  PROVE  TrueInv'
  <1>1. ASSUME UNCHANGED <<box, cmdOf, results>>
        PROVE  TrueInv'
    BY <1>1 DEF TrueInv, results
  <1>2. ASSUME NEW s \in Senders, NEW p \in Providers, NEW r, Take(s, p, r)
        PROVE  TrueInv'
    <2>1. /\ box[s] \in [Providers -> Seq(Outcomes)] /\ box[s][p] \in Seq(Outcomes) /\ box[s][p] # <<>>
          /\ box' = [box EXCEPT ![s][p] = Tail(@)]
          /\ UNCHANGED <<cmdOf, results>>
      BY <1>2 DEF OwnTypeOK, Take
    <2>2. \A t \in Senders : \A q \in Providers : (t # s \/ q # p) => box'[t][q] = box[t][q]
      BY <2>1 DEF OwnTypeOK
    <2>3. box'[s][p] = Tail(box[s][p])
      BY <2>1 DEF OwnTypeOK
    <2>4. \A i \in DOMAIN Tail(box[s][p]) : i + 1 \in DOMAIN box[s][p] /\ Tail(box[s][p])[i] = box[s][p][i + 1]
      BY <2>1
    <2>5. \A i \in DOMAIN box'[s][p] : <<<<cmdOf[s], p>>, box'[s][p][i]>> \in happened
      BY <2>3, <2>4 DEF TrueInv
    <2>6. ASSUME NEW t \in Senders, NEW q \in Providers, NEW i \in DOMAIN box'[t][q]
          PROVE  <<<<cmdOf[t], q>>, box'[t][q][i]>> \in happened
      <3>1. CASE t = s /\ q = p
        BY <2>5, <3>1
      <3>2. CASE t # s \/ q # p
        BY <2>2, <3>2 DEF TrueInv
      <3> QED
        BY <3>1, <3>2
    <2> QED
      BY <2>1, <2>6 DEF TrueInv, results
  <1>3. ASSUME NEW note \in BagToSet(notes), Notify(note)
        PROVE  TrueInv'
    <2> DEFINE key == note[1]
               s == watch[key]
    <2>1. /\ key \in Keys /\ key[2] \in Providers /\ key = <<key[1], key[2]>>
          /\ note = <<key, note[2]>> /\ note[2] \in Outcomes
          /\ BagToSet(notes') \subseteq BagToSet(notes) /\ happened' = happened /\ cmdOf' = cmdOf
      BY <1>3, NotesOfNotify DEF Notify, senders
    <2>2. s \in Senders \cup {Nobody} /\ note \in happened
      BY <2>1 DEF OwnTypeOK, TrueInv
    <2>3. CASE s = Nobody
      <3>1. box' = box
        BY <1>3, <2>3 DEF Notify
      <3> QED
        BY <2>1, <3>1 DEF TrueInv
    <2>4. CASE s # Nobody
      <3>1. s \in Senders /\ cmdOf[s] = key[1] /\ box[s][key[2]] = <<>>
        BY <2>1, <2>2, <2>4 DEF WatchInv
      <3>2. box' = [box EXCEPT ![s][key[2]] = Append(@, note[2])]
        BY <1>3, <2>4 DEF Notify
      <3>3. \A t \in Senders : \A q \in Providers : (t # s \/ q # key[2]) => box'[t][q] = box[t][q]
        BY <3>1, <3>2 DEF OwnTypeOK
      <3>4. box'[s][key[2]] = <<note[2]>>
        BY <2>1, <3>1, <3>2 DEF OwnTypeOK
      <3>5. <<<<cmdOf[s], key[2]>>, note[2]>> \in happened
        BY <2>1, <2>2, <3>1
      <3>6. \A i \in DOMAIN box'[s][key[2]] : <<<<cmdOf[s], key[2]>>, box'[s][key[2]][i]>> \in happened
        BY <3>4, <3>5
      <3> QED
        BY <2>1, <3>3, <3>6 DEF TrueInv
    <2> QED
      BY <2>3, <2>4
  <1>4. ASSUME NEW r \in CommandResults, HandleCommand(r)
        PROVE  TrueInv'
    <2>1. <<cmdOf[Head(inbox)], "command">> \in Keys /\ r \in Outcomes
      BY <1>4 DEF HandleCommand, OwnTypeOK, Outcomes, Keys, Providers
    <2> QED
      BY <1>4, <2>1, NoteHappened DEF HandleCommand
  <1>5. CASE StreamHandled
    <2>1. streams # <<>>
      BY <1>5 DEF StreamHandled, EndGroup, GroupEnded, BusyInv
    <2>2. <<Head(streams), "event">> \in Keys /\ Result \in Outcomes
      BY <2>1 DEF OwnTypeOK, Keys, Providers, Result, Outcomes, EventResults
    <2> QED
      BY <1>5, <2>2, NoteHappened DEF StreamHandled
  <1>6. ASSUME NEW s \in Senders, \/ \E r \in CommandResults : TakeCommandResult(s, r) \/ TakeFirst(s, r)
                                  \/ \E r \in EventResults : TakeSecond(s, r)
        PROVE  TrueInv'
    <2>1. \E p \in Providers, r \in Outcomes : Take(s, p, r)
      BY <1>6 DEF TakeCommandResult, TakeFirst, TakeSecond, Providers, Outcomes
    <2> QED
      BY <1>2, <2>1
  <1>7. ASSUME \/ \E s \in Senders : \/ WatchCommand(s) \/ WatchEvent(s) \/ Dispatch(s)
                                     \/ UnwatchEvent(s) \/ TimeOut(s)
                                     \/ CallFromCommandHandle(s) \/ CallFromEventHandle(s)
               \/ \E c \in Commands : Republish(c)
               \/ Quiet
        PROVE  UNCHANGED <<box, cmdOf, results>>
    BY <1>7 DEF WatchCommand, WatchEvent, Dispatch, UnwatchEvent, TimeOut, CallFromCommandHandle,
                CallFromEventHandle, Republish, Quiet, registry, senders
  <1> QED
    BY <1>1, <1>3, <1>4, <1>5, <1>6, <1>7, NextCases

\* What a sender takes has happened; happened only grows.
LEMMA ReturnsStep ==
  ASSUME OwnTypeOK, TrueInv, StreamWaits, ReturnsWhatHappened, [Next]_vars
  PROVE  ReturnsWhatHappened'
  <1>1. cmdOf' = cmdOf /\ happened \subseteq happened'
    BY Onwards
  <1>2. ASSUME NEW s \in Senders, NEW p \in Providers, NEW r, Take(s, p, r)
        PROVE  <<<<cmdOf[s], p>>, r>> \in happened
    <2>1. box[s][p] \in Seq(Outcomes) /\ box[s][p] # <<>> /\ r = Head(box[s][p])
      BY <1>2 DEF OwnTypeOK, Take
    <2>2. 1 \in DOMAIN box[s][p] /\ r = box[s][p][1]
      BY <2>1
    <2> QED
      BY <2>2 DEF TrueInv
  <1>3. ASSUME first' = first, second' = second
        PROVE  ReturnsWhatHappened'
    BY <1>1, <1>3 DEF ReturnsWhatHappened
  <1>4. ASSUME NEW s \in Senders, NEW r \in CommandResults, TakeCommandResult(s, r)
        PROVE  ReturnsWhatHappened'
    <2>1. <<<<cmdOf[s], "command">>, r>> \in happened
      BY <1>2, <1>4 DEF TakeCommandResult, Providers
    <2>2. first' = [first EXCEPT ![s] = r] /\ second' = second
      BY <1>4 DEF TakeCommandResult
    <2> QED
      BY <1>1, <2>1, <2>2 DEF ReturnsWhatHappened, OwnTypeOK
  <1>5. ASSUME NEW s \in Senders, NEW r \in CommandResults, TakeFirst(s, r)
        PROVE  ReturnsWhatHappened'
    <2>1. <<<<cmdOf[s], "command">>, r>> \in happened
      BY <1>2, <1>5 DEF TakeFirst, Providers
    <2>2. second' = [second EXCEPT ![s] = IF r = "changed" THEN None ELSE r] /\ first' = first
      BY <1>5 DEF TakeFirst
    <2> QED
      BY <1>1, <2>1, <2>2 DEF ReturnsWhatHappened, OwnTypeOK, CommandResults, EventResults, None
  <1>6. ASSUME NEW s \in Senders, NEW r \in EventResults, TakeSecond(s, r)
        PROVE  ReturnsWhatHappened'
    <2>1. <<<<cmdOf[s], "event">>, r>> \in happened
      BY <1>2, <1>6 DEF TakeSecond, Providers
    <2>2. second' = [second EXCEPT ![s] = r] /\ first' = first
      BY <1>6 DEF TakeSecond
    <2>3. <<<<cmdOf[s], "command">>, "changed">> \in happened
      BY <1>6 DEF TakeSecond, StreamWaits
    <2> QED
      BY <1>1, <2>1, <2>2, <2>3 DEF ReturnsWhatHappened, OwnTypeOK, EventResults
  <1>7. ASSUME NEW s \in Senders, TimeOut(s)
        PROVE  ReturnsWhatHappened'
    <2>1. \A t \in Senders : /\ first'[t] \in {first[t], "timeout"}
                             /\ second'[t] \in {second[t], "timeout"}
      BY <1>7 DEF TimeOut, OwnTypeOK
    <2> QED
      BY <1>1, <2>1 DEF ReturnsWhatHappened, CommandResults, EventResults
  <1>8. ASSUME \/ \E s \in Senders : \/ WatchCommand(s) \/ WatchEvent(s) \/ Dispatch(s) \/ UnwatchEvent(s)
                                     \/ CallFromCommandHandle(s) \/ CallFromEventHandle(s)
               \/ \E r \in CommandResults : HandleCommand(r)
               \/ StreamHandled
               \/ \E note \in BagToSet(notes) : Notify(note)
               \/ \E c \in Commands : Republish(c)
               \/ Quiet
        PROVE  first' = first /\ second' = second
    BY <1>8 DEF WatchCommand, WatchEvent, Dispatch, UnwatchEvent, CallFromCommandHandle, CallFromEventHandle,
                HandleCommand, StreamHandled, Notify, Republish, Quiet, senders
  <1> QED
    BY <1>3, <1>4, <1>5, <1>6, <1>7, <1>8, NextCases

\* A sender starts to wait for an event stream with the result "changed".
LEMMA StreamWaitsStep ==
  ASSUME OwnTypeOK, TrueInv, StreamWaits, [Next]_vars
  PROVE  StreamWaits'
  <1>1. cmdOf' = cmdOf /\ happened \subseteq happened'
    BY Onwards
  <1>2. ASSUME \A s \in Senders : spc'[s] = "waitSecond" => spc[s] = "waitSecond"
        PROVE  StreamWaits'
    BY <1>1, <1>2 DEF StreamWaits
  <1>3. ASSUME NEW s \in Senders, NEW r \in CommandResults, TakeFirst(s, r)
        PROVE  StreamWaits'
    <2>1. box[s]["command"] \in Seq(Outcomes) /\ box[s]["command"] # <<>> /\ r = Head(box[s]["command"])
      BY <1>3 DEF OwnTypeOK, TakeFirst, Take, Providers
    <2>2. 1 \in DOMAIN box[s]["command"] /\ r = box[s]["command"][1]
      BY <2>1
    <2>3. <<<<cmdOf[s], "command">>, r>> \in happened
      BY <2>2 DEF TrueInv, Providers
    <2>4. spc' = [spc EXCEPT ![s] = IF r = "changed" THEN "waitSecond" ELSE "unwatchEvent"]
      BY <1>3 DEF TakeFirst, Goto
    <2> QED
      BY <1>1, <2>3, <2>4 DEF StreamWaits, OwnTypeOK
  <1>4. ASSUME NEW s \in Senders,
               \/ WatchCommand(s) \/ WatchEvent(s) \/ Dispatch(s) \/ UnwatchEvent(s) \/ TimeOut(s)
               \/ CallFromCommandHandle(s) \/ CallFromEventHandle(s)
               \/ \E r \in CommandResults : TakeCommandResult(s, r)
               \/ \E r \in EventResults : TakeSecond(s, r)
        PROVE  \A t \in Senders : spc'[t] = "waitSecond" => spc[t] = "waitSecond"
    <2>1. \E label \in SenderPCs \ {"waitSecond"} : spc' = [spc EXCEPT ![s] = label]
      BY <1>4 DEF WatchCommand, WatchEvent, Dispatch, UnwatchEvent, TimeOut, CallFromCommandHandle,
                  CallFromEventHandle, TakeCommandResult, TakeSecond, Goto, SenderPCs
    <2> QED
      BY <2>1 DEF OwnTypeOK
  <1>5. ASSUME \/ \E r \in CommandResults : HandleCommand(r)
               \/ StreamHandled
               \/ \E note \in BagToSet(notes) : Notify(note)
               \/ \E c \in Commands : Republish(c)
               \/ Quiet
        PROVE  spc' = spc
    BY <1>5 DEF HandleCommand, StreamHandled, Notify, Republish, Quiet, senders
  <1> QED
    BY <1>2, <1>3, <1>4, <1>5, NextCases
-----------------------------------------------------------------------------
LEMMA NoteEffect ==
  ASSUME OwnTypeOK, NEW key \in Keys, NEW r \in Outcomes, Note(key, r)
  PROVE  /\ \A k \in Keys : Happened(k)' => Happened(k) \/ k = key
         /\ \A k \in Keys : OnTheWay(k)' <=> OnTheWay(k) \/ k = key
  <1>1. /\ BagToSet(notes') = BagToSet(notes) \cup {<<key, r>>}
        /\ happened' = happened \cup {<<key, r>>}
    BY NotesOfResult
  <1>2. \A k \in Keys : Happened(k)' => Happened(k) \/ k = key
    BY <1>1 DEF Happened
  <1>3. \A k \in Keys : OnTheWay(k)' <=> OnTheWay(k) \/ k = key
    <2> DEFINE e == <<key, r>>
    <2>1. e[1] = key /\ BagToSet(notes') = BagToSet(notes) \cup {e}
      BY <1>1
    <2> HIDE DEF e
    <2>2. \A k \in Keys : (\E note \in BagToSet(notes') : note[1] = k)
                             <=> (\E note \in BagToSet(notes) : note[1] = k) \/ k = key
      BY <2>1
    <2> QED
      BY <2>2 DEF OnTheWay
  <1> QED
    BY <1>2, <1>3

LEMMA ActiveStep ==
  ASSUME OwnTypeOK, BusyInv, ActiveInv, [Next]_vars
  PROVE  ActiveInv'
  <1>1. \A c : Sent(c) => Sent(c)'
    BY Onwards DEF Sent
  <1>2. /\ DOMAIN inbox = 1..Len(inbox) /\ DOMAIN streams = 1..Len(streams)
        /\ \A i \in DOMAIN inbox : inbox[i] \in Senders
        /\ inbox \in Seq(Senders) /\ streams \in Seq(Commands)
    BY DEF OwnTypeOK
  <1>3. \A s \in Senders : Unsent(s)' => Unsent(s)
    BY Onwards
  <1>4. ASSUME inbox' = inbox PROVE \A i \in DOMAIN inbox' : ~ (Unsent(inbox[i])')
    BY <1>2, <1>3, <1>4 DEF ActiveInv, Unsent
  <1>5. ASSUME streams' = streams PROVE \A i \in DOMAIN streams' : Sent(streams[i])'
    BY <1>1, <1>5 DEF ActiveInv, Sent, Unsent
  <1>6. ASSUME stored' = stored PROVE \A c \in stored' : Sent(c)'
    BY <1>1, <1>6 DEF ActiveInv
  <1>7. ASSUME happened' = happened
        PROVE  \A c \in Commands : \A p \in Providers : Happened(<<c, p>>)' => Sent(c)'
    BY <1>1, <1>7 DEF ActiveInv, Happened
  <1>8. ASSUME NEW cs \in Seq(Commands), Published(cs), \A i \in DOMAIN cs : Sent(cs[i])
        PROVE  \A i \in DOMAIN streams' : Sent(streams[i])'
    <2>1. streams' = streams \o cs
      BY <1>8 DEF Published
    <2>2. ASSUME NEW i \in DOMAIN streams'
          PROVE  \E c \in Commands : streams'[i] = c /\ Sent(c)
      <3>1. /\ Len(streams) \in Nat /\ Len(cs) \in Nat
            /\ DOMAIN cs = 1..Len(cs)
            /\ DOMAIN streams' = 1..(Len(streams) + Len(cs))
            /\ streams'[i] = IF i <= Len(streams) THEN streams[i] ELSE cs[i - Len(streams)]
        BY <1>2, <1>8, <2>1, ConcatProperties
      <3>2. CASE i <= Len(streams)
        <4>1. i \in 1..Len(streams)
          BY <3>1, <3>2
        <4> QED
          BY <1>2, <3>1, <3>2, <4>1 DEF ActiveInv
      <3>3. CASE ~ i <= Len(streams)
        <4>1. i - Len(streams) \in 1..Len(cs)
          BY <3>1, <3>3
        <4> QED
          BY <1>8, <3>1, <3>3, <4>1
      <3> QED
        BY <3>2, <3>3
    <2>3. ASSUME NEW i \in DOMAIN streams'
          PROVE  \E s \in Senders : cmdOf'[s] = streams'[i] /\ ~ (Unsent(s)')
      BY <2>2, <1>3, Onwards DEF Sent
    <2> QED
      BY <2>3 DEF Sent
  <1>9. ASSUME NEW key \in Keys, NEW r \in Outcomes, Note(key, r), Sent(key[1])
        PROVE  \A c \in Commands : \A p \in Providers : Happened(<<c, p>>)' => Sent(c)'
    <2>1. \A c \in Commands : \A p \in Providers : <<c, p>> \in Keys
      BY DEF Keys
    <2> QED
      BY <1>1, <1>9, <2>1, NoteEffect DEF ActiveInv
  <1>10. ASSUME NEW s \in Senders, Dispatch(s)
         PROVE  ActiveInv'
    <2>1. inbox' = Append(inbox, s) /\ UNCHANGED <<streams, stored, happened>>
      BY <1>10 DEF Dispatch, results
    <2>2. ~ (Unsent(s)')
      BY <1>10 DEF Dispatch, Goto, OwnTypeOK, Unsent
    <2>3. \A i \in DOMAIN inbox' : (i \in DOMAIN inbox /\ inbox'[i] = inbox[i]) \/ inbox'[i] = s
      BY <1>2, <2>1
    <2>4. \A i \in DOMAIN inbox' : inbox'[i] \in Senders /\ ~ (Unsent(inbox[i])')
      BY <1>2, <1>3, <2>2, <2>3 DEF ActiveInv, Unsent
    <2> QED
      BY <1>5, <1>6, <1>7, <2>1, <2>4 DEF ActiveInv
  <1>11. ASSUME NEW r \in CommandResults, HandleCommand(r)
         PROVE  ActiveInv'
    <2> DEFINE c == cmdOf[Head(inbox)]
               cs == IF r = "changed" THEN <<c>> ELSE <<>>
    <2>1. /\ inbox # <<>> /\ inbox' = Tail(inbox) /\ Published(cs) /\ Note(<<c, "command">>, r)
          /\ stored' \subseteq stored \cup {c}
      BY <1>11 DEF HandleCommand
    <2>2. Head(inbox) \in Senders /\ 1 \in DOMAIN inbox /\ Head(inbox) = inbox[1]
      BY <1>2, <2>1
    <2>3. c \in Commands /\ Sent(c)
      BY <2>2 DEF OwnTypeOK, ActiveInv, Sent
    <2>4. <<c, "command">> \in Keys /\ r \in Outcomes /\ <<c, "command">>[1] = c
      BY <2>3 DEF Keys, Providers, Outcomes
    <2>5. \A k \in Commands : \A p \in Providers : Happened(<<k, p>>)' => Sent(k)'
      BY <1>9, <2>1, <2>3, <2>4
    <2>6. cs \in Seq(Commands) /\ \A i \in DOMAIN cs : Sent(cs[i])
      BY <2>3
    <2>7. \A i \in DOMAIN streams' : Sent(streams[i])'
      <3> HIDE DEF cs
      <3> QED
        BY <1>8, <2>1, <2>6
    <2>8. \A i \in DOMAIN inbox' : i + 1 \in DOMAIN inbox /\ inbox'[i] = inbox[i + 1]
      BY <1>2, <2>1
    <2>9. \A i \in DOMAIN inbox' : ~ (Unsent(inbox[i])')
      BY <1>2, <1>3, <2>8 DEF ActiveInv, Unsent
    <2>10. \A k \in stored' : Sent(k)'
      BY <1>1, <2>1, <2>3 DEF ActiveInv
    <2> QED
      BY <2>5, <2>7, <2>9, <2>10 DEF ActiveInv
  <1>12. CASE StreamHandled
    <2>1. streams # <<>> /\ streams' = Tail(streams) /\ UNCHANGED <<inbox, stored>>
      BY <1>12 DEF StreamHandled, EndGroup, GroupEnded, BusyInv
    <2>2. Head(streams) \in Commands /\ Sent(Head(streams))
      BY <1>2, <2>1 DEF ActiveInv
    <2>3. <<Head(streams), "event">> \in Keys /\ Result \in Outcomes /\ <<Head(streams), "event">>[1] = Head(streams)
      BY <2>2 DEF Keys, Providers, Result, Outcomes, EventResults
    <2>4. \A k \in Commands : \A p \in Providers : Happened(<<k, p>>)' => Sent(k)'
      BY <1>9, <1>12, <2>2, <2>3 DEF StreamHandled
    <2>5. \A i \in DOMAIN streams' : i + 1 \in DOMAIN streams /\ streams'[i] = streams[i + 1]
      BY <1>2, <2>1
    <2>6. \A i \in DOMAIN streams' : Sent(streams'[i])
      BY <2>5 DEF ActiveInv
    <2>7. \A i \in DOMAIN streams' : Sent(streams[i])'
      <3>1. ASSUME NEW i \in DOMAIN streams'
            PROVE  \E s \in Senders : cmdOf'[s] = streams'[i] /\ ~ (Unsent(s)')
        BY <2>6, <1>3, Onwards DEF Sent
      <3> QED
        BY <3>1 DEF Sent
    <2> QED
      BY <1>4, <1>6, <2>1, <2>4, <2>7 DEF ActiveInv
  <1>13. ASSUME NEW c \in Commands, Republish(c)
         PROVE  ActiveInv'
    <2>1. Published(<<c>>) /\ Sent(c) /\ UNCHANGED <<inbox, stored, happened>>
      BY <1>13 DEF Republish, ActiveInv, results
    <2>2. <<c>> \in Seq(Commands) /\ \A i \in DOMAIN <<c>> : Sent(<<c>>[i])
      BY <2>1
    <2>3. \A i \in DOMAIN streams' : Sent(streams[i])'
      BY <1>8, <2>1, <2>2
    <2> QED
      BY <1>4, <1>6, <1>7, <2>1, <2>3 DEF ActiveInv
  <1>14. ASSUME \/ \E s \in Senders : \/ WatchCommand(s) \/ WatchEvent(s) \/ UnwatchEvent(s) \/ TimeOut(s)
                                      \/ \E r \in CommandResults : TakeCommandResult(s, r) \/ TakeFirst(s, r)
                                      \/ \E r \in EventResults : TakeSecond(s, r)
                                      \/ CallFromCommandHandle(s) \/ CallFromEventHandle(s)
                \/ \E note \in BagToSet(notes) : Notify(note)
                \/ Quiet
         PROVE  UNCHANGED <<inbox, streams, stored, happened>>
    BY <1>14 DEF WatchCommand, WatchEvent, UnwatchEvent, TimeOut, TakeCommandResult, TakeFirst, TakeSecond, Take,
                 CallFromCommandHandle, CallFromEventHandle, Notify, Quiet, server, results
  <1>15. ASSUME UNCHANGED <<inbox, streams, stored, happened>>
         PROVE  ActiveInv'
    BY <1>4, <1>5, <1>6, <1>7, <1>15 DEF ActiveInv
  <1> QED
    BY <1>10, <1>11, <1>12, <1>13, <1>14, <1>15, NextCases
-----------------------------------------------------------------------------
\* A step of another sender.
LEMMA OthersStep ==
  ASSUME OwnTypeOK, NEW t \in Senders, NEW s \in Senders, s # t, SenderWaits(s),
         \/ WatchCommand(t) \/ WatchEvent(t) \/ Dispatch(t)
         \/ \E r \in CommandResults : TakeCommandResult(t, r) \/ TakeFirst(t, r)
         \/ \E r \in EventResults : TakeSecond(t, r)
         \/ UnwatchEvent(t) \/ TimeOut(t)
         \/ CallFromCommandHandle(t) \/ CallFromEventHandle(t)
  PROVE  SenderWaits(s)'
  <1>1. cmdOf' = cmdOf /\ notes' = notes /\ happened' = happened
    BY DEF WatchCommand, WatchEvent, Dispatch, TakeCommandResult, TakeFirst, TakeSecond, Take,
           UnwatchEvent, TimeOut, CallFromCommandHandle, CallFromEventHandle, results
  <1>2. spc'[s] = spc[s]
    BY DEF WatchCommand, WatchEvent, Dispatch, TakeCommandResult, TakeFirst, TakeSecond,
           UnwatchEvent, TimeOut, CallFromCommandHandle, CallFromEventHandle, Goto, OwnTypeOK
  <1>3. first'[s] = first[s]
    BY DEF WatchCommand, WatchEvent, Dispatch, TakeCommandResult, TakeFirst, TakeSecond,
           UnwatchEvent, TimeOut, CallFromCommandHandle, CallFromEventHandle, OwnTypeOK
  <1>4. box'[s] = box[s]
    BY DEF WatchCommand, WatchEvent, Dispatch, TakeCommandResult, TakeFirst, TakeSecond, Take,
           UnwatchEvent, TimeOut, CallFromCommandHandle, CallFromEventHandle, registry, OwnTypeOK
  <1>5. \A key \in Keys : key[1] # cmdOf[t] => watch'[key] = watch[key]
    BY DEF WatchCommand, WatchEvent, Dispatch, TakeCommandResult, TakeFirst, TakeSecond, Take, WatchFor, Unwatch,
           UnwatchEvent, TimeOut, CallFromCommandHandle, CallFromEventHandle, registry, OwnTypeOK
  <1>6. Alone(s) => \A p \in Providers : watch'[<<cmdOf[s], p>>] = watch[<<cmdOf[s], p>>]
    <2>1. \A p \in Providers : <<cmdOf[s], p>> \in Keys /\ <<cmdOf[s], p>>[1] = cmdOf[s]
      BY KeyFacts
    <2>2. Alone(s) => cmdOf[t] # cmdOf[s]
      BY DEF Alone
    <2> QED
      BY <1>5, <2>1, <2>2
  <1> QED
    BY <1>1, <1>2, <1>3, <1>4, <1>6 DEF SenderWaits, Unsent, Waiting, Alone, Happened, OnTheWay

\* Before its command is sent nothing has happened to a sender that is alone with it.
LEMMA UnsentIsQuiet ==
  ASSUME OwnTypeOK, ActiveInv, NEW s \in Senders, Alone(s), Unsent(s), NEW p \in Providers
  PROVE  ~ Happened(<<cmdOf[s], p>>)
  <1>1. cmdOf[s] \in Commands
    BY DEF OwnTypeOK
  <1>2. ~ Sent(cmdOf[s])
    BY DEF Alone, Sent
  <1> QED
    BY <1>1, <1>2 DEF ActiveInv

LEMMA OwnStep ==
  ASSUME OwnTypeOK, ActiveInv, NEW s \in Senders, SenderWaits(s),
         \/ WatchCommand(s) \/ WatchEvent(s) \/ Dispatch(s)
         \/ \E r \in CommandResults : TakeCommandResult(s, r) \/ TakeFirst(s, r)
         \/ \E r \in EventResults : TakeSecond(s, r)
         \/ UnwatchEvent(s) \/ TimeOut(s)
         \/ CallFromCommandHandle(s) \/ CallFromEventHandle(s)
  PROVE  SenderWaits(s)'
  <1>1. cmdOf' = cmdOf /\ notes' = notes /\ happened' = happened
    BY DEF WatchCommand, WatchEvent, Dispatch, TakeCommandResult, TakeFirst, TakeSecond, Take,
           UnwatchEvent, TimeOut, CallFromCommandHandle, CallFromEventHandle, results
  <1>2. (Alone(s)' <=> Alone(s)) /\ \A key : (Happened(key)' <=> Happened(key)) /\ (OnTheWay(key)' <=> OnTheWay(key))
    BY <1>1 DEF Alone, Happened, OnTheWay
  <1>3. \A p \in Providers : <<cmdOf[s], p>> \in Keys
    BY KeyFacts
  <1> DEFINE Key(p) == <<cmdOf[s], p>>
  \* Only the watches just registered are new.
  <1>4. ASSUME NEW p \in Providers, Alone(s), watch'[Key(p)] = s, Happened(Key(p))
        PROVE  OnTheWay(Key(p))
    <2>1. Unsent(s) \/ watch[Key(p)] = s
      <3>1. Nobody \notin Senders
        BY CommandResultAssumption
      <3> QED
        BY <1>3, <1>4, <3>1 DEF WatchCommand, WatchEvent, Dispatch, TakeCommandResult, TakeFirst, TakeSecond, Take,
           Unwatch, UnwatchEvent, TimeOut, CallFromCommandHandle, CallFromEventHandle, registry, OwnTypeOK, Unsent
    <2> QED
      BY <1>4, <2>1, UnsentIsQuiet DEF SenderWaits
  <1>5. CASE WatchCommand(s) \/ WatchEvent(s) \/ Dispatch(s)
    <2>1. /\ box' = box /\ first' = first /\ spc' \in [Senders -> SenderPCs]
          /\ \/ spc[s] = "new" /\ spc'[s] = "watchEvent" /\ watch'[Key("command")] = s
             \/ spc[s] = "watchEvent" /\ spc'[s] = "dispatch" /\ watch'[Key("event")] = s
                  /\ watch'[Key("command")] = watch[Key("command")]
             \/ spc[s] = "dispatch" /\ spc'[s] = "sent" /\ watch' = watch
      BY <1>3, <1>5 DEF WatchCommand, WatchEvent, Dispatch, WatchFor, Goto, OwnTypeOK, registry, SenderPCs, Providers
    <2>2. ASSUME NEW p \in Providers, Alone(s), Waiting(s, p)'
          PROVE  box'[s][p] # <<>> \/ watch'[Key(p)] = s
      BY <1>1, <2>1, <2>2 DEF SenderWaits, Waiting, Unsent, Providers
    <2> QED
      BY <1>1, <1>2, <1>4, <2>1, <2>2 DEF SenderWaits, Unsent
  <1>6. CASE CallFromCommandHandle(s) \/ CallFromEventHandle(s)
    <2>1. /\ box' = box /\ first' = first /\ watch' = watch
          /\ \/ spc[s] = "sent" /\ spc'[s] \in {"waitCommand", "waitFirst"}
             \/ spc[s] = "between" /\ spc'[s] = "waitFirst"
      BY <1>6 DEF CallFromCommandHandle, CallFromEventHandle, Goto, OwnTypeOK, registry
    <2>2. \A p \in Providers : Waiting(s, p)' => Waiting(s, p)
      BY <2>1 DEF Waiting, SenderWaits, Providers
    <2> QED
      BY <1>1, <1>2, <1>4, <2>1, <2>2 DEF SenderWaits, Unsent
  <1>7. CASE (\E r \in CommandResults : TakeCommandResult(s, r) \/ TakeFirst(s, r)) \/ \E r \in EventResults : TakeSecond(s, r)
    <2>1. /\ watch' = watch
          /\ \/ /\ spc[s] = "waitCommand" /\ spc'[s] = "between" /\ first'[s] \in CommandResults
                /\ box'[s]["event"] = box[s]["event"]
             \/ /\ spc[s] = "waitFirst" /\ spc'[s] \in {"waitSecond", "unwatchEvent"} /\ first' = first
                /\ box'[s]["event"] = box[s]["event"]
             \/ spc[s] = "waitSecond" /\ spc'[s] = "done" /\ first' = first
      BY <1>7 DEF TakeCommandResult, TakeFirst, TakeSecond, Take, Goto, OwnTypeOK, Providers
    <2>2. \A p \in Providers : Waiting(s, p)' => p = "event" /\ Waiting(s, p) /\ box'[s][p] = box[s][p]
      BY <2>1 DEF Waiting, Providers
    <2>3. \A r \in CommandResults : r # None
      BY DEF CommandResults, None
    <2> QED
      BY <1>1, <1>2, <1>4, <2>1, <2>2, <2>3 DEF SenderWaits, Unsent
  <1>8. CASE UnwatchEvent(s) \/ TimeOut(s)
    <2>1. /\ box' = box
          /\ \/ /\ spc[s] = "waitCommand" /\ spc'[s] = "between" /\ first'[s] = "timeout"
                /\ watch'[Key("event")] = watch[Key("event")]
             \/ spc'[s] \in {"unwatchEvent", "done"} /\ first' = first
      BY <1>3, <1>8 DEF UnwatchEvent, TimeOut, Unwatch, Goto, OwnTypeOK, Providers
    <2>2. \A p \in Providers : Waiting(s, p)' => p = "event" /\ Waiting(s, p) /\ watch'[Key(p)] = watch[Key(p)]
      BY <2>1 DEF Waiting, Providers
    <2>3. None # "timeout"
      BY DEF None
    <2> QED
      BY <1>1, <1>2, <1>4, <2>1, <2>2, <2>3 DEF SenderWaits, Unsent
  <1> QED
    BY <1>5, <1>6, <1>7, <1>8

LEMMA NoteWait ==
  ASSUME OwnTypeOK, WaitInv, NEW key \in Keys, NEW r \in Outcomes, Note(key, r), UNCHANGED <<registry, senders>>
  PROVE  WaitInv'
  <1>1. watch' = watch /\ box' = box /\ spc' = spc /\ cmdOf' = cmdOf /\ first' = first
    BY DEF registry, senders
  <1>2. ASSUME NEW s \in Senders, NEW p \in Providers,
               Alone(s), watch[<<cmdOf[s], p>>] = s, Happened(<<cmdOf[s], p>>)'
        PROVE  OnTheWay(<<cmdOf[s], p>>)'
    <2> DEFINE k == <<cmdOf[s], p>>
    <2>1. k \in Keys
      BY KeyFacts
    <2>2. (\E r2 \in Outcomes : <<k, r2>> \in happened') => Happened(k) \/ k = key
      <3> HIDE DEF k
      <3> QED
        BY <2>1, NoteEffect DEF Happened, Outcomes
    <2>3. (\E note \in BagToSet(notes') : note[1] = k) <=> OnTheWay(k) \/ k = key
      <3> HIDE DEF k
      <3> QED
        BY <2>1, NoteEffect DEF OnTheWay
    <2>4. Happened(k) => OnTheWay(k)
      BY <1>2 DEF WaitInv, SenderWaits
    <2>5. \E r2 \in Outcomes : <<k, r2>> \in happened'
      BY <1>1, <1>2 DEF Happened, Outcomes
    <2>6. \E note \in BagToSet(notes') : note[1] = k
      BY <2>2, <2>3, <2>4, <2>5
    <2> QED
      BY <1>1, <2>6 DEF OnTheWay
  <1>3. \A s \in Senders : /\ Alone(s)' <=> Alone(s)
                           /\ Unsent(s)' <=> Unsent(s)
                           /\ \A p \in Providers : Waiting(s, p)' <=> Waiting(s, p)
    BY <1>1 DEF Alone, Unsent, Waiting
  <1> QED
    BY <1>1, <1>2, <1>3 DEF WaitInv, SenderWaits

LEMMA NotifyWait ==
  ASSUME OwnTypeOK, WaitInv, NEW note \in BagToSet(notes), Notify(note)
  PROVE  WaitInv'
  <1> DEFINE key == note[1]
             w == watch[key]
  <1>1. /\ key \in Keys /\ key[2] \in Providers /\ key = <<key[1], key[2]>> /\ note[2] \in Outcomes
        /\ BagToSet(notes) \subseteq BagToSet(notes') \cup {note}
        /\ happened' = happened
    BY NotesOfNotify
  <1>2. spc' = spc /\ cmdOf' = cmdOf /\ first' = first /\ watch' = [watch EXCEPT ![key] = Nobody]
    BY DEF Notify, senders
  <1>3. \A s \in Senders : /\ Alone(s)' <=> Alone(s)
                           /\ Unsent(s)' <=> Unsent(s)
                           /\ \A p \in Providers : Waiting(s, p)' <=> Waiting(s, p)
    BY <1>2 DEF Alone, Unsent, Waiting
  <1>4. \A k \in Keys : watch'[k] = IF k = key THEN Nobody ELSE watch[k]
    BY <1>2 DEF OwnTypeOK
  <1>5. ASSUME NEW s \in Senders, NEW p \in Providers
        PROVE  /\ box[s][p] # <<>> => box'[s][p] # <<>>
               /\ key[2] = p /\ w = s => box'[s][p] # <<>>
    <2>1. box[s] \in [Providers -> Seq(Outcomes)] /\ box[s][p] \in Seq(Outcomes)
      BY DEF OwnTypeOK
    <2>2. Append(box[s][p], note[2]) # <<>>
      BY <1>1, <2>1
    <2>3. Nobody # s
      BY CommandResultAssumption
    <2>4. CASE w = s
      <3>1. box' = [box EXCEPT ![s][key[2]] = Append(@, note[2])]
        BY <2>3, <2>4 DEF Notify
      <3>2. box'[s][p] = IF p = key[2] THEN Append(box[s][p], note[2]) ELSE box[s][p]
        BY <2>1, <3>1 DEF OwnTypeOK
      <3> QED
        BY <2>2, <3>2
    <2>5. CASE w # s
      <3>1. box' = box \/ (box' = [box EXCEPT ![w][key[2]] = Append(@, note[2])])
        BY DEF Notify
      <3>2. box'[s] = box[s]
        BY <2>5, <3>1 DEF OwnTypeOK
      <3> QED
        BY <2>5, <3>2
    <2> QED
      BY <2>4, <2>5
  <1>6. ASSUME NEW s \in Senders, NEW p \in Providers, Alone(s), Waiting(s, p)
        PROVE  box'[s][p] # <<>> \/ watch'[<<cmdOf[s], p>>] = s
    <2>1. <<cmdOf[s], p>> \in Keys /\ <<cmdOf[s], p>>[2] = p
      BY KeyFacts
    <2>2. box[s][p] # <<>> \/ watch[<<cmdOf[s], p>>] = s
      BY <1>6 DEF WaitInv, SenderWaits
    <2> QED
      BY <1>4, <1>5, <2>1, <2>2
  <1>7. ASSUME NEW s \in Senders, NEW p \in Providers,
               Alone(s), watch'[<<cmdOf[s], p>>] = s, Happened(<<cmdOf[s], p>>)
        PROVE  \E n \in BagToSet(notes') : n[1] = <<cmdOf[s], p>>
    <2>1. <<cmdOf[s], p>> \in Keys /\ Nobody # s
      BY KeyFacts, CommandResultAssumption
    <2>2. <<cmdOf[s], p>> # key /\ watch[<<cmdOf[s], p>>] = s
      BY <1>4, <1>7, <2>1
    <2>3. PICK n \in BagToSet(notes) : n[1] = <<cmdOf[s], p>>
      BY <1>7, <2>2 DEF WaitInv, SenderWaits, OnTheWay
    <2> QED
      BY <1>1, <2>2, <2>3
  <1> SUFFICES ASSUME NEW s \in Senders PROVE SenderWaits(s)'
    BY DEF WaitInv
  <1>8. /\ Unsent(s) \/ spc[s] \in {"sent", "waitCommand"} => first[s] = None
        /\ spc[s] = "between" => first[s] # None
    BY DEF WaitInv, SenderWaits
  <1>9. ASSUME NEW p \in Providers
        PROVE  /\ Happened(<<cmdOf[s], p>>)' <=> Happened(<<cmdOf[s], p>>)
               /\ OnTheWay(<<cmdOf[s], p>>)' <=> \E n \in BagToSet(notes') : n[1] = <<cmdOf[s], p>>
    BY <1>1, <1>2 DEF Happened, OnTheWay
  <1>10. /\ Alone(s)' <=> Alone(s)
         /\ Unsent(s)' <=> Unsent(s)
         /\ \A p \in Providers : Waiting(s, p)' <=> Waiting(s, p)
    BY <1>3
  <1>11. /\ (Unsent(s) \/ spc[s] \in {"sent", "waitCommand"} => first[s] = None)'
         /\ (spc[s] = "between" => first[s] # None)'
    BY <1>2, <1>8, <1>10
  <1>12. ASSUME NEW p \in Providers, Alone(s)', Waiting(s, p)'
         PROVE  (box[s][p] # <<>> \/ watch[<<cmdOf[s], p>>] = s)'
    BY <1>2, <1>6, <1>10, <1>12
  <1>13. ASSUME NEW p \in Providers, Alone(s)', (watch[<<cmdOf[s], p>>] = s)', Happened(<<cmdOf[s], p>>)'
         PROVE  OnTheWay(<<cmdOf[s], p>>)'
    BY <1>2, <1>7, <1>9, <1>10, <1>13
  <1> QED
    BY <1>11, <1>12, <1>13 DEF SenderWaits

LEMMA WaitInvStep ==
  ASSUME OwnTypeOK, BusyInv, ActiveInv, WaitInv, [Next]_vars
  PROVE  WaitInv'
  <1>1. ASSUME NEW t \in Senders,
               \/ WatchCommand(t) \/ WatchEvent(t) \/ Dispatch(t)
               \/ \E r \in CommandResults : TakeCommandResult(t, r) \/ TakeFirst(t, r)
               \/ \E r \in EventResults : TakeSecond(t, r)
               \/ UnwatchEvent(t) \/ TimeOut(t)
               \/ CallFromCommandHandle(t) \/ CallFromEventHandle(t)
        PROVE  WaitInv'
    <2>1. ASSUME NEW s \in Senders, s # t PROVE SenderWaits(s)'
      BY <1>1, <2>1, OthersStep DEF WaitInv
    <2>2. SenderWaits(t)'
      BY <1>1, OwnStep DEF WaitInv
    <2> QED
      BY <2>1, <2>2 DEF WaitInv
  <1>2. ASSUME NEW r \in CommandResults, HandleCommand(r)
        PROVE  WaitInv'
    <2>1. <<cmdOf[Head(inbox)], "command">> \in Keys /\ r \in Outcomes
      BY <1>2 DEF HandleCommand, OwnTypeOK, Outcomes, Keys, Providers
    <2> QED
      BY <1>2, <2>1, NoteWait DEF HandleCommand
  <1>3. CASE StreamHandled
    <2>1. streams # <<>>
      BY <1>3 DEF StreamHandled, EndGroup, GroupEnded, BusyInv
    <2>2. <<Head(streams), "event">> \in Keys /\ Result \in Outcomes
      BY <2>1 DEF OwnTypeOK, Keys, Providers, Result, Outcomes, EventResults
    <2> QED
      BY <1>3, <2>2, NoteWait DEF StreamHandled
  <1>4. ASSUME NEW note \in BagToSet(notes), Notify(note)
        PROVE  WaitInv'
    BY <1>4, NotifyWait
  <1>5. ASSUME (\E c \in Commands : Republish(c)) \/ Quiet
        PROVE  WaitInv'
    <2>1. UNCHANGED <<registry, senders, results>>
      BY <1>5 DEF Republish, Quiet
    <2> SUFFICES ASSUME NEW s \in Senders PROVE SenderWaits(s)'
      BY DEF WaitInv
    <2>2. /\ watch' = watch /\ box' = box /\ spc' = spc /\ cmdOf' = cmdOf /\ first' = first
          /\ notes' = notes /\ happened' = happened
      BY <2>1 DEF registry, senders, results
    <2>3. /\ Alone(s)' <=> Alone(s)
          /\ Unsent(s)' <=> Unsent(s)
          /\ \A p \in Providers : /\ Waiting(s, p)' <=> Waiting(s, p)
                                  /\ Happened(<<cmdOf[s], p>>)' <=> Happened(<<cmdOf[s], p>>)
                                  /\ OnTheWay(<<cmdOf[s], p>>)' <=> OnTheWay(<<cmdOf[s], p>>)
      BY <2>2 DEF Unsent, Waiting, Alone, Happened, OnTheWay
    <2> QED
      BY <2>2, <2>3 DEF WaitInv, SenderWaits
  <1> QED
    BY <1>1, <1>2, <1>3, <1>4, <1>5, NextCases

-----------------------------------------------------------------------------
IInv ==
  /\ MailInv
  /\ OwnTypeOK
  /\ BusyInv
  /\ WatchInv
  /\ TrueInv
  /\ StreamWaits
  /\ ReturnsWhatHappened
  /\ ActiveInv
  /\ WaitInv

LEMMA IInvInit ==
  ASSUME Init
  PROVE  IInv
  <1>1. MailInv
    BY MailInvInit DEF Init
  <1>2. IsABag(EmptyBag) /\ BagToSet(EmptyBag) = {}
    BY DEF EmptyBag, IsABag, BagToSet, SetToBag
  <1>3. OwnTypeOK
    BY <1>2, CommandResultAssumption DEF Init, OwnTypeOK, SenderPCs, None
  <1>4. BusyInv
    BY DEF Init, MailInit, BusyInv
  <1>5. WatchInv
    BY DEF Init, WatchInv
  <1>6. TrueInv
    BY <1>2 DEF Init, TrueInv
  <1>7. StreamWaits /\ ReturnsWhatHappened
    BY DEF Init, StreamWaits, ReturnsWhatHappened, None, CommandResults, EventResults
  <1>8. ActiveInv
    BY DEF Init, ActiveInv, Happened
  <1>9. WaitInv
    <2>1. \A s \in Senders : spc[s] = "new" /\ first[s] = None
      BY DEF Init
    <2>2. \A key : ~ Happened(key)
      BY DEF Init, Happened
    <2> QED
      BY <2>1, <2>2 DEF WaitInv, SenderWaits, Waiting, Unsent
  <1> QED
    BY <1>1, <1>3, <1>4, <1>5, <1>6, <1>7, <1>8, <1>9 DEF IInv

LEMMA IInvStep ==
  ASSUME IInv, [Next]_vars
  PROVE  IInv'
  <1> USE DEF IInv
  <1>1. MailInv'
    BY NextIsMailAction, MailInvStep
  <1>2. OwnTypeOK' /\ BusyInv'
    BY OwnTypeStep, BusyStep
  <1>3. WatchInv' /\ TrueInv' /\ StreamWaits' /\ ReturnsWhatHappened'
    BY WatchStep, TrueStep, StreamWaitsStep, ReturnsStep
  <1>4. ActiveInv' /\ WaitInv'
    BY ActiveStep, WaitInvStep
  <1> QED
    BY <1>1, <1>2, <1>3, <1>4

LEMMA IInvCorrect == Spec => []IInv
  <1>1. Init => IInv
    BY IInvInit
  <1>2. IInv /\ [Next]_vars => IInv'
    BY IInvStep
  <1> QED
    BY <1>1, <1>2, PTL DEF Spec

(* In every behaviour the variables of the worker, the senders, the         *)
(* registry and the two queues keep their types.                           *)
THEOREM TypeCorrect == Spec => []TypeOK
  <1>1. IInv => TypeOK
    BY DEF IInv, MailInv, OwnTypeOK, TypeOK, Outcomes
  <1> QED
    BY <1>1, IInvCorrect, PTL

(* The result nil of processMails means that each mail of the group had a   *)
(* handler and all its handlers have succeeded, and no other result does.  *)
THEOREM NilMeansHandledCorrect == Spec => []NilMeansHandled
  <1>1. IInv => NilMeansHandled
    BY MailInvHandled DEF IInv
  <1> QED
    BY <1>1, IInvCorrect, PTL

(* failedHandlers of processMails names exactly the handlers that failed,   *)
(* each once, in the order of the mails and their subscriptions.           *)
THEOREM FailedAreNamedCorrect == Spec => []FailedAreNamed
  <1>1. IInv => FailedAreNamed
    BY MailInvNamed DEF IInv
  <1> QED
    BY <1>1, IInvCorrect, PTL

(* Handlers end in the order of the mails; only those that run in           *)
(* goroutines of their own overtake each other.                            *)
THEOREM HandledInOrderCorrect == Spec => []HandledInOrder
  <1>1. IInv => HandledInOrder
    BY DEF IInv, MailInv, RanInv
  <1> QED
    BY <1>1, IInvCorrect, PTL

(* The channel of a registered watch is empty: the notifier, which has just *)
(* taken the watch out of the map, never blocks on it.                     *)
THEOREM WatchedIsEmptyCorrect == Spec => []WatchedIsEmpty
  <1>1. IInv => WatchedIsEmpty
    BY DEF IInv, WatchInv, WatchedIsEmpty
  <1> QED
    BY <1>1, IInvCorrect, PTL

(* Every result that FromCommandHandle or FromEventHandle returns, errors   *)
(* too, was reported of the caller's own command, or of the event stream   *)
(* of that command, which was then reported changed before.                *)
THEOREM ReturnsWhatHappenedCorrect == Spec => []ReturnsWhatHappened
  <1>1. IInv => ReturnsWhatHappened
    BY DEF IInv
  <1> QED
    BY <1>1, IInvCorrect, PTL

(* A result for which the only sender of a command waits is in its channel  *)
(* or on its way, however early the command was handled.                   *)
THEOREM SoleSenderMissesNothingCorrect == Spec => []SoleSenderMissesNothing
  <1>1. ASSUME IInv PROVE SoleSenderMissesNothing
    BY <1>1 DEF IInv, WaitInv, SenderWaits, SoleSenderMissesNothing, Waiting
  <1> QED
    BY <1>1, IInvCorrect, PTL
=============================================================================
