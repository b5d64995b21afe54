------------------------- MODULE EventSourcingProofs -------------------------
(***************************************************************************)
(* Theorems about EventSourcing, for any nodes, commands and crashes.      *)
(* With an EventStoreSaver they need every command to be sent only once:   *)
(* the saver answers a duplicate with nil (run event_sourcing_phantom).    *)
(***************************************************************************)
EXTENDS EventSourcing, TLAPS

NoResendsToSaver == EventSaver => MaxSends <= 1

\* Versions up to k are stored and have been given to the bus.
Covered(k) == k <= Len(log) /\ \A v \in 1..k : Delivered(v)

Early == {"load", "query", "run", "append"}
Publishing == {"readPublished", "queryUnpublished", "resend", "publish", "record", "snapshot"}

\* What a node knows is a prefix of the log, what it believes published is.
Knows(n) ==
  /\ IsPrefixOfLog(agg[n])
  /\ IsPrefixOfLog(cache[n])
  /\ Covered(pv[n])
  /\ Covered(pvCache[n])
  /\ \A i \in DOMAIN pending[n] : Covered(pending[n][i])
  /\ upto[n] <= Len(log)

\* Where a node is in Publish or PublishUnpublished.
Progress(n) ==
  /\ pc[n] \in Publishing /\ target[n] > 0
       => target[n] = Len(agg[n]) /\ agg[n][target[n]] = cmd[n]
  /\ pc[n] \in {"publish", "record", "snapshot"} => target[n] > 0
  /\ pc[n] = "resend" /\ target[n] > 0 => upto[n] = target[n] - 1
  /\ pc[n] \in {"publish", "record"} => pv[n] >= target[n] - 1
  /\ pc[n] = "snapshot" => pv[n] >= target[n] \/ cmd[n] \in givenUp

\* With a saver: a command not yet appended is nowhere else.
Once ==
  EventSaver =>
    /\ \A v \in DOMAIN log : sends[log[v]] >= 1
    /\ \A n \in Nodes : pc[n] \in Early =>
         /\ sends[cmd[n]] >= 1
         /\ ~ Duplicate(n)
         /\ \A m \in Nodes : pc[m] \in Early /\ cmd[m] = cmd[n] => m = n

IInv ==
  /\ TypeOK
  /\ IsPrefixOfLog(snapshot)
  /\ Covered(pubStore)
  /\ PublishedIsStored
  /\ \A n \in Nodes : Knows(n) /\ Progress(n)
  /\ AckedIsPublished
  /\ Once

-----------------------------------------------------------------------------
(* Facts about sequences.                                                  *)

LEMMA AppendFacts ==
  ASSUME NEW S, NEW s \in Seq(S), NEW x \in S
  PROVE  /\ Append(s, x) \in Seq(S)
         /\ Len(Append(s, x)) = Len(s) + 1
         /\ DOMAIN Append(s, x) = 1..(Len(s) + 1)
         /\ DOMAIN s = 1..Len(s) /\ Len(s) \in Nat
         /\ \A i \in DOMAIN s : Append(s, x)[i] = s[i]
         /\ Append(s, x)[Len(s) + 1] = x
  OBVIOUS

LEMMA CatchUpFacts ==
  ASSUME NEW S, NEW s \in Seq(S), NEW t \in Seq(S), Len(t) <= Len(s),
         \A i \in DOMAIN t : t[i] = s[i]
  PROVE  LET r == t \o SubSeq(s, Len(t) + 1, Len(s)) IN
           /\ r \in Seq(S)
           /\ Len(r) = Len(s)
           /\ \A i \in DOMAIN r : i \in DOMAIN s /\ r[i] = s[i]
  OBVIOUS

LEMMA DropFacts ==
  ASSUME NEW S, NEW s \in Seq(S), NEW k \in DOMAIN s
  PROVE  /\ SubSeq(s, k + 1, Len(s)) \in Seq(S)
         /\ \A i \in DOMAIN SubSeq(s, k + 1, Len(s)) :
              \E j \in DOMAIN s : SubSeq(s, k + 1, Len(s))[i] = s[j]
  OBVIOUS

-----------------------------------------------------------------------------
USE EventSourcingAssumption

Streams == [ver : Nat, cmd : Commands]

\* The log and the bus only grow.
Grow ==
  /\ log' = log \/ \E c \in Commands : log' = Append(log, c)
  /\ bus' = bus \/ \E e \in Streams : bus' = Append(bus, e)

\* Node m does not take part in the step.
Same(m) ==
  /\ pc'[m] = pc[m] /\ cmd'[m] = cmd[m] /\ agg'[m] = agg[m]
  /\ pv'[m] = pv[m] /\ target'[m] = target[m] /\ upto'[m] = upto[m]
  /\ cache'[m] = cache[m] /\ pvCache'[m] = pvCache[m] /\ pending'[m] = pending[m]

LEMMA GrowFacts ==
  ASSUME log \in Seq(Commands), bus \in Seq(Streams), Grow
  PROVE  /\ log' \in Seq(Commands) /\ bus' \in Seq(Streams)
         /\ Len(log) \in Nat /\ Len(log') \in Nat /\ Len(log) <= Len(log')
         /\ \A v \in DOMAIN log : v \in DOMAIN log' /\ log'[v] = log[v]
         /\ \A i \in DOMAIN bus : i \in DOMAIN bus' /\ bus'[i] = bus[i]
<1>1. /\ log' \in Seq(Commands)
      /\ Len(log) \in Nat /\ Len(log') \in Nat /\ Len(log) <= Len(log')
      /\ \A v \in DOMAIN log : v \in DOMAIN log' /\ log'[v] = log[v]
  <2>1. CASE log' = log
    BY <2>1
  <2>2. ASSUME NEW c \in Commands, log' = Append(log, c) PROVE <1>1!1 /\ <1>1!2 /\ <1>1!3
    BY <2>2, AppendFacts
  <2>3. QED
    BY <2>1, <2>2 DEF Grow
<1>2. bus' \in Seq(Streams) /\ \A i \in DOMAIN bus : i \in DOMAIN bus' /\ bus'[i] = bus[i]
  <2>1. CASE bus' = bus
    BY <2>1
  <2>2. ASSUME NEW e \in Streams, bus' = Append(bus, e) PROVE <1>2!1 /\ <1>2!2
    BY <2>2, AppendFacts
  <2>3. QED
    BY <2>1, <2>2 DEF Grow
<1>3. QED
  BY <1>1, <1>2

\* What is known of the stores stays true.
LEMMA KeepPrefix ==
  ASSUME log \in Seq(Commands), bus \in Seq(Streams), Grow,
         NEW s \in Seq(Commands), IsPrefixOfLog(s)
  PROVE  /\ Len(s) <= Len(log')
         /\ \A v \in DOMAIN s : s[v] = log'[v]
  BY GrowFacts DEF IsPrefixOfLog

LEMMA KeepCovered ==
  ASSUME log \in Seq(Commands), bus \in Seq(Streams), Grow,
         NEW k \in Int, Covered(k)
  PROVE  /\ k <= Len(log')
         /\ \A v \in 1..k : \E i \in DOMAIN bus' : bus'[i].ver = v
<1>1. k <= Len(log')
  BY GrowFacts DEF Covered
<1>2. ASSUME NEW v \in 1..k PROVE \E i \in DOMAIN bus' : bus'[i].ver = v
  <2>1. PICK i \in DOMAIN bus : bus[i].ver = v
    BY DEF Covered, Delivered
  <2>2. i \in DOMAIN bus' /\ bus'[i] = bus[i]
    BY GrowFacts
  <2>3. QED
    BY <2>1, <2>2
<1>3. QED
  BY <1>1, <1>2

LEMMA OthersKeep ==
  ASSUME TypeOK, Grow, givenUp \subseteq givenUp',
         NEW m \in Nodes, Same(m), Knows(m), Progress(m)
  PROVE  (Knows(m) /\ Progress(m))'
<1>1. /\ log \in Seq(Commands) /\ bus \in Seq(Streams)
      /\ agg[m] \in Seq(Commands) /\ cache[m] \in Seq(Commands)
      /\ pv[m] \in Int /\ pvCache[m] \in Int /\ upto[m] \in Nat
      /\ pending[m] \in Seq(Nat)
  BY DEF TypeOK, NotCached, Streams
<1>2. \A i \in DOMAIN pending[m] : pending[m][i] \in Int
  BY <1>1
<1>3. IsPrefixOfLog(agg[m])' /\ IsPrefixOfLog(cache[m])'
  BY <1>1, KeepPrefix DEF Knows, Same, IsPrefixOfLog
<1>4. Covered(pv[m])' /\ Covered(pvCache[m])'
  BY <1>1, KeepCovered DEF Knows, Same, Covered, Delivered
<1>5. \A i \in DOMAIN pending'[m] : Covered(pending[m][i])'
  <2> SUFFICES ASSUME NEW i \in DOMAIN pending[m] PROVE Covered(pending[m][i])'
    BY DEF Same
  <2>1. /\ pending[m][i] <= Len(log')
        /\ \A v \in 1..pending[m][i] : \E j \in DOMAIN bus' : bus'[j].ver = v
    BY <1>1, <1>2, KeepCovered DEF Knows
  <2>2. QED
    BY <2>1 DEF Same, Covered, Delivered
<1>6. upto'[m] <= Len(log')
  BY <1>1, GrowFacts DEF Knows, Same
<1>7. Progress(m)'
  BY DEF Progress, Same
<1>8. QED
  BY <1>3, <1>4, <1>5, <1>6, <1>7 DEF Knows

\* What a step has to show that only one node takes.
LEMMA OneNode ==
  ASSUME IInv, TypeOK', Grow, givenUp \subseteq givenUp',
         NEW n \in Nodes, \A m \in Nodes \ {n} : Same(m),
         Knows(n)', Progress(n)', Covered(pubStore)', IsPrefixOfLog(snapshot)',
         PublishedIsStored', AckedIsPublished', Once'
  PROVE  IInv'
<1>1. \A m \in Nodes \ {n} : Knows(m)' /\ Progress(m)'
  BY OthersKeep DEF IInv
<1>2. QED
  BY <1>1 DEF IInv

LEMMA AckedKeeps ==
  ASSUME TypeOK, AckedIsPublished, Grow, acked' = acked, givenUp \subseteq givenUp'
  PROVE  AckedIsPublished'
<1> SUFFICES ASSUME NEW c \in acked
             PROVE  \E v \in DOMAIN log' :
                      log'[v] = c /\ ((\E i \in DOMAIN bus' : bus'[i].ver = v) \/ c \in givenUp')
  BY DEF AckedIsPublished, Delivered
<1>1. PICK v \in DOMAIN log : log[v] = c /\ (Delivered(v) \/ c \in givenUp)
  BY DEF AckedIsPublished
<1>2. v \in DOMAIN log' /\ log'[v] = log[v]
  BY <1>1, GrowFacts DEF TypeOK, Streams
<1>3. ASSUME Delivered(v) PROVE \E i \in DOMAIN bus' : bus'[i].ver = v
  BY <1>3, GrowFacts DEF TypeOK, Streams, Delivered
<1>4. QED
  BY <1>1, <1>2, <1>3

LEMMA StoredKeeps ==
  ASSUME TypeOK, PublishedIsStored, Grow,
         \/ bus' = bus
         \/ \E e \in Streams : /\ bus' = Append(bus, e)
                               /\ e.ver \in DOMAIN log /\ log[e.ver] = e.cmd
  PROVE  PublishedIsStored'
<1>1. \A v \in DOMAIN log : v \in DOMAIN log' /\ log'[v] = log[v]
  BY GrowFacts DEF TypeOK, Streams
<1>2. CASE bus' = bus
  BY <1>1, <1>2 DEF PublishedIsStored
<1>3. ASSUME NEW e \in Streams, bus' = Append(bus, e),
             e.ver \in DOMAIN log, log[e.ver] = e.cmd
      PROVE  PublishedIsStored'
  <2>1. /\ \A i \in DOMAIN bus' : i \in DOMAIN bus \/ i = Len(bus) + 1
        /\ \A i \in DOMAIN bus : bus'[i] = bus[i]
        /\ bus'[Len(bus) + 1] = e
    BY <1>3, AppendFacts DEF TypeOK, Streams
  <2>2. QED
    BY <2>1, <1>1, <1>3 DEF PublishedIsStored
<1>4. QED
  BY <1>2, <1>3

LEMMA OnceKeeps ==
  ASSUME Once, UNCHANGED <<log, sends, cmd>>,
         \A m \in Nodes : pc'[m] \in Early => pc[m] \in Early
  PROVE  Once'
  BY DEF Once, Duplicate

\* A step that touches neither the log nor the bus.
LEMMA Quiet ==
  ASSUME IInv, TypeOK', UNCHANGED <<log, bus, acked>>, givenUp \subseteq givenUp',
         NEW n \in Nodes, \A m \in Nodes \ {n} : Same(m),
         Knows(n)', Progress(n)', Covered(pubStore'), IsPrefixOfLog(snapshot'), Once'
  PROVE  IInv'
<1>1. Grow
  BY DEF Grow
<1>2. Covered(pubStore)' /\ IsPrefixOfLog(snapshot)'
  BY DEF Covered, Delivered, IsPrefixOfLog
<1>3. PublishedIsStored' /\ AckedIsPublished'
  BY DEF IInv, PublishedIsStored, AckedIsPublished, Delivered
<1>4. QED
  BY <1>1, <1>2, <1>3, OneNode

LEMMA QuietKnows ==
  ASSUME UNCHANGED <<log, bus>>, NEW n \in Nodes,
         IsPrefixOfLog(agg'[n]), IsPrefixOfLog(cache'[n]),
         Covered(pv'[n]), Covered(pvCache'[n]),
         \A i \in DOMAIN pending'[n] : Covered(pending'[n][i]),
         upto'[n] <= Len(log)
  PROVE  Knows(n)'
  BY DEF Knows, IsPrefixOfLog, Covered, Delivered

-----------------------------------------------------------------------------
(* The actions.                                                            *)

LEMMA DeliverStep ==
  ASSUME NoResendsToSaver, IInv, NEW n \in Nodes, NEW c \in Commands, Deliver(n, c)
  PROVE  IInv'
<1>1. /\ pc[n] = "idle" /\ sends[c] < MaxSends
      /\ sends' = [sends EXCEPT ![c] = sends[c] + 1]
      /\ cmd' = [cmd EXCEPT ![n] = c]
      /\ pc' = [pc EXCEPT ![n] = "load"]
      /\ UNCHANGED <<stores, acked, crashes, givenUp, agg, publisher, caches>>
  BY DEF Deliver, Goto
<1>2. TypeOK'
  BY <1>1, SMTT(30) DEF IInv, TypeOK, PCs, stores, publisher, caches
<1>3. pc \in [Nodes -> PCs] /\ cmd \in [Nodes -> Commands] /\ sends \in [Commands -> 0..MaxSends]
      /\ log \in Seq(Commands)
  BY DEF IInv, TypeOK
<1>4. Once'
  <2> SUFFICES ASSUME EventSaver PROVE Once'
    BY <1>1 DEF Once, stores
  <2>1. sends[c] = 0
    BY <1>1, <1>3 DEF NoResendsToSaver
  <2>2. \A v \in DOMAIN log : log[v] # c /\ sends'[log[v]] >= 1
    BY <1>1, <1>3, <2>1 DEF IInv, Once
  <2>3. \A m \in Nodes \ {n} : pc[m] \in Early => cmd[m] # c /\ sends'[cmd[m]] >= 1
    BY <1>1, <1>3, <2>1 DEF IInv, Once
  <2>4. \A m \in Nodes \ {n} : pc'[m] = pc[m] /\ cmd'[m] = cmd[m]
    BY <1>1
  <2>5. cmd'[n] = c /\ sends'[c] >= 1 /\ log' = log
    BY <1>1, <1>3, <2>1 DEF stores
  <2>6. QED
    BY <2>2, <2>3, <2>4, <2>5 DEF IInv, Once, Duplicate
<1>5. \A m \in Nodes \ {n} : Same(m)
  BY <1>1, <1>3 DEF Same, publisher, caches
<1>6. Knows(n)' /\ Progress(n)'
  <2>1. Knows(n)'
    BY <1>1, QuietKnows DEF IInv, Knows, stores, publisher, caches
  <2>2. Progress(n)'
    BY <1>1, <1>3 DEF Progress, Publishing
  <2>3. QED
    BY <2>1, <2>2
<1>7. QED
  BY <1>1, <1>2, <1>4, <1>5, <1>6, Quiet DEF IInv, stores

LEMMA LoadStep ==
  ASSUME IInv, NEW n \in Nodes, Load(n)
  PROVE  IInv'
<1>1. /\ pc[n] = "load"
      /\ \E a \in {cache[n], snapshot, <<>>} : agg' = [agg EXCEPT ![n] = a]
      /\ \E label \in {"run", "query"} : pc' = [pc EXCEPT ![n] = label]
      /\ UNCHANGED <<stores, client, cmd, publisher, caches>>
  BY DEF Load, Goto
<1>2. PICK a \in {cache[n], snapshot, <<>>} : agg' = [agg EXCEPT ![n] = a]
  BY <1>1
<1>3. pc \in [Nodes -> PCs] /\ agg \in [Nodes -> Seq(Commands)]
      /\ a \in Seq(Commands) /\ log \in Seq(Commands)
  <2>1. pc \in [Nodes -> PCs] /\ agg \in [Nodes -> Seq(Commands)] /\ log \in Seq(Commands)
        /\ cache[n] \in Seq(Commands) /\ snapshot \in Seq(Commands)
    BY DEF IInv, TypeOK
  <2>2. <<>> \in Seq(Commands)
    OBVIOUS
  <2>3. QED
    BY <2>1, <2>2, <1>2
<1>4. IsPrefixOfLog(a)
  <2>1. IsPrefixOfLog(<<>>)
    BY <1>3 DEF IsPrefixOfLog
  <2>2. IsPrefixOfLog(cache[n]) /\ IsPrefixOfLog(snapshot)
    BY DEF IInv, Knows
  <2>3. QED
    BY <2>1, <2>2, <1>2
<1>5. TypeOK'
  <2>1. agg' \in [Nodes -> Seq(Commands)]
    BY <1>2, <1>3
  <2>2. pc' \in [Nodes -> PCs]
    BY <1>1, <1>3 DEF PCs
  <2>3. TypeOK /\ UNCHANGED <<stores, client, cmd, publisher, caches>>
    BY <1>1 DEF IInv
  <2>4. QED
    BY <2>1, <2>2, <2>3 DEF TypeOK, stores, client, publisher, caches
<1>6. \A m \in Nodes \ {n} : Same(m)
  BY <1>1, <1>2, <1>3 DEF Same, publisher, caches
<1>7. Knows(n)'
  <2>1. agg'[n] = a
    BY <1>2, <1>3
  <2>2. QED
    BY <1>1, <1>4, <2>1, QuietKnows DEF IInv, Knows, stores, publisher, caches
<1>8. Progress(n)'
  BY <1>1, <1>3 DEF Progress, Publishing
<1>9. Once'
  BY <1>1, <1>3, OnceKeeps DEF IInv, Early, stores, client
<1>10. QED
  BY <1>1, <1>5, <1>6, <1>7, <1>8, <1>9, Quiet DEF IInv, stores, client

LEMMA QueryStep ==
  ASSUME IInv, NEW n \in Nodes, Query(n)
  PROVE  IInv'
<1>1. /\ pc[n] = "query"
      /\ UNCHANGED <<stores, client, cmd, publisher, pvCache, pending>>
  BY DEF Query
<1>2. pc \in [Nodes -> PCs] /\ agg \in [Nodes -> Seq(Commands)]
      /\ cache \in [Nodes -> Seq(Commands)] /\ log \in Seq(Commands)
  BY DEF IInv, TypeOK
<1>3. PICK r \in Seq(Commands), label \in {"run", "idle"} :
        /\ IsPrefixOfLog(r)
        /\ agg' = [agg EXCEPT ![n] = r]
        /\ cache' = [cache EXCEPT ![n] = r] \/ cache' = cache
        /\ pc' = [pc EXCEPT ![n] = label]
  <2> DEFINE restored == agg[n] \o SubSeq(log, Len(agg[n]) + 1, Len(log))
  <2>1. /\ agg[n] \in Seq(Commands) /\ Len(agg[n]) \in Nat /\ Len(log) \in Nat
        /\ IsPrefixOfLog(agg[n])
    BY <1>2 DEF IInv, Knows
  <2>2. Len(agg[n]) <= Len(log) /\ \A i \in DOMAIN agg[n] : agg[n][i] = log[i]
    BY <2>1 DEF IsPrefixOfLog
  <2>3. restored \in Seq(Commands) /\ IsPrefixOfLog(restored)
    BY <2>1, <2>2, <1>2, CatchUpFacts DEF IsPrefixOfLog
  <2>4. \/ /\ agg' = [agg EXCEPT ![n] = restored]
           /\ cache' = [cache EXCEPT ![n] = restored]
           /\ pc' = [pc EXCEPT ![n] = "run"]
        \/ agg' = agg /\ cache' = cache /\ pc' = [pc EXCEPT ![n] = "idle"]
    BY <1>2 DEF Query, Goto, Restored
  <2> HIDE DEF restored
  <2>5. agg = [agg EXCEPT ![n] = agg[n]]
    BY <1>2
  <2>6. CASE agg' = agg /\ cache' = cache /\ pc' = [pc EXCEPT ![n] = "idle"]
    BY <2>1, <2>5, <2>6
  <2>7. QED
    BY <2>3, <2>4, <2>6
<1>4. TypeOK'
  BY <1>1, <1>2, <1>3 DEF IInv, TypeOK, PCs, stores, client, publisher
<1>5. \A m \in Nodes \ {n} : Same(m)
  BY <1>1, <1>2, <1>3 DEF Same, publisher
<1>6. Knows(n)'
  <2>1. IsPrefixOfLog(agg'[n]) /\ IsPrefixOfLog(cache'[n])
    BY <1>2, <1>3 DEF IInv, Knows
  <2>2. QED
    BY <2>1, <1>1, QuietKnows DEF IInv, Knows, stores, publisher
<1>7. Progress(n)'
  BY <1>1, <1>2, <1>3 DEF Progress, Publishing
<1>8. Once'
  BY <1>1, <1>2, <1>3, OnceKeeps DEF IInv, Early, stores, client
<1>9. QED
  BY <1>1, <1>4, <1>5, <1>6, <1>7, <1>8, Quiet DEF IInv, stores, client

LEMMA RunStep ==
  ASSUME IInv, NEW n \in Nodes, Run(n)
  PROVE  IInv'
<1>1. /\ pc[n] = "run"
      /\ UNCHANGED <<stores, client, handler, pv, upto, caches>>
  BY DEF Run
<1>2. pc \in [Nodes -> PCs] /\ target \in [Nodes -> Nat] /\ log \in Seq(Commands)
  BY DEF IInv, TypeOK
<1>3. \/ pc' = [pc EXCEPT ![n] = "append"] /\ target' = target
      \/ pc' = [pc EXCEPT ![n] = "idle"] /\ target' = target
      \/ pc' = [pc EXCEPT ![n] = "readPublished"] /\ target' = [target EXCEPT ![n] = 0]
  BY DEF Run, Goto
<1>4. TypeOK'
  <2>1. pc' \in [Nodes -> PCs] /\ target' \in [Nodes -> Nat]
    BY <1>2, <1>3 DEF PCs
  <2>2. QED
    BY <2>1, <1>1 DEF IInv, TypeOK, stores, client, handler, caches
<1>5. \A m \in Nodes \ {n} : Same(m)
  BY <1>1, <1>2, <1>3 DEF Same, handler, caches
<1>6. Knows(n)'
  BY <1>1, QuietKnows DEF IInv, Knows, stores, handler, caches
<1>7. Progress(n)'
  BY <1>1, <1>2, <1>3 DEF Progress, Publishing
<1>8. Once'
  BY <1>1, <1>2, <1>3, OnceKeeps DEF IInv, Early, stores, client, handler
<1>9. QED
  BY <1>1, <1>4, <1>5, <1>6, <1>7, <1>8, Quiet DEF IInv, stores, client

\* The new log when the command of n is appended.
LEMMA StoreFacts ==
  ASSUME IInv, NEW n \in Nodes, pc[n] = "append", ~ Duplicate(n),
         log' = Append(log, cmd[n]), UNCHANGED <<sends, cmd>>,
         \A m \in Nodes : pc'[m] \in Early => pc[m] \in Early /\ m # n
  PROVE  Once'
<1>1. cmd \in [Nodes -> Commands] /\ log \in Seq(Commands)
  BY DEF IInv, TypeOK
<1>2. /\ \A v \in DOMAIN log' : v \in DOMAIN log \/ v = Len(log) + 1
      /\ \A v \in DOMAIN log : log'[v] = log[v]
      /\ log'[Len(log) + 1] = cmd[n]
  BY <1>1, AppendFacts
<1> SUFFICES ASSUME EventSaver PROVE Once'
  BY DEF Once
<1>3. Once /\ pc[n] \in Early
  BY DEF IInv, Early
<1>4. \A v \in DOMAIN log' : sends'[log'[v]] >= 1
  BY <1>2, <1>3 DEF Once
<1>5. ASSUME NEW m \in Nodes, pc'[m] \in Early
      PROVE  /\ sends'[cmd'[m]] >= 1
             /\ ~ Duplicate(m)'
             /\ \A k \in Nodes : pc'[k] \in Early /\ cmd'[k] = cmd'[m] => k = m
  <2>1. pc[m] \in Early /\ m # n
    BY <1>5
  <2>2. cmd[m] # cmd[n]
    BY <2>1, <1>3 DEF Once
  <2>3. \A v \in DOMAIN log : log[v] # cmd[m]
    BY <2>1, <1>3 DEF Once, Duplicate
  <2>4. ~ Duplicate(m)'
    BY <2>2, <2>3, <1>2 DEF Duplicate
  <2>5. QED
    BY <2>1, <2>4, <1>3 DEF Once
<1>6. QED
  BY <1>4, <1>5 DEF Once

LEMMA AppendStoredStep ==
  ASSUME IInv, NEW n \in Nodes, AppendStored(n)
  PROVE  IInv'
<1> DEFINE changed == Append(agg[n], cmd[n])
<1>1. /\ pc[n] = "append" /\ ~ Duplicate(n) /\ Len(log) = Len(agg[n])
      /\ log' = Append(log, cmd[n])
      /\ agg' = [agg EXCEPT ![n] = changed]
      /\ cache' = [cache EXCEPT ![n] = changed]
      /\ target' = [target EXCEPT ![n] = Len(changed)]
      /\ pc' = [pc EXCEPT ![n] = "readPublished"]
      /\ UNCHANGED <<bus, pubStore, snapshot, client, cmd, pv, upto, pvCache, pending>>
  BY DEF AppendStored, Accept, Changed, Goto, Unexpected
<1>2. /\ pc \in [Nodes -> PCs] /\ agg \in [Nodes -> Seq(Commands)]
      /\ cache \in [Nodes -> Seq(Commands)] /\ target \in [Nodes -> Nat]
      /\ cmd \in [Nodes -> Commands] /\ log \in Seq(Commands) /\ bus \in Seq(Streams)
      /\ agg[n] \in Seq(Commands) /\ cmd[n] \in Commands
      /\ pv[n] \in Int /\ pvCache[n] \in Int /\ upto[n] \in Nat /\ pubStore \in Int
      /\ pending[n] \in Seq(Nat) /\ snapshot \in Seq(Commands)
  BY SMTT(30) DEF IInv, TypeOK, Streams, NotCached
<1>3. Grow
  BY <1>1, <1>2 DEF Grow
<1>4. /\ changed \in Seq(Commands) /\ Len(changed) = Len(agg[n]) + 1
      /\ DOMAIN changed = 1..(Len(agg[n]) + 1)
      /\ DOMAIN agg[n] = 1..Len(agg[n]) /\ Len(agg[n]) \in Nat
      /\ \A i \in DOMAIN agg[n] : changed[i] = agg[n][i]
      /\ changed[Len(agg[n]) + 1] = cmd[n]
  BY <1>2, AppendFacts
<1>5. /\ log' \in Seq(Commands) /\ Len(log') = Len(log) + 1
      /\ \A i \in DOMAIN log : log'[i] = log[i]
      /\ log'[Len(log) + 1] = cmd[n] /\ DOMAIN log = 1..Len(log)
  BY <1>1, <1>2, AppendFacts
<1> HIDE DEF changed
<1>6. TypeOK'
  BY <1>1, <1>2, <1>4, <1>5, SMTT(30) DEF IInv, TypeOK, PCs, client
<1>7. \A m \in Nodes \ {n} : Same(m)
  BY <1>1, <1>2 DEF Same
<1>8. Len(changed) <= Len(log') /\ \A i \in DOMAIN changed : changed[i] = log'[i]
  BY <1>1, <1>4, <1>5 DEF IInv, Knows, IsPrefixOfLog
<1>9. Knows(n)'
  <2>1. IsPrefixOfLog(agg[n])' /\ IsPrefixOfLog(cache[n])'
    BY <1>1, <1>2, <1>8 DEF IsPrefixOfLog
  <2>2. Covered(pv[n])' /\ Covered(pvCache[n])'
    BY <1>1, <1>2, <1>3, KeepCovered DEF IInv, Knows, Covered, Delivered
  <2>3. \A i \in DOMAIN pending'[n] : Covered(pending[n][i])'
    <3> SUFFICES ASSUME NEW i \in DOMAIN pending[n] PROVE Covered(pending[n][i])'
      BY <1>1
    <3>1. /\ pending[n][i] <= Len(log')
          /\ \A v \in 1..pending[n][i] : \E j \in DOMAIN bus' : bus'[j].ver = v
      BY <1>2, <1>3, KeepCovered DEF IInv, Knows
    <3>2. QED
      BY <3>1, <1>1 DEF Covered, Delivered
  <2>4. upto'[n] <= Len(log')
    <3>1. upto[n] <= Len(log) /\ Len(log) \in Nat
      BY <1>2 DEF IInv, Knows
    <3>2. QED
      BY <3>1, <1>1, <1>2, <1>5
  <2>5. QED
    BY <2>1, <2>2, <2>3, <2>4 DEF Knows
<1>10. Progress(n)'
  BY <1>1, <1>2, <1>4 DEF Progress, Publishing
<1>11. Covered(pubStore)' /\ IsPrefixOfLog(snapshot)'
  BY <1>1, <1>2, <1>3, KeepCovered, KeepPrefix DEF IInv, Covered, Delivered, IsPrefixOfLog
<1>12. PublishedIsStored' /\ AckedIsPublished'
  BY <1>1, <1>3, StoredKeeps, AckedKeeps DEF IInv, client
<1>13. Once'
  <2>1. \A m \in Nodes : pc'[m] \in Early => pc[m] \in Early /\ m # n
    BY <1>1, <1>2 DEF Early
  <2>2. QED
    BY <2>1, <1>1, StoreFacts DEF client
<1>14. QED
  BY <1>1, <1>3, <1>6, <1>7, <1>9, <1>10, <1>11, <1>12, <1>13, OneNode DEF client

LEMMA AppendDuplicateStep ==
  ASSUME IInv, NEW n \in Nodes, AppendDuplicate(n)
  PROVE  IInv'
<1>1. ~ EventSaver
  BY DEF AppendDuplicate, IInv, Once, Early
<1>2. /\ pc[n] = "append"
      /\ pc' = [pc EXCEPT ![n] = "idle"]
      /\ UNCHANGED <<stores, client, handler, publisher, caches>>
  BY <1>1 DEF AppendDuplicate, Goto, handler, publisher, caches
<1>3. pc \in [Nodes -> PCs]
  BY DEF IInv, TypeOK
<1>4. TypeOK'
  BY <1>2, <1>3 DEF IInv, TypeOK, PCs, stores, client, handler, publisher, caches
<1>5. \A m \in Nodes \ {n} : Same(m)
  BY <1>2, <1>3 DEF Same, handler, publisher, caches
<1>6. Knows(n)'
  BY <1>2, QuietKnows DEF IInv, Knows, stores, handler, publisher, caches
<1>7. Progress(n)'
  BY <1>2, <1>3 DEF Progress, Publishing
<1>8. Once'
  BY <1>2, <1>3, OnceKeeps DEF IInv, Early, stores, client, handler
<1>9. QED
  BY <1>2, <1>4, <1>5, <1>6, <1>7, <1>8, Quiet DEF IInv, stores, client

LEMMA AppendUnexpectedStep ==
  ASSUME IInv, NEW n \in Nodes, AppendUnexpected(n)
  PROVE  IInv'
<1>1. /\ pc[n] = "append"
      /\ pc' = [pc EXCEPT ![n] = "idle"]
      /\ cache' = cache \/ cache' = [cache EXCEPT ![n] = <<>>]
      /\ UNCHANGED <<stores, client, handler, publisher, pvCache, pending>>
  BY DEF AppendUnexpected, Goto
<1>2. pc \in [Nodes -> PCs] /\ cache \in [Nodes -> Seq(Commands)] /\ log \in Seq(Commands)
  BY DEF IInv, TypeOK
<1>3. <<>> \in Seq(Commands) /\ IsPrefixOfLog(<<>>)
  BY <1>2 DEF IsPrefixOfLog
<1>4. TypeOK'
  BY <1>1, <1>2, <1>3 DEF IInv, TypeOK, PCs, stores, client, handler, publisher
<1>5. \A m \in Nodes \ {n} : Same(m)
  BY <1>1, <1>2 DEF Same, handler, publisher
<1>6. Knows(n)'
  <2>1. IsPrefixOfLog(cache'[n])
    BY <1>1, <1>2, <1>3 DEF IInv, Knows
  <2>2. QED
    BY <2>1, <1>1, QuietKnows DEF IInv, Knows, stores, handler, publisher
<1>7. Progress(n)'
  BY <1>1, <1>2 DEF Progress, Publishing
<1>8. Once'
  BY <1>1, <1>2, OnceKeeps DEF IInv, Early, stores, client, handler
<1>9. QED
  BY <1>1, <1>4, <1>5, <1>6, <1>7, <1>8, Quiet DEF IInv, stores, client

LEMMA AppendFailsStep ==
  ASSUME IInv, NEW n \in Nodes, AppendFails(n)
  PROVE  IInv'
<1>1. /\ pc[n] = "append"
      /\ pc' = [pc EXCEPT ![n] = "idle"]
      /\ UNCHANGED <<bus, pubStore, snapshot, client, handler, publisher, caches>>
      /\ \/ log' = log
         \/ ~ Duplicate(n) /\ log' = Append(log, cmd[n])
  BY DEF AppendFails, Goto
<1>2. /\ pc \in [Nodes -> PCs] /\ log \in Seq(Commands) /\ bus \in Seq(Streams)
      /\ cmd[n] \in Commands /\ pubStore \in Int /\ snapshot \in Seq(Commands)
  BY DEF IInv, TypeOK, Streams
<1>3. Grow
  BY <1>1, <1>2 DEF Grow
<1>4. TypeOK'
  <2>1. log' \in Seq(Commands)
    BY <1>1, <1>2, AppendFacts, SMTT(30)
  <2>2. QED
    BY <2>1, <1>1, <1>2 DEF IInv, TypeOK, PCs, client, handler, publisher, caches
<1>5. \A m \in Nodes \ {n} : Same(m)
  BY <1>1, <1>2 DEF Same, handler, publisher, caches
<1>6. Knows(n)' /\ Progress(n)'
  <2>1. Progress(n)'
    BY <1>1, <1>2 DEF Progress, Publishing
  <2>2. Knows(n)'
    <3>1. /\ agg[n] \in Seq(Commands) /\ cache[n] \in Seq(Commands)
          /\ pv[n] \in Int /\ pvCache[n] \in Int /\ upto[n] \in Nat
          /\ pending[n] \in Seq(Nat)
      BY DEF IInv, TypeOK, NotCached
    <3>2. \A i \in DOMAIN pending[n] : pending[n][i] \in Int
      BY <3>1
    <3>3. IsPrefixOfLog(agg[n])' /\ IsPrefixOfLog(cache[n])'
      BY <3>1, <1>1, <1>2, <1>3, KeepPrefix DEF IInv, Knows, handler, caches, IsPrefixOfLog
    <3>4. Covered(pv[n])' /\ Covered(pvCache[n])'
      BY <3>1, <1>1, <1>2, <1>3, KeepCovered
      DEF IInv, Knows, publisher, caches, Covered, Delivered
    <3>5. \A i \in DOMAIN pending[n] :
            /\ pending[n][i] <= Len(log')
            /\ \A v \in 1..pending[n][i] : \E j \in DOMAIN bus' : bus'[j].ver = v
      BY <3>2, <1>2, <1>3, KeepCovered DEF IInv, Knows
    <3>6. upto[n] <= Len(log')
      BY <3>1, <1>2, <1>3, GrowFacts DEF IInv, Knows
    <3>7. QED
      BY <3>3, <3>4, <3>5, <3>6, <1>1 DEF Knows, Covered, Delivered, publisher, caches
  <2>3. QED
    BY <2>1, <2>2
<1>7. Covered(pubStore)' /\ IsPrefixOfLog(snapshot)'
  BY <1>1, <1>2, <1>3, KeepCovered, KeepPrefix DEF IInv, Covered, Delivered, IsPrefixOfLog
<1>8. PublishedIsStored' /\ AckedIsPublished'
  BY <1>1, <1>3, StoredKeeps, AckedKeeps DEF IInv, client
<1>9. Once'
  <2>1. \A m \in Nodes : pc'[m] \in Early => pc[m] \in Early /\ m # n
    BY <1>1, <1>2 DEF Early
  <2>2. CASE log' = log
    BY <2>1, <2>2, <1>1, OnceKeeps DEF IInv, client, handler
  <2>3. CASE log' # log
    BY <2>1, <2>3, <1>1, StoreFacts DEF client, handler
  <2>4. QED
    BY <2>2, <2>3
<1>10. QED
  BY <1>1, <1>3, <1>4, <1>5, <1>6, <1>7, <1>8, <1>9, OneNode DEF client

LEMMA ReadPublishedStep ==
  ASSUME IInv, NEW n \in Nodes, ReadPublished(n)
  PROVE  IInv'
<1>1. /\ pc \in [Nodes -> PCs] /\ pv \in [Nodes -> Nat] /\ pubStore \in Nat
      /\ pvCache \in [Nodes -> Nat \cup {NotCached}]
  BY DEF IInv, TypeOK
<1>2. PICK known \in Nat :
        /\ known = pubStore \/ known = pvCache[n]
        /\ pv' = [pv EXCEPT ![n] = known]
        /\ pvCache' = pvCache \/ pvCache' = [pvCache EXCEPT ![n] = known]
  <2> DEFINE k == IF PublishedSaver /\ pvCache[n] # NotCached THEN pvCache[n] ELSE pubStore
  <2>1. k \in Nat /\ (k = pubStore \/ k = pvCache[n])
    BY <1>1
  <2>2. /\ pv' = [pv EXCEPT ![n] = k]
        /\ pvCache' = pvCache \/ pvCache' = [pvCache EXCEPT ![n] = k]
    BY DEF ReadPublished
  <2> HIDE DEF k
  <2>3. QED
    BY <2>1, <2>2
<1>3. /\ pc[n] = "readPublished"
      /\ pc' = [pc EXCEPT ![n] = "queryUnpublished"]
      /\ UNCHANGED <<stores, client, handler, target, upto, cache, pending>>
  BY DEF ReadPublished, Goto
<1>4. TypeOK'
  BY <1>1, <1>2, <1>3 DEF IInv, TypeOK, PCs, stores, client, handler
<1>5. \A m \in Nodes \ {n} : Same(m)
  BY <1>1, <1>2, <1>3 DEF Same, handler
<1>6. Knows(n)'
  <2>1. Covered(known)
    BY <1>2 DEF IInv, Knows
  <2>2. Covered(pv'[n]) /\ Covered(pvCache'[n])
    BY <2>1, <1>1, <1>2 DEF IInv, Knows
  <2>3. QED
    BY <2>2, <1>3, QuietKnows DEF IInv, Knows, stores, handler
<1>7. Progress(n)'
  BY <1>1, <1>3 DEF IInv, Progress, Publishing, handler
<1>8. Once'
  BY <1>1, <1>3, OnceKeeps DEF IInv, Early, stores, client, handler
<1>9. QED
  BY <1>3, <1>4, <1>5, <1>6, <1>7, <1>8, Quiet DEF IInv, stores, client

LEMMA QueryUnpublishedStep ==
  ASSUME IInv, NEW n \in Nodes, QueryUnpublished(n)
  PROVE  IInv'
<1>1. /\ pc \in [Nodes -> PCs] /\ upto \in [Nodes -> Nat] /\ target[n] \in Nat
      /\ log \in Seq(Commands) /\ agg[n] \in Seq(Commands) /\ Len(log) \in Nat
      /\ Len(agg[n]) <= Len(log) /\ Len(agg[n]) \in Nat
      /\ cmd[n] \in Commands /\ givenUp \subseteq Commands
  BY DEF IInv, TypeOK, Knows, IsPrefixOfLog
<1>2. /\ pc[n] = "queryUnpublished"
      /\ UNCHANGED <<stores, sends, acked, crashes, handler, pv, target, caches>>
  BY DEF QueryUnpublished
<1>3. target[n] > 0 => target[n] = Len(agg[n]) /\ agg[n][target[n]] = cmd[n]
  BY <1>2 DEF IInv, Progress, Publishing
<1>4. CASE /\ upto' = [upto EXCEPT ![n] = LastUnpublished(n)]
           /\ pc' = [pc EXCEPT ![n] = "resend"]
           /\ givenUp' = givenUp
  <2>1. upto'[n] \in Nat /\ upto'[n] <= Len(log)
        /\ (target[n] > 0 => upto'[n] = target[n] - 1)
    BY <1>1, <1>3, <1>4 DEF Lower, LastUnpublished
  <2>2. TypeOK'
    <3>1. upto' \in [Nodes -> Nat]
      BY <1>1, <1>4, <2>1
    <3>2. QED
      BY <3>1, <1>1, <1>2, <1>4 DEF IInv, TypeOK, PCs, stores, handler, caches
  <2>3. \A m \in Nodes \ {n} : Same(m)
    BY <1>1, <1>2, <1>4 DEF Same, handler, caches
  <2>4. Knows(n)'
    BY <1>2, <2>1, QuietKnows DEF IInv, Knows, stores, handler, caches
  <2>5. Progress(n)'
    BY <1>1, <1>2, <1>3, <1>4, <2>1 DEF Progress, Publishing, handler
  <2>6. Once'
    BY <1>1, <1>2, <1>4, OnceKeeps DEF IInv, Early, stores, handler
  <2>7. QED
    BY <1>2, <1>4, <2>2, <2>3, <2>4, <2>5, <2>6, Quiet DEF IInv, stores
<1>5. CASE /\ givenUp' = IF target[n] = 0 THEN givenUp ELSE givenUp \cup {cmd[n]}
           /\ pc' = [pc EXCEPT ![n] = IF target[n] = 0 THEN "idle" ELSE "snapshot"]
           /\ upto' = upto
  <2>1. /\ givenUp \subseteq givenUp' /\ givenUp' \subseteq Commands
        /\ pc'[n] = "snapshot" => target[n] > 0 /\ cmd[n] \in givenUp'
        /\ pc'[n] \in {"idle", "snapshot"}
        /\ pc' \in [Nodes -> PCs] /\ \A m \in Nodes \ {n} : pc'[m] = pc[m]
    BY <1>1, <1>5 DEF PCs
  <2>2. TypeOK'
    BY <2>1, <1>1, <1>2, <1>5 DEF IInv, TypeOK, stores, handler, caches
  <2>3. \A m \in Nodes \ {n} : Same(m)
    BY <2>1, <1>2, <1>5 DEF Same, handler, caches
  <2>4. Knows(n)'
    BY <1>2, <1>5, QuietKnows DEF IInv, Knows, stores, handler, caches
  <2>5. Progress(n)'
    BY <2>1, <1>2, <1>3, <1>5 DEF Progress, Publishing, handler
  <2>6. Once'
    BY <2>1, <1>2, OnceKeeps DEF IInv, Early, stores, handler
  <2>7. QED
    BY <1>2, <2>1, <2>2, <2>3, <2>4, <2>5, <2>6, Quiet DEF IInv, stores
<1>6. QED
  BY <1>4, <1>5 DEF QueryUnpublished, Goto

\* A stored stream is given to the bus.
LEMMA BusFacts ==
  ASSUME IInv, NEW v \in DOMAIN log, bus' = Append(bus, [ver |-> v, cmd |-> log[v]]),
         UNCHANGED <<log, acked, givenUp>>
  PROVE  /\ bus' \in Seq(Streams)
         /\ Grow
         /\ Delivered(v)'
         /\ \A w : Delivered(w) => Delivered(w)'
         /\ PublishedIsStored' /\ AckedIsPublished'
<1> DEFINE e == [ver |-> v, cmd |-> log[v]]
<1>1. e \in Streams /\ e.ver = v /\ e.cmd = log[v]
  BY DEF Streams, IInv, TypeOK
<1>2. bus \in Seq(Streams)
  BY DEF Streams, IInv, TypeOK
<1>3. bus' = Append(bus, e)
  OBVIOUS
<1> HIDE DEF e
<1>4. /\ bus' \in Seq(Streams)
      /\ \A i \in DOMAIN bus : i \in DOMAIN bus' /\ bus'[i] = bus[i]
      /\ Len(bus) + 1 \in DOMAIN bus' /\ bus'[Len(bus) + 1] = e
  BY <1>1, <1>2, <1>3, AppendFacts
<1>5. Grow
  BY <1>1, <1>3 DEF Grow
<1>6. Delivered(v)' /\ \A w : Delivered(w) => Delivered(w)'
  BY <1>1, <1>4 DEF Delivered
<1>7. PublishedIsStored' /\ AckedIsPublished'
  BY <1>1, <1>3, <1>5, StoredKeeps, AckedKeeps DEF IInv
<1>8. QED
  BY <1>4, <1>5, <1>6, <1>7

LEMMA PublishStep ==
  ASSUME IInv, NEW n \in Nodes, NEW v \in DOMAIN log, v = pv[n] + 1,
         bus' = Append(bus, [ver |-> v, cmd |-> log[v]]),
         pv' = [pv EXCEPT ![n] = v],
         pc' \in [Nodes -> PCs], \A m \in Nodes \ {n} : pc'[m] = pc[m],
         Progress(n)', Once',
         UNCHANGED <<log, pubStore, snapshot, client, handler, target, upto, caches>>
  PROVE  IInv'
<1>1. /\ pv \in [Nodes -> Nat] /\ pubStore \in Int /\ v \in Nat /\ Len(log) \in Nat
      /\ DOMAIN log = 1..Len(log) /\ log \in Seq(Commands) /\ snapshot \in Seq(Commands)
      /\ pvCache[n] \in Int /\ pending[n] \in Seq(Nat)
  <2>1. TypeOK
    BY DEF IInv
  <2>2. pv \in [Nodes -> Nat] /\ pubStore \in Int /\ pvCache[n] \in Int /\ pending[n] \in Seq(Nat)
    BY <2>1 DEF TypeOK, NotCached
  <2>3. log \in Seq(Commands) /\ snapshot \in Seq(Commands)
    BY <2>1 DEF TypeOK
  <2>4. v \in Nat /\ Len(log) \in Nat /\ DOMAIN log = 1..Len(log)
    BY <2>3
  <2>5. QED
    BY <2>2, <2>3, <2>4
<1>2. /\ bus' \in Seq(Streams) /\ Grow
      /\ Delivered(v)' /\ \A w : Delivered(w) => Delivered(w)'
      /\ PublishedIsStored' /\ AckedIsPublished'
  BY BusFacts DEF client
<1>3. TypeOK'
  BY <1>1, <1>2 DEF IInv, TypeOK, Streams, client, handler, caches
<1>4. \A m \in Nodes \ {n} : Same(m)
  BY <1>1 DEF Same, handler, caches
<1>5. \A k \in Int : Covered(k) => Covered(k)'
  BY <1>2 DEF Covered
<1>6. Covered(v)'
  <2>1. v <= Len(log) /\ \A w \in 1..pv[n] : Delivered(w)
    BY <1>1 DEF IInv, Knows, Covered
  <2>2. pv[n] \in Nat
    BY <1>1
  <2>3. \A w \in 1..v : w \in 1..pv[n] \/ w = v
    BY <2>2, <1>1
  <2>4. QED
    BY <2>1, <2>3, <1>2 DEF Covered
<1>7. Knows(n)'
  <2>1. Covered(pv[n])'
    <3>1. pv'[n] = v
      BY <1>1
    <3>2. QED
      BY <3>1, <1>6 DEF Covered, Delivered
  <2>2. Covered(pvCache[n])' /\ \A i \in DOMAIN pending'[n] : Covered(pending[n][i])'
    <3>1. \A i \in DOMAIN pending[n] : pending[n][i] \in Int
      BY <1>1
    <3>2. Covered(pvCache[n]) /\ \A i \in DOMAIN pending[n] : Covered(pending[n][i])
      BY DEF IInv, Knows
    <3>3. QED
      BY <3>1, <3>2, <1>1, <1>5 DEF Covered, Delivered, caches
  <2>3. IsPrefixOfLog(agg[n])' /\ IsPrefixOfLog(cache[n])' /\ upto'[n] <= Len(log')
    BY DEF IInv, Knows, IsPrefixOfLog, handler, caches
  <2>4. QED
    BY <2>1, <2>2, <2>3 DEF Knows
<1>8. Covered(pubStore)' /\ IsPrefixOfLog(snapshot)'
  BY <1>1, <1>5 DEF IInv, Covered, Delivered, IsPrefixOfLog
<1>9. QED
  BY <1>2, <1>3, <1>4, <1>7, <1>8, OneNode DEF client
LEMMA ResendStep ==
  ASSUME IInv, NEW n \in Nodes, Resend(n)
  PROVE  IInv'
<1> DEFINE v == pv[n] + 1
<1>1. /\ pc[n] = "resend" /\ pv[n] < upto[n]
      /\ bus' = Append(bus, [ver |-> v, cmd |-> log[v]])
      /\ pv' = [pv EXCEPT ![n] = v]
      /\ \/ v < upto[n] /\ pc' = pc
         \/ v = upto[n] /\ target[n] = 0 /\ pc' = [pc EXCEPT ![n] = "idle"]
         \/ v = upto[n] /\ target[n] # 0 /\ pc' = [pc EXCEPT ![n] = "record"]
      /\ UNCHANGED <<log, pubStore, snapshot, client, handler, target, upto, caches>>
  BY DEF Resend, Goto
<1>2. /\ pc \in [Nodes -> PCs] /\ pv \in [Nodes -> Nat] /\ target[n] \in Nat
      /\ upto[n] \in Nat /\ log \in Seq(Commands)
  BY DEF IInv, TypeOK
<1>3. v \in DOMAIN log
  <2>1. upto[n] <= Len(log) /\ DOMAIN log = 1..Len(log) /\ Len(log) \in Nat
    BY <1>2 DEF IInv, Knows
  <2>2. QED
    BY <2>1, <1>1, <1>2
<1>4. pv'[n] = v /\ v \in Nat
  BY <1>1, <1>2
<1> HIDE DEF v
<1>5. pc' \in [Nodes -> PCs] /\ \A m \in Nodes \ {n} : pc'[m] = pc[m]
  BY <1>1, <1>2 DEF PCs
<1>6. Progress(n)'
  <2>1. Progress(n)
    BY DEF IInv
  <2>2. CASE pc' = pc
    BY <2>1, <2>2, <1>1, <1>2 DEF Progress, Publishing, handler
  <2>3. CASE pc' = [pc EXCEPT ![n] = "idle"]
    BY <2>3, <1>2 DEF Progress, Publishing
  <2>4. CASE v = upto[n] /\ target[n] # 0 /\ pc' = [pc EXCEPT ![n] = "record"]
    BY <2>1, <2>4, <1>1, <1>2, <1>4 DEF Progress, Publishing, handler
  <2>5. QED
    BY <2>2, <2>3, <2>4, <1>1
<1>7. Once'
  BY <1>1, <1>2, OnceKeeps DEF IInv, Early, client, handler
<1>8. v = pv[n] + 1
  BY DEF v
<1>9. QED
  BY <1>1, <1>3, <1>5, <1>6, <1>7, <1>8, PublishStep

LEMMA NothingToResendStep ==
  ASSUME IInv, NEW n \in Nodes, NothingToResend(n)
  PROVE  IInv'
<1>1. /\ pc[n] = "resend" /\ pv[n] >= upto[n]
      /\ \/ target[n] = 0 /\ pc' = [pc EXCEPT ![n] = "idle"]
         \/ target[n] # 0 /\ pc' = [pc EXCEPT ![n] = "publish"]
      /\ UNCHANGED <<stores, client, handler, publisher, caches>>
  BY DEF NothingToResend, Goto
<1>2. /\ pc \in [Nodes -> PCs] /\ pv[n] \in Nat /\ target[n] \in Nat /\ upto[n] \in Nat
  BY DEF IInv, TypeOK
<1>3. TypeOK'
  BY <1>1, <1>2 DEF IInv, TypeOK, PCs, stores, client, handler, publisher, caches
<1>4. \A m \in Nodes \ {n} : Same(m)
  BY <1>1, <1>2 DEF Same, handler, publisher, caches
<1>5. Knows(n)'
  BY <1>1, QuietKnows DEF IInv, Knows, stores, handler, publisher, caches
<1>6. Progress(n)'
  BY <1>1, <1>2 DEF IInv, Progress, Publishing, handler, publisher
<1>7. Once'
  BY <1>1, <1>2, OnceKeeps DEF IInv, Early, stores, client, handler
<1>8. QED
  BY <1>1, <1>3, <1>4, <1>5, <1>6, <1>7, Quiet DEF IInv, stores, client

LEMMA RecordStep ==
  ASSUME IInv, NEW n \in Nodes, Record(n)
  PROVE  IInv'
<1>1. /\ pc[n] = "record"
      /\ \/ pv[n] = target[n] /\ pc' = [pc EXCEPT ![n] = "snapshot"]
         \/ pv[n] # target[n] /\ pc' = [pc EXCEPT ![n] = "publish"]
      /\ pubStore' = pubStore \/ pubStore' = pv[n]
      /\ pending' = pending \/ pending' = [pending EXCEPT ![n] = Append(pending[n], pv[n])]
      /\ pvCache' = pvCache \/ pvCache' = [pvCache EXCEPT ![n] = pv[n]]
      /\ UNCHANGED <<log, bus, snapshot, client, handler, publisher, cache>>
  <2>1. pvCache \in [Nodes -> Nat \cup {NotCached}]
    BY DEF IInv, TypeOK
  <2>2. [pvCache EXCEPT ![n] = pvCache[n]] = pvCache
    BY <2>1
  <2>3. pvCache' = pvCache \/ pvCache' = [pvCache EXCEPT ![n] = pv[n]]
    BY <2>2 DEF Record
  <2>4. QED
    BY <2>3 DEF Record, Goto
<1>2. /\ pc \in [Nodes -> PCs] /\ pv[n] \in Nat /\ target[n] \in Nat /\ pubStore \in Nat
      /\ pending \in [Nodes -> Seq(Nat)] /\ pvCache \in [Nodes -> Nat \cup {NotCached}]
  BY DEF IInv, TypeOK
<1>3. /\ Append(pending[n], pv[n]) \in Seq(Nat)
      /\ DOMAIN Append(pending[n], pv[n]) = 1..(Len(pending[n]) + 1)
      /\ DOMAIN pending[n] = 1..Len(pending[n]) /\ Len(pending[n]) \in Nat
      /\ \A i \in DOMAIN pending[n] : Append(pending[n], pv[n])[i] = pending[n][i]
      /\ Append(pending[n], pv[n])[Len(pending[n]) + 1] = pv[n]
  BY <1>2, AppendFacts
<1>4. TypeOK'
  <2>1. pubStore' \in Nat /\ pending' \in [Nodes -> Seq(Nat)]
        /\ pvCache' \in [Nodes -> Nat \cup {NotCached}] /\ pc' \in [Nodes -> PCs]
    BY <1>1, <1>2, <1>3 DEF PCs
  <2>2. QED
    BY <2>1, <1>1 DEF IInv, TypeOK, client, handler, publisher
<1>5. \A m \in Nodes \ {n} : Same(m)
  BY <1>1, <1>2 DEF Same, handler, publisher
<1>6. Covered(pv[n]) /\ Covered(pvCache[n]) /\ Covered(pubStore)
      /\ \A i \in DOMAIN pending[n] : Covered(pending[n][i])
  BY DEF IInv, Knows
<1>7. Knows(n)'
  <2>1. Covered(pvCache'[n])
    BY <1>1, <1>2, <1>6
  <2>2. \A i \in DOMAIN pending'[n] : Covered(pending'[n][i])
    <3>1. \A i \in DOMAIN Append(pending[n], pv[n]) : Covered(Append(pending[n], pv[n])[i])
      BY <1>3, <1>6
    <3>2. pending'[n] = pending[n] \/ pending'[n] = Append(pending[n], pv[n])
      BY <1>1, <1>2
    <3>3. QED
      BY <3>1, <3>2, <1>6
  <2>3. QED
    BY <2>1, <2>2, <1>1, QuietKnows DEF IInv, Knows, handler, publisher
<1>8. Progress(n)'
  BY <1>1, <1>2 DEF IInv, Progress, Publishing, handler, publisher
<1>9. Once'
  BY <1>1, <1>2, OnceKeeps DEF IInv, Early, client, handler
<1>10. Covered(pubStore')
  BY <1>1, <1>6
<1>11. QED
  BY <1>1, <1>4, <1>5, <1>7, <1>8, <1>9, <1>10, Quiet DEF IInv, client

LEMMA PublishOwnStep ==
  ASSUME IInv, NEW n \in Nodes, PublishOwn(n)
  PROVE  IInv'
<1>1. /\ pc \in [Nodes -> PCs] /\ pv \in [Nodes -> Nat] /\ target[n] \in Nat
      /\ agg[n] \in Seq(Commands) /\ log \in Seq(Commands)
      /\ Len(agg[n]) \in Nat /\ Len(log) \in Nat
  BY DEF IInv, TypeOK
<1>2. /\ pc[n] = "publish"
      /\ UNCHANGED <<log, pubStore, snapshot, client, handler, target, upto, caches>>
  BY DEF PublishOwn
<1>3. /\ target[n] > 0 /\ target[n] = Len(agg[n]) /\ agg[n][target[n]] = cmd[n]
      /\ pv[n] >= target[n] - 1
  BY <1>2 DEF IInv, Progress, Publishing
<1>4. target[n] \in DOMAIN log /\ agg[n][target[n]] = log[target[n]]
  BY <1>1, <1>3 DEF IInv, Knows, IsPrefixOfLog
<1>5. CASE pv[n] = target[n] - 1
  <2>1. /\ bus' = Append(bus, [ver |-> target[n], cmd |-> log[target[n]]])
        /\ pv' = [pv EXCEPT ![n] = target[n]]
        /\ pc' = [pc EXCEPT ![n] = "record"]
    BY <1>5, <1>4 DEF PublishOwn, Goto
  <2>2. target[n] = pv[n] + 1
    BY <1>5, <1>1
  <2>3. pc' \in [Nodes -> PCs] /\ \A m \in Nodes \ {n} : pc'[m] = pc[m]
    BY <2>1, <1>1 DEF PCs
  <2>4. Progress(n)'
    BY <2>1, <1>1, <1>2, <1>3 DEF Progress, Publishing, handler
  <2>5. Once'
    BY <2>1, <1>1, <1>2, OnceKeeps DEF IInv, Early, client, handler
  <2>6. QED
    BY <2>1, <2>2, <2>3, <2>4, <2>5, <1>2, <1>4, PublishStep
<1>6. CASE pv[n] # target[n] - 1
  <2>1. pc' = [pc EXCEPT ![n] = "snapshot"] /\ UNCHANGED <<bus, pv>>
    BY <1>6 DEF PublishOwn, Goto
  <2>2. TypeOK'
    BY <2>1, <1>1, <1>2 DEF IInv, TypeOK, PCs, client, handler, caches
  <2>3. \A m \in Nodes \ {n} : Same(m)
    BY <2>1, <1>1, <1>2 DEF Same, handler, caches
  <2>4. Knows(n)'
    BY <2>1, <1>2, QuietKnows DEF IInv, Knows, handler, caches
  <2>5. Progress(n)'
    BY <2>1, <1>1, <1>2, <1>3, <1>6 DEF Progress, Publishing, handler
  <2>6. Once'
    BY <2>1, <1>1, <1>2, OnceKeeps DEF IInv, Early, client, handler
  <2>7. QED
    BY <2>1, <2>2, <2>3, <2>4, <2>5, <2>6, <1>2, Quiet DEF IInv, client
<1>7. QED
  BY <1>5, <1>6

LEMMA FinishStep ==
  ASSUME IInv, NEW n \in Nodes, Finish(n)
  PROVE  IInv'
<1>1. /\ pc \in [Nodes -> PCs] /\ pv[n] \in Nat /\ target[n] \in Nat
      /\ agg[n] \in Seq(Commands) /\ cmd[n] \in Commands /\ log \in Seq(Commands)
      /\ Len(agg[n]) \in Nat /\ Len(log) \in Nat /\ acked \subseteq Commands
  BY DEF IInv, TypeOK
<1>2. /\ pc[n] = "snapshot"
      /\ pc' = [pc EXCEPT ![n] = "idle"]
      /\ snapshot' = snapshot \/ snapshot' = agg[n]
      /\ acked' = acked \cup {cmd[n]}
      /\ UNCHANGED <<log, bus, pubStore, sends, crashes, givenUp, handler, publisher, caches>>
  BY DEF Finish, Goto
<1>3. /\ target[n] > 0 /\ target[n] = Len(agg[n]) /\ agg[n][target[n]] = cmd[n]
      /\ pv[n] >= target[n] \/ cmd[n] \in givenUp
  BY <1>2 DEF IInv, Progress, Publishing
<1>4. TypeOK'
  <2>1. snapshot' \in Seq(Commands)
    BY <1>1, <1>2 DEF IInv, TypeOK
  <2>2. QED
    BY <2>1, <1>1, <1>2 DEF IInv, TypeOK, PCs, handler, publisher, caches
<1>5. \A m \in Nodes \ {n} : Same(m)
  BY <1>1, <1>2 DEF Same, handler, publisher, caches
<1>6. Knows(n)'
  BY <1>2, QuietKnows DEF IInv, Knows, handler, publisher, caches
<1>7. Progress(n)'
  BY <1>1, <1>2 DEF Progress, Publishing
<1>8. Once'
  BY <1>1, <1>2, OnceKeeps DEF IInv, Early, handler
<1>9. Covered(pubStore)' /\ IsPrefixOfLog(snapshot)'
  BY <1>2 DEF IInv, Knows, Covered, Delivered, IsPrefixOfLog
<1>10. AckedIsPublished'
  <2>1. target[n] \in DOMAIN log /\ log[target[n]] = cmd[n]
    BY <1>1, <1>3 DEF IInv, Knows, IsPrefixOfLog
  <2>2. Delivered(target[n]) \/ cmd[n] \in givenUp
    <3>1. CASE pv[n] >= target[n]
      <4>1. target[n] \in 1..pv[n]
        BY <1>1, <1>3, <3>1
      <4>2. QED
        BY <4>1 DEF IInv, Knows, Covered
    <3>2. QED
      BY <3>1, <1>3
  <2>3. QED
    BY <2>1, <2>2, <1>2 DEF IInv, AckedIsPublished, Delivered
<1>11. PublishedIsStored' /\ Grow
  BY <1>2 DEF IInv, PublishedIsStored, Grow
<1>12. QED
  BY <1>2, <1>4, <1>5, <1>6, <1>7, <1>8, <1>9, <1>10, <1>11, OneNode
LEMMA FlushStep ==
  ASSUME IInv, NEW n \in Nodes, Flush(n)
  PROVE  IInv'
<1>1. /\ pending \in [Nodes -> Seq(Nat)] /\ pending[n] \in Seq(Nat)
      /\ log \in Seq(Commands)
  BY DEF IInv, TypeOK
<1>2. PICK k \in DOMAIN pending[n] :
        /\ \E i \in 1..k : pubStore' = pending[n][i]
        /\ pending' = [pending EXCEPT ![n] = SubSeq(pending[n], k + 1, Len(pending[n]))]
  BY DEF Flush
<1>3. UNCHANGED <<log, bus, snapshot, client, pc, handler, publisher, cache, pvCache>>
  BY DEF Flush
<1>4. PICK i \in DOMAIN pending[n] : pubStore' = pending[n][i]
  BY <1>1, <1>2
<1> DEFINE rest == SubSeq(pending[n], k + 1, Len(pending[n]))
<1>5. /\ rest \in Seq(Nat)
      /\ \A j \in DOMAIN rest : \E l \in DOMAIN pending[n] : rest[j] = pending[n][l]
  BY <1>1, DropFacts
<1>6. pending' = [pending EXCEPT ![n] = rest]
  BY <1>2
<1> HIDE DEF rest
<1>7. TypeOK'
  <2>1. pubStore' \in Nat /\ pending' \in [Nodes -> Seq(Nat)]
    <3>1. pubStore' \in Nat
      BY <1>1, <1>4
    <3>2. pending' \in [Nodes -> Seq(Nat)]
      BY <1>1, <1>5, <1>6
    <3>3. QED
      BY <3>1, <3>2
  <2>2. QED
    BY <2>1, <1>3 DEF IInv, TypeOK, client, handler, publisher
<1>8. \A m \in Nodes \ {n} : Same(m)
  BY <1>1, <1>3, <1>6 DEF Same, handler, publisher
<1>9. \A j \in DOMAIN pending[n] : Covered(pending[n][j])
  BY DEF IInv, Knows
<1>10. Knows(n)'
  <2>1. \A j \in DOMAIN pending'[n] : Covered(pending'[n][j])
    BY <1>1, <1>5, <1>6, <1>9
  <2>2. QED
    BY <2>1, <1>3, QuietKnows DEF IInv, Knows, handler, publisher
<1>11. Progress(n)'
  BY <1>3 DEF IInv, Progress, client, handler, publisher
<1>12. Once'
  BY <1>3, OnceKeeps DEF IInv, client, handler
<1>13. Covered(pubStore')
  BY <1>2, <1>4, <1>9
<1>14. QED
  BY <1>3, <1>7, <1>8, <1>10, <1>11, <1>12, <1>13, Quiet DEF IInv, client

LEMMA ExpireStep ==
  ASSUME IInv, NEW n \in Nodes, Expire(n)
  PROVE  IInv'
<1>1. /\ cache' = [cache EXCEPT ![n] = <<>>]
      /\ UNCHANGED <<stores, client, pc, handler, publisher, pvCache, pending>>
  BY DEF Expire
<1>2. cache \in [Nodes -> Seq(Commands)] /\ log \in Seq(Commands)
  BY DEF IInv, TypeOK
<1>3. <<>> \in Seq(Commands) /\ IsPrefixOfLog(<<>>)
  BY <1>2 DEF IsPrefixOfLog
<1>4. TypeOK'
  BY <1>1, <1>2, <1>3 DEF IInv, TypeOK, stores, client, handler, publisher
<1>5. \A m \in Nodes \ {n} : Same(m)
  BY <1>1, <1>2 DEF Same, handler, publisher
<1>6. Knows(n)'
  <2>1. IsPrefixOfLog(cache'[n])
    BY <1>1, <1>2, <1>3
  <2>2. QED
    BY <2>1, <1>1, QuietKnows DEF IInv, Knows, stores, handler, publisher
<1>7. Progress(n)'
  BY <1>1 DEF IInv, Progress, client, handler, publisher
<1>8. Once'
  BY <1>1, OnceKeeps DEF IInv, stores, client, handler
<1>9. QED
  BY <1>1, <1>4, <1>5, <1>6, <1>7, <1>8, Quiet DEF IInv, stores, client

LEMMA CrashStep ==
  ASSUME IInv, NEW n \in Nodes, Crash(n)
  PROVE  IInv'
<1>1. /\ crashes < MaxCrashes /\ crashes' = crashes + 1
      /\ pc' = [pc EXCEPT ![n] = "idle"]
      /\ cache' = [cache EXCEPT ![n] = <<>>]
      /\ pvCache' = [pvCache EXCEPT ![n] = NotCached]
      /\ pending' = [pending EXCEPT ![n] = <<>>]
      /\ UNCHANGED <<stores, sends, acked, givenUp, handler, publisher>>
  BY DEF Crash, Goto
<1>2. /\ pc \in [Nodes -> PCs] /\ cache \in [Nodes -> Seq(Commands)]
      /\ pvCache \in [Nodes -> Nat \cup {NotCached}] /\ pending \in [Nodes -> Seq(Nat)]
      /\ crashes \in 0..MaxCrashes /\ log \in Seq(Commands)
  BY DEF IInv, TypeOK
<1>3. /\ <<>> \in Seq(Commands) /\ <<>> \in Seq(Nat) /\ DOMAIN <<>> = {}
      /\ IsPrefixOfLog(<<>>) /\ Covered(NotCached)
  BY <1>2 DEF IsPrefixOfLog, Covered, NotCached
<1>4. TypeOK'
  <2>1. pc' \in [Nodes -> PCs] /\ crashes' \in 0..MaxCrashes
    BY <1>1, <1>2 DEF PCs
  <2>2. cache' \in [Nodes -> Seq(Commands)] /\ pending' \in [Nodes -> Seq(Nat)]
        /\ pvCache' \in [Nodes -> Nat \cup {NotCached}]
    BY <1>1, <1>2, <1>3
  <2>3. QED
    BY <2>1, <2>2, <1>1 DEF IInv, TypeOK, stores, handler, publisher
<1>5. \A m \in Nodes \ {n} : Same(m)
  BY <1>1, <1>2 DEF Same, handler, publisher
<1>6. Knows(n)'
  <2>1. cache'[n] = <<>> /\ pvCache'[n] = NotCached /\ pending'[n] = <<>>
    BY <1>1, <1>2
  <2>2. QED
    BY <2>1, <1>1, <1>3, QuietKnows DEF IInv, Knows, stores, handler, publisher
<1>7. Progress(n)'
  BY <1>1, <1>2 DEF Progress, Publishing
<1>8. Once'
  BY <1>1, <1>2, OnceKeeps DEF IInv, Early, stores, handler
<1>9. QED
  BY <1>1, <1>4, <1>5, <1>6, <1>7, <1>8, Quiet DEF IInv, stores

-----------------------------------------------------------------------------
(* The inductive invariant and what follows from it.                       *)

LEMMA IInvInit == Init => IInv
<1> SUFFICES ASSUME Init PROVE IInv
  OBVIOUS
<1>1. TypeOK
  <2>1. <<>> \in Seq(Commands) /\ <<>> \in Seq([ver : Nat, cmd : Commands])
        /\ <<>> \in Seq(Nat)
    OBVIOUS
  <2>2. QED
    BY <2>1 DEF Init, TypeOK, PCs, NotCached
<1>2. /\ log = <<>> /\ bus = <<>> /\ pubStore = 0 /\ snapshot = <<>> /\ acked = {}
      /\ \A n \in Nodes : /\ pc[n] = "idle" /\ agg[n] = <<>> /\ cache[n] = <<>>
                          /\ pv[n] = 0 /\ upto[n] = 0 /\ pvCache[n] = -1
                          /\ pending[n] = <<>>
  BY DEF Init, NotCached
<1>3. /\ Len(<<>>) = 0 /\ DOMAIN <<>> = {}
  OBVIOUS
<1>4. IsPrefixOfLog(<<>>) /\ Covered(0) /\ Covered(-1)
  BY <1>2, <1>3 DEF IsPrefixOfLog, Covered
<1>5. ASSUME NEW n \in Nodes PROVE Knows(n)
  <2>1. IsPrefixOfLog(agg[n]) /\ IsPrefixOfLog(cache[n])
    BY <1>2, <1>4
  <2>2. Covered(pv[n]) /\ Covered(pvCache[n])
    <3>1. pv[n] = 0 /\ pvCache[n] = -1
      BY <1>2
    <3>2. QED
      BY <3>1, <1>4
  <2>3. pending[n] = <<>> /\ upto[n] = 0 /\ Len(log) = 0
    BY <1>2, <1>3
  <2>4. QED
    BY <2>1, <2>2, <2>3, <1>3 DEF Knows
<1>6. \A n \in Nodes : Progress(n)
  BY <1>2 DEF Progress, Publishing
<1>7. PublishedIsStored /\ AckedIsPublished
  BY <1>2, <1>3 DEF PublishedIsStored, AckedIsPublished
<1>8. Once
  BY <1>2, <1>3 DEF Once, Early
<1>9. QED
  BY <1>1, <1>2, <1>4, <1>5, <1>6, <1>7, <1>8 DEF IInv

LEMMA IInvStep ==
  ASSUME NoResendsToSaver, IInv, [Next]_vars
  PROVE  IInv'
<1>1. ASSUME NEW n \in Nodes, NEW c \in Commands, Deliver(n, c) PROVE IInv'
  BY <1>1, DeliverStep
<1>2. ASSUME NEW n \in Nodes, HandlerStep(n) PROVE IInv'
  BY <1>2, LoadStep, QueryStep, RunStep, AppendStoredStep, AppendDuplicateStep,
     AppendUnexpectedStep, AppendFailsStep, ReadPublishedStep, QueryUnpublishedStep,
     ResendStep, NothingToResendStep, RecordStep, PublishOwnStep, FinishStep
  DEF HandlerStep
<1>3. ASSUME NEW n \in Nodes, Flush(n) \/ Expire(n) \/ Crash(n) PROVE IInv'
  BY <1>3, FlushStep, ExpireStep, CrashStep
<1>4. CASE UNCHANGED vars
  <2>1. UNCHANGED <<log, bus, pubStore, snapshot, sends, acked, crashes, givenUp, pc, cmd, agg, pv,
                    target, upto, cache, pvCache, pending>>
    BY <1>4 DEF vars, stores, client, handler, publisher, caches
  <2>2. TypeOK' /\ IsPrefixOfLog(snapshot)' /\ Covered(pubStore)'
    BY <2>1 DEF IInv, TypeOK, IsPrefixOfLog, Covered, Delivered
  <2>3. PublishedIsStored' /\ AckedIsPublished'
    BY <2>1 DEF IInv, PublishedIsStored, AckedIsPublished, Delivered
  <2>4. \A n \in Nodes : Knows(n)' /\ Progress(n)'
    BY <2>1 DEF IInv, Knows, Progress, IsPrefixOfLog, Covered, Delivered
  <2>5. Once'
    BY <2>1, OnceKeeps DEF IInv
  <2>6. QED
    BY <2>2, <2>3, <2>4, <2>5 DEF IInv
<1>5. QED
  BY <1>1, <1>2, <1>3, <1>4 DEF Next

LEMMA IInvAlways ==
  ASSUME NoResendsToSaver
  PROVE  Spec => []IInv
<1>1. IInv /\ [Next]_vars => IInv'
  BY IInvStep
<1>2. QED
  BY <1>1, IInvInit, PTL DEF Spec

(* Every variable keeps its type. *)
THEOREM TypeCorrect ==
  ASSUME NoResendsToSaver
  PROVE  Spec => []TypeOK
<1>1. IInv => TypeOK
  BY DEF IInv
<1>2. QED
  BY <1>1, IInvAlways, PTL

(* Every published stream is in the event store, unless a command reaches   *)
(* an EventStoreSaver a second time.                                       *)
THEOREM PublishedIsStoredCorrect ==
  ASSUME NoResendsToSaver
  PROVE  Spec => []PublishedIsStored
<1>1. IInv => PublishedIsStored
  BY DEF IInv
<1>2. QED
  BY <1>1, IInvAlways, PTL

(* What the published store and its savers' caches say is published has     *)
(* been given to the bus.                                                  *)
THEOREM PublishedVersionsAreDeliveredCorrect ==
  ASSUME NoResendsToSaver
  PROVE  Spec => []PublishedVersionsAreDelivered
<1>1. IInv => PublishedVersionsAreDelivered
  BY DEF IInv, Knows, Covered, PublishedVersionsAreDelivered
<1>2. QED
  BY <1>1, IInvAlways, PTL

(* Save returns nil only for commands whose stream is stored, and on the bus *)
(* unless its Publish gave up on earlier streams that cannot be converted.  *)
THEOREM AckedIsPublishedCorrect ==
  ASSUME NoResendsToSaver
  PROVE  Spec => []AckedIsPublished
<1>1. IInv => AckedIsPublished
  BY DEF IInv
<1>2. QED
  BY <1>1, IInvAlways, PTL

(* Cached aggregates and snapshots are prefixes of the event store. *)
THEOREM CachesArePrefixesCorrect ==
  ASSUME NoResendsToSaver
  PROVE  Spec => []CachesArePrefixes
<1>1. IInv => CachesArePrefixes
  BY DEF IInv, Knows, CachesArePrefixes
<1>2. QED
  BY <1>1, IInvAlways, PTL
\* A step stores a stream, or puts a stored one on the bus after all before it.
LEMMA FeedStep ==
  ASSUME IInv, [Next]_vars
  PROVE  [Feed!Next]_(Feed!vars)
<1>1. ASSUME UNCHANGED <<log, bus>> PROVE [Feed!Next]_(Feed!vars)
  BY <1>1 DEF Feed!vars
<1>2. /\ log \in Seq(Commands) /\ cmd \in [Nodes -> Commands] /\ pv \in [Nodes -> Nat]
      /\ upto \in [Nodes -> Nat] /\ target \in [Nodes -> Nat]
      /\ agg \in [Nodes -> Seq(Commands)]
      /\ Len(log) \in Nat /\ DOMAIN log = 1..Len(log)
  BY DEF IInv, TypeOK
<1>3. ASSUME NEW n \in Nodes, log' = Append(log, cmd[n]), bus' = bus
      PROVE  Feed!Next
  BY <1>2, <1>3 DEF Feed!Next, Feed!Store
<1>4. ASSUME NEW v \in DOMAIN log, \A w \in 1..(v - 1) : Delivered(w),
             bus' = Append(bus, [ver |-> v, cmd |-> log[v]]), log' = log
      PROVE  Feed!Next
  BY <1>4 DEF Feed!Next, Feed!Deliver, Feed!Delivered, Delivered
<1>5. ASSUME NEW n \in Nodes, HandlerStep(n) PROVE [Feed!Next]_(Feed!vars)
  <2>1. CASE Load(n) \/ Query(n) \/ Run(n) \/ AppendDuplicate(n) \/ AppendUnexpected(n)
               \/ ReadPublished(n) \/ QueryUnpublished(n) \/ NothingToResend(n)
               \/ Record(n) \/ Finish(n)
    <3>1. UNCHANGED <<log, bus>>
      BY <2>1 DEF Load, Query, Run, AppendDuplicate, AppendUnexpected, ReadPublished,
                  QueryUnpublished, NothingToResend, Record, Finish, stores
    <3>2. QED
      BY <3>1, <1>1
  <2>2. CASE AppendStored(n) \/ AppendFails(n)
    <3>1. bus' = bus /\ (log' = log \/ log' = Append(log, cmd[n]))
      BY <2>2 DEF AppendStored, AppendFails
    <3>2. QED
      BY <3>1, <1>1, <1>3
  <2>3. CASE Resend(n)
    <3>1. /\ pv[n] < upto[n] /\ log' = log
          /\ bus' = Append(bus, [ver |-> pv[n] + 1, cmd |-> log[pv[n] + 1]])
      BY <2>3 DEF Resend
    <3>2. upto[n] <= Len(log) /\ \A w \in 1..pv[n] : Delivered(w)
      BY DEF IInv, Knows, Covered
    <3>3. /\ pv[n] + 1 \in DOMAIN log
          /\ \A w \in 1..((pv[n] + 1) - 1) : Delivered(w)
      BY <3>1, <3>2, <1>2
    <3>4. QED
      BY <3>1, <3>3, <1>4
  <2>4. CASE PublishOwn(n)
    <3>1. CASE UNCHANGED <<log, bus>>
      BY <3>1, <1>1
    <3>2. CASE pv[n] = target[n] - 1
      <4>1. pc[n] = "publish" /\ log' = log
            /\ bus' = Append(bus, [ver |-> target[n], cmd |-> agg[n][target[n]]])
        BY <2>4, <3>2 DEF PublishOwn
      <4>2. target[n] > 0 /\ target[n] = Len(agg[n])
        BY <4>1 DEF IInv, Progress, Publishing
      <4>3. target[n] \in DOMAIN log /\ agg[n][target[n]] = log[target[n]]
        BY <4>2, <1>2 DEF IInv, Knows, IsPrefixOfLog
      <4>4. \A w \in 1..(target[n] - 1) : Delivered(w)
        BY <3>2 DEF IInv, Knows, Covered
      <4>5. QED
        BY <4>1, <4>3, <4>4, <1>4
    <3>3. QED
      BY <2>4, <3>1, <3>2 DEF PublishOwn
  <2>5. QED
    BY <1>5, <2>1, <2>2, <2>3, <2>4 DEF HandlerStep
<1>6. ASSUME NEW n \in Nodes, NEW c \in Commands, Deliver(n, c)
      PROVE  [Feed!Next]_(Feed!vars)
  BY <1>6, <1>1 DEF Deliver, stores
<1>7. ASSUME NEW n \in Nodes, Flush(n) \/ Expire(n) \/ Crash(n)
      PROVE  [Feed!Next]_(Feed!vars)
  BY <1>7, <1>1 DEF Flush, Expire, Crash, stores
<1>8. CASE UNCHANGED vars
  BY <1>8, <1>1 DEF vars, stores
<1>9. QED
  BY <1>5, <1>6, <1>7, <1>8 DEF Next

(* The repository and the publisher implement the event feed: whatever the  *)
(* nodes do and wherever they crash, the bus gets stored streams only, and *)
(* none before its predecessors.                                           *)
THEOREM ImplementsFeedCorrect ==
  ASSUME NoResendsToSaver
  PROVE  Spec => ImplementsFeed
<1>1. Init => Feed!Init
  BY DEF Init, Feed!Init
<1>2. IInv /\ [Next]_vars => [Feed!Next]_(Feed!vars)
  BY FeedStep
<1>3. QED
  BY <1>1, <1>2, IInvAlways, PTL DEF Spec, ImplementsFeed, Feed!Spec
=============================================================================
