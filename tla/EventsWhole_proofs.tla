------------------------- MODULE EventsWhole_proofs -------------------------
(***************************************************************************)
(* Nothing is dropped silently, for every value of the constants.          *)
(*                                                                         *)
(* The invariant follows a batch topic by topic: before a topic's statement  *)
(* each of its messages is rejected or has an event of its id among those    *)
(* about to be written; after it, each is settled in the open transaction    *)
(* or among the rejections; after the last topic, the whole batch is.  Then  *)
(* Commit makes it so in the committed tables, and FinishBatch, with the      *)
(* send buffer empty, adds the batch to the messages that are done.          *)
(***************************************************************************)
EXTENDS EventsQuery_proofs

LogInv == \A t \in Topics : \A i \in 1..Len(log[t]) : log[t][i].topic = t

TopicSettled(k) ==
    \A i \in Offsets(TopicOrder[k]) :
        Settled(log[TopicOrder[k]][i], BatchMsgs, tx, rejected)

TopicValidated ==
    \A i \in Offsets(Topic) :
        LET m == log[Topic][i]
        IN  \/ RejectedIn(rejected, m)
            \/ m.fault = "none" /\ \E j \in events : log[Topic][j].id = m.id

WholeInv ==
    /\ LogInv
    /\ pc \in {"validate", "lake", "sink"} => \A k \in 1..(turn - 1) : TopicSettled(k)
    /\ pc \in {"lake", "sink"} => TopicValidated
    /\ pc \in {"commit", "publish", "flush"} =>
          \A m \in BatchMsgs : Settled(m, BatchMsgs, tx, rejected)
    /\ pc = "flush" => rejected \subseteq outbox \cup dlqTopic \cup lost
    /\ NothingDropped

-----------------------------------------------------------------------------
(* Lemmas on the operators.                                                *)

LEMMA WrittenCases ==
    ASSUME NEW t, NEW m
    PROVE  /\ m.topic = SubscriberTopic =>
                 (Written(t, m) <=> \E s \in t.subs : s.key = m.key)
           /\ m.topic = TowerTopic =>
                 (Written(t, m) <=> \E s \in t.towers : s.key = m.key /\ s.ts >= m.ts)
           /\ m.topic \in FactTopics =>
                 (Written(t, m) <=>
                    \E f \in Stored(t.facts) : f.topic = m.topic /\ f.id = m.id)
<1>1. CASE m.topic = SubscriberTopic
  BY <1>1 DEF Written, SubscriberTopic, TowerTopic, FactTopics
<1>2. CASE m.topic = TowerTopic
  BY <1>2 DEF Written, SubscriberTopic, TowerTopic, FactTopics
<1>3. CASE m.topic \in FactTopics
  <2>1. m.topic # SubscriberTopic /\ m.topic # TowerTopic
    BY <1>3 DEF FactTopics
  <2> QED BY <1>3, <2>1 DEF Written
<1> QED BY <1>1, <1>2, <1>3

LEMMA WrittenMonotone ==
    ASSUME NEW t \in Tables, NEW u \in Tables, Extends(t, u),
           NEW m \in Msgs, Written(t, m)
    PROVE  Written(u, m)
<1>1. m.topic \in Topics
  BY MsgFacts
<1>2. CASE m.topic = SubscriberTopic
  BY <1>2, WrittenCases DEF Extends
<1>3. CASE m.topic = TowerTopic
  <2>1. PICK s \in t.towers : s.key = m.key /\ s.ts >= m.ts
    BY <1>3, WrittenCases
  <2>2. PICK r \in u.towers : r.key = s.key /\ r.ts >= s.ts
    BY DEF Extends
  <2>3. m.ts \in Nat /\ s.ts \in Nat /\ r.ts \in Nat
    BY MsgFacts DEF Tables
  <2>4. r.key = m.key /\ r.ts >= m.ts
    BY <2>1, <2>2, <2>3
  <2> QED BY <1>3, <2>4, WrittenCases
<1>4. CASE m.topic \in FactTopics
  BY <1>4, WrittenCases DEF Extends
<1> QED BY <1>1, <1>2, <1>3, <1>4 DEF FactTopics

\* A message once settled stays settled while tables and rejections grow.
LEMMA SettledMonotone ==
    ASSUME NEW t \in Tables, NEW u \in Tables, Extends(t, u),
           NEW S \in SUBSET Msgs, NEW S2 \in SUBSET Msgs, S \subseteq S2,
           NEW R, NEW R2, R \subseteq R2,
           NEW m \in Msgs, Settled(m, S, t, R)
    PROVE  Settled(m, S2, u, R2)
<1>1. \A n \in Msgs : RejectedIn(R, n) => RejectedIn(R2, n)
  BY DEF RejectedIn
<1>2. CASE RejectedIn(R, m)
  BY <1>1, <1>2 DEF Settled
<1>3. CASE ~RejectedIn(R, m)
  <2>1. PICK n \in S :
          /\ m.fault = "none" /\ n.topic = m.topic /\ n.id = m.id
          /\ Written(t, n) \/ RejectedIn(R, n) \/ DroppedByJoin(n)
    BY <1>3 DEF Settled
  <2>2. Written(u, n) \/ RejectedIn(R2, n) \/ DroppedByJoin(n)
    BY <1>1, <2>1, WrittenMonotone
  <2> QED BY <2>1, <2>2 DEF Settled
<1> QED BY <1>2, <1>3

\* Messages of the batch and of finished batches are messages.
LEMMA BatchAreMsgs ==
    ASSUME TypeOK
    PROVE  /\ BatchMsgs \in SUBSET Msgs /\ DoneMsgs \in SUBSET Msgs
           /\ \A t \in Topics : 1..done[t] \subseteq DOMAIN log[t]
           /\ \A t \in Topics : Offsets(t) \subseteq DOMAIN log[t]
<1>1. ASSUME NEW t \in Topics, NEW i \in 1..done[t]
      PROVE  i \in DOMAIN log[t] /\ log[t][i] \in Msgs
  <2>1. /\ log[t] \in Seq(Msgs) /\ done[t] \in Nat /\ planned[t] \in Nat
        /\ done[t] <= planned[t] /\ planned[t] <= Len(log[t])
    BY DEF TypeOK
  <2> QED BY <2>1
<1>2. DoneMsgs \in SUBSET Msgs
  BY <1>1 DEF DoneMsgs
<1>3. BatchMsgs \in SUBSET Msgs
  BY OffsetsAreLogged DEF BatchMsgs
<1> QED BY <1>1, <1>2, <1>3, OffsetsAreLogged

\* Publishing a message leaves the logs' older messages as they are.
LEMMA PublishAppends ==
    ASSUME TypeOK, NEW m \in Msgs, Publish(m)
    PROVE  \A t \in Topics :
              /\ \A i \in DOMAIN log[t] : log'[t][i] = log[t][i]
              /\ \A i \in 1..Len(log'[t]) :
                    i \in DOMAIN log[t] \/ (t = m.topic /\ log'[t][i] = m)
<1>1. log \in [Topics -> Seq(Msgs)] /\ m.topic \in Topics
  BY MsgFacts DEF TypeOK
<1> SUFFICES ASSUME NEW t \in Topics
             PROVE  /\ \A i \in DOMAIN log[t] : log'[t][i] = log[t][i]
                    /\ \A i \in 1..Len(log'[t]) :
                          i \in DOMAIN log[t] \/ (t = m.topic /\ log'[t][i] = m)
  OBVIOUS
<1>2. log[t] \in Seq(Msgs)
  BY <1>1
<1>3. log'[t] = IF t = m.topic THEN Append(log[t], m) ELSE log[t]
  BY <1>1 DEF Publish
<1> QED BY <1>2, <1>3

\* A finite set of offsets that is not empty has a least one.
LEMMA LeastOffset ==
    ASSUME TypeOK, NEW t \in Topics, NEW S \in SUBSET Offsets(t), S # {}
    PROVE  IsFiniteSet(S) /\ S \in SUBSET Nat /\ \E i \in S : \A j \in S : i <= j
<1>1. done[t] \in Nat /\ planned[t] \in Nat
  BY DEF TypeOK
<1>2. IsFiniteSet(Offsets(t)) /\ Offsets(t) \subseteq Nat
  <2> DEFINE a == done[t] + 1
             b == planned[t]
  <2>1. a \in Int /\ b \in Int /\ a..b \subseteq Nat
    BY <1>1
  <2>2. IsFiniteSet(a..b)
    <3> HIDE DEF a, b
    <3> QED BY <2>1, FS_Interval
  <2> QED BY <2>1, <2>2 DEF Offsets
<1>3. IsFiniteSet(S) /\ S \in SUBSET Nat
  BY <1>2, FS_Subset
<1> QED BY <1>3, FiniteHasBounds

-----------------------------------------------------------------------------
(* The statements: each event of the topic is settled by its statement.    *)

LEMMA EventFacts ==
    ASSUME TypeOK, WholeInv, pc \in {"lake", "sink"}, NEW i \in events
    PROVE  /\ Topic \in Topics /\ log[Topic][i] \in Msgs
           /\ log[Topic][i] \in At(events) /\ log[Topic][i] \in BatchMsgs
           /\ log[Topic][i].topic = Topic /\ i \in Nat
<1>1. Topic \in Topics /\ i \in Offsets(Topic)
  BY EventsAreMsgs DEF TypeOK
<1>2. log[Topic][i] \in Msgs /\ i \in Nat /\ i \in DOMAIN log[Topic]
  BY <1>1, OffsetsAreLogged
<1>3. i \in 1..Len(log[Topic])
  BY <1>1, <1>2 DEF TypeOK
<1> QED BY <1>1, <1>2, <1>3 DEF At, BatchMsgs, WholeInv, LogInv

LEMMA SubscribersWritten ==
    ASSUME TypeOK, WholeInv, UpsertSubscribers, NEW i \in events
    PROVE  Written(tx', log[Topic][i])
<1> DEFINE key(j) == log[Topic][j].key
           S == {j \in events : key(j) = key(i)}
<1>1. /\ pc = "sink" /\ Topic = SubscriberTopic /\ tx \in Tables
      /\ tx' = [tx EXCEPT !.subs = tx.subs \cup NewSubscribers]
  BY DEF UpsertSubscribers, TypeOK
<1>2. tx'.subs = tx.subs \cup NewSubscribers
  BY <1>1 DEF Tables
<1>3. PICK j \in S : \A k \in S : j <= k
  <2>1. Topic \in Topics /\ events \subseteq Offsets(Topic)
    BY <1>1, EventsAreMsgs DEF TypeOK
  <2>2. S \in SUBSET Offsets(Topic) /\ S # {}
    BY <2>1
  <2> HIDE DEF S
  <2> QED BY <2>1, <2>2, LeastOffset
<1>4. \A k \in events : k < j => key(k) # key(j)
  <2>1. \A k \in events : k \in Nat
    BY <1>1, EventFacts
  <2> QED BY <1>3, <2>1
<1>5. \E s \in tx'.subs : s.key = key(j)
  <2>1. CASE \E r \in tx.subs : r.key = key(j)
    BY <1>2, <2>1
  <2>2. CASE ~ \E r \in tx.subs : r.key = key(j)
    <3>1. log[Topic][j] \in NewSubscribers
      BY <1>3, <1>4, <2>2 DEF NewSubscribers, At
    <3> QED BY <1>2, <3>1
  <2> QED BY <2>1, <2>2
<1>6. log[Topic][i].topic = SubscriberTopic
  BY <1>1, EventFacts
<1> QED BY <1>3, <1>5, <1>6, WrittenCases

LEMMA StatusWritten ==
    ASSUME TypeOK, RowsInv, WholeInv, UpdateTowerStatus, NEW i \in events
    PROVE  Written(tx', log[Topic][i])
<1> DEFINE e(j) == log[Topic][j]
           S == {j \in events : e(j).key = e(i).key}
           times == {e(j).ts : j \in S}
<1>1. /\ pc = "sink" /\ Topic = TowerTopic /\ tx \in Tables
      /\ tx' = [tx EXCEPT !.towers = StatusUpserted(tx.towers, LatestStatus)]
  BY DEF UpdateTowerStatus, TypeOK
<1>2. tx'.towers = StatusUpserted(tx.towers, LatestStatus)
  BY <1>1 DEF Tables
<1>3. /\ Topic \in Topics /\ S \in SUBSET Offsets(Topic) /\ S # {}
      /\ \A j \in events : e(j) \in Msgs /\ e(j).ts \in Nat /\ j \in Nat
  BY <1>1, EventsAreMsgs, EventFacts, MsgFacts DEF TypeOK
<1>4. PICK hi \in times : \A x \in times : x <= hi
  <2>1. IsFiniteSet(S)
    <3> HIDE DEF S
    <3> QED BY <1>3, LeastOffset
  <2>2. IsFiniteSet(times)
    <3> DEFINE f == [j \in S |-> e(j).ts]
    <3>1. f \in Surjection(S, times)
      BY DEF Surjection
    <3> HIDE DEF f, S, times
    <3> QED BY <2>1, <3>1, FS_Surjection
  <2>3. times \in SUBSET Nat /\ times # {}
    BY <1>3
  <2> HIDE DEF times
  <2> QED BY <2>2, <2>3, FiniteHasBounds
<1> DEFINE T == {j \in S : e(j).ts = hi}
<1>5. PICK j \in T : \A k \in T : j <= k
  <2>1. T \in SUBSET Offsets(Topic) /\ T # {}
    BY <1>3, <1>4
  <2> HIDE DEF T
  <2> QED BY <1>3, <2>1, LeastOffset
<1>6. e(j) \in LatestStatus
  <2>1. ASSUME NEW k \in events, e(k).key = e(j).key
        PROVE  e(k).ts < e(j).ts \/ (e(k).ts = e(j).ts /\ j <= k)
    <3>1. k \in S /\ e(k).ts \in times /\ e(j).ts = hi
      BY <1>5, <2>1
    <3>2. e(k).ts <= hi /\ e(k).ts \in Nat /\ hi \in Nat
      BY <1>3, <1>4, <1>5, <3>1
    <3>3. CASE e(k).ts = hi
      BY <1>5, <3>1, <3>3
    <3>4. CASE e(k).ts # hi
      BY <3>1, <3>2, <3>4
    <3> QED BY <3>3, <3>4
  <2>2. j \in events
    BY <1>5
  <2> QED BY <2>1, <2>2 DEF LatestStatus, At
<1>7. e(i).ts <= e(j).ts /\ e(j).key = e(i).key
  BY <1>4, <1>5
<1>8. \E r \in tx'.towers : r.key = e(j).key /\ r.ts >= e(j).ts
  <2>1. \A r \in tx.towers : r.ts \in Nat
    BY <1>1, MsgFacts DEF Tables
  <2>2. e(j).ts \in Nat
    BY <1>3, <1>5
  <2>3. CASE \A r \in tx.towers : r.key = e(j).key => e(j).ts > r.ts
    <3>1. e(j) \in StatusUpserted(tx.towers, LatestStatus)
      BY <1>6, <2>3 DEF StatusUpserted
    <3> QED BY <1>2, <2>2, <3>1
  <2>4. CASE ~ \A r \in tx.towers : r.key = e(j).key => e(j).ts > r.ts
    <3>1. PICK r \in tx.towers : r.key = e(j).key /\ ~(e(j).ts > r.ts)
      BY <2>4
    <3>2. PICK s \in tx'.towers : s.key = r.key /\ s.ts >= r.ts
      BY TowersSound DEF Sound, Extends
    <3>3. s.ts \in Nat
      BY TowersSound, MsgFacts DEF Sound, Tables
    <3>4. s.key = e(j).key /\ s.ts >= e(j).ts
      BY <2>1, <2>2, <3>1, <3>2, <3>3
    <3> QED BY <3>4
  <2> QED BY <2>3, <2>4
<1>9. PICK r \in tx'.towers : r.key = e(j).key /\ r.ts >= e(j).ts
  BY <1>8
<1>10. r.ts \in Nat /\ e(i).ts \in Nat /\ e(j).ts \in Nat
  BY <1>3, <1>5, <1>9, TowersSound, MsgFacts DEF Sound, Tables
<1>11. r.key = e(i).key /\ r.ts >= e(i).ts
  BY <1>7, <1>9, <1>10
<1>12. e(i).topic = TowerTopic
  BY <1>1, EventFacts
<1> QED BY <1>9, <1>11, <1>12, WrittenCases

LEMMA FactStored ==
    ASSUME TypeOK, WholeInv, InsertFacts, NEW i \in Known, log[Topic][i].seeded
    PROVE  Written(tx', log[Topic][i])
<1> DEFINE n == log[Topic][i]
<1>1. /\ pc = "sink" /\ Topic \in FactTopics /\ i \in events
      /\ tx \in Tables /\ NewFacts \subseteq Msgs
  BY EventsAreMsgs DEF InsertFacts, Known, TypeOK, NewFacts
<1>2. n.topic = Topic /\ n \in Msgs
  BY <1>1, EventFacts
<1>3. Stored(tx.facts) \cup NewFacts \subseteq Stored(tx'.facts)
  <2> DEFINE facts2 == [m \in Msgs |-> tx.facts[m] + IF m \in NewFacts THEN 1 ELSE 0]
  <2>1. \A m \in Msgs : tx.facts[m] \in Nat
    BY <1>1 DEF Tables
  <2>2. Stored(tx.facts) \cup NewFacts \subseteq Stored(facts2)
    BY <1>1, <2>1 DEF Stored
  <2>3. tx' = [tx EXCEPT !.facts = facts2]
    BY DEF InsertFacts
  <2>4. tx'.facts = facts2
    <3> HIDE DEF facts2
    <3> QED BY <1>1, <2>3 DEF Tables
  <2> QED BY <2>2, <2>4
<1>4. \E f \in Stored(tx'.facts) : f.topic = n.topic /\ f.id = n.id
  <2>1. CASE \E f \in Stored(tx.facts) : f.topic = n.topic /\ f.id = n.id
    BY <1>3, <2>1
  <2>2. CASE \A f \in Stored(tx.facts) : f.topic = n.topic => f.id # n.id
    <3>1. n \in NewFacts
      BY <2>2 DEF NewFacts, At
    <3> QED BY <1>3, <3>1
  <2> QED BY <2>1, <2>2
<1> QED BY <1>1, <1>2, <1>4, WrittenCases

LEMMA FactWritten ==
    ASSUME TypeOK, WholeInv, InsertFacts, NEW i \in events
    PROVE  LET n == log[Topic][i]
           IN  Written(tx', n) \/ RejectedIn(rejected', n) \/ DroppedByJoin(n)
<1> DEFINE n == log[Topic][i]
<1>1. /\ pc = "sink" /\ Topic \in FactTopics
      /\ rejected' = rejected \cup
           {Reject(m, "subscriber_unknown") : m \in At(events \ Known)}
  BY DEF InsertFacts
<1>2. n.topic = Topic
  BY <1>1, EventFacts
<1>3. CASE i \notin Known
  <2>1. n \in At(events \ Known)
    BY <1>3 DEF At
  <2>2. Reject(n, "subscriber_unknown") \in rejected'
    BY <1>1, <2>1
  <2> QED BY <2>2 DEF RejectedIn, Reject
<1>4. CASE i \in Known /\ ~n.seeded
  BY <1>1, <1>2, <1>4 DEF DroppedByJoin
<1>5. CASE i \in Known /\ n.seeded
  BY <1>5, FactStored
<1> QED BY <1>3, <1>4, <1>5

\* What the three have in common: after its statement the topic is settled, and
\* the topics before it remain so.
LEMMA WholeSinks ==
    ASSUME TypeOK, TypeOK', RowsInv, WholeInv,
           UpsertSubscribers \/ UpdateTowerStatus \/ InsertFacts
    PROVE  WholeInv'
<1>1. /\ pc = "sink" /\ pc' = "validate" /\ turn' = turn + 1
      /\ UNCHANGED <<log, planned, done, db, dlqTopic, lost>>
      /\ rejected \subseteq rejected'
  BY DEF UpsertSubscribers, UpdateTowerStatus, InsertFacts, NextTopic, external,
         checkpoint, kafka
<1>2. /\ tx \in Tables /\ tx' \in Tables /\ Extends(tx, tx')
      /\ BatchMsgs \in SUBSET Msgs /\ turn \in 1..7
  BY <1>1, SubscribersSound, TowersSound, FactsSound, BatchAreMsgs DEF Sound, TypeOK
<1>3. BatchMsgs' = BatchMsgs /\ DoneMsgs' = DoneMsgs /\ LogInv'
      /\ \A t : Offsets(t)' = Offsets(t)
  BY <1>1 DEF BatchMsgs, DoneMsgs, Offsets, WholeInv, LogInv
<1>4. ASSUME NEW i \in events
      PROVE  LET n == log[Topic][i]
             IN  Written(tx', n) \/ RejectedIn(rejected', n) \/ DroppedByJoin(n)
  BY <1>4, SubscribersWritten, StatusWritten, FactWritten
<1>5. ASSUME NEW i \in Offsets(Topic)
      PROVE  Settled(log[Topic][i], BatchMsgs, tx', rejected')
  <2> DEFINE m == log[Topic][i]
  <2>1. TopicValidated
    BY <1>1 DEF WholeInv
  <2>2. CASE RejectedIn(rejected, m)
    BY <1>1, <2>2 DEF Settled, RejectedIn
  <2>3. CASE m.fault = "none" /\ \E j \in events : log[Topic][j].id = m.id
    <3>1. PICK j \in events : log[Topic][j].id = m.id
      BY <2>3
    <3>2. log[Topic][j] \in BatchMsgs /\ log[Topic][j].topic = Topic
      BY <1>1, EventFacts
    <3>3. m.topic = Topic
      <4>1. Topic \in Topics
        BY <1>1, EventsAreMsgs
      <4>2. i \in DOMAIN log[Topic]
        BY <4>1, OffsetsAreLogged
      <4>3. log[Topic] \in Seq(Msgs)
        BY <4>1 DEF TypeOK
      <4> QED BY <4>1, <4>2, <4>3 DEF WholeInv, LogInv
    <3> QED BY <1>4, <2>3, <3>1, <3>2, <3>3 DEF Settled
  <2> QED BY <2>1, <2>2, <2>3 DEF TopicValidated
<1>6. ASSUME NEW k \in 1..turn PROVE TopicSettled(k)'
  <2>1. SUFFICES ASSUME NEW i \in Offsets(TopicOrder[k])
                 PROVE  Settled(log[TopicOrder[k]][i], BatchMsgs, tx', rejected')
    BY <1>1, <1>3 DEF TopicSettled
  <2>2. CASE k = turn
    BY <1>5, <2>2 DEF Topic
  <2>3. CASE k # turn
    <3>1. k \in 1..(turn - 1) /\ k \in 1..7
      BY <1>2, <2>3
    <3>2. Settled(log[TopicOrder[k]][i], BatchMsgs, tx, rejected)
      BY <1>1, <3>1 DEF WholeInv, TopicSettled
    <3>3. log[TopicOrder[k]][i] \in Msgs
      BY <3>1, TopicOrderFacts, OffsetsAreLogged
    <3> QED BY <1>1, <1>2, <3>2, <3>3, SettledMonotone
  <2> QED BY <2>2, <2>3
<1>7. NothingDropped'
  BY <1>1, <1>3 DEF WholeInv, NothingDropped
<1>8. 1..(turn' - 1) = 1..turn
  BY <1>1, <1>2
<1> QED BY <1>1, <1>3, <1>6, <1>7, <1>8 DEF WholeInv

-----------------------------------------------------------------------------
(* The other actions.                                                      *)

LEMMA WholeInit == Init => WholeInv
<1> SUFFICES ASSUME Init PROVE WholeInv
  OBVIOUS
<1>1. /\ pc = "down"
      /\ \A t \in Topics : log[t] = <<>> /\ done[t] = 0
  BY DEF Init
<1>2. \A t \in Topics : 1..Len(log[t]) = {} /\ 1..done[t] = {}
  BY <1>1
<1>3. DoneMsgs = {}
  BY <1>2 DEF DoneMsgs
<1> QED BY <1>1, <1>2, <1>3 DEF WholeInv, LogInv, NothingDropped

LEMMA WholePublish ==
    ASSUME TypeOK, RowsInv, WholeInv, NEW m \in Msgs, Publish(m)
    PROVE  WholeInv'
<1>1. UNCHANGED <<planned, done, pc, turn, events, rejected, tx, db, outbox, dlqTopic, lost>>
  BY DEF Publish, checkpoint, locals, kafka
<1>2. \A t \in Topics : \A i \in DOMAIN log[t] : log'[t][i] = log[t][i]
  BY PublishAppends
<1>3. /\ \A t \in Topics : \A i \in Offsets(t) : log'[t][i] = log[t][i]
      /\ \A t \in Topics : \A i \in 1..done[t] : log'[t][i] = log[t][i]
  BY <1>2, BatchAreMsgs
<1>4. \A t : Offsets(t)' = Offsets(t)
  BY <1>1 DEF Offsets
<1>5. BatchMsgs' = BatchMsgs
  BY <1>3, <1>4 DEF BatchMsgs
<1>6. DoneMsgs' = DoneMsgs
  BY <1>1, <1>3 DEF DoneMsgs
<1>7. LogInv'
  <2> SUFFICES ASSUME NEW t \in Topics, NEW i \in 1..Len(log'[t])
               PROVE  log'[t][i].topic = t
    BY DEF LogInv
  <2>1. CASE i \in DOMAIN log[t]
    <3>1. log[t] \in Seq(Msgs)
      BY DEF TypeOK
    <3>2. log[t][i].topic = t
      BY <2>1, <3>1 DEF WholeInv, LogInv
    <3> QED BY <1>2, <2>1, <3>2
  <2>2. CASE i \notin DOMAIN log[t]
    BY <2>2, PublishAppends
  <2> QED BY <2>1, <2>2
<1>8. ASSUME pc \in {"validate", "lake", "sink"}, NEW k \in 1..(turn - 1)
      PROVE  TopicSettled(k)'
  <2>1. k \in 1..7 /\ TopicSettled(k)
    BY <1>8 DEF WholeInv, TypeOK
  <2>2. TopicOrder[k] \in Topics
    BY <2>1, TopicOrderFacts
  <2> QED BY <1>1, <1>3, <1>4, <1>5, <2>1, <2>2 DEF TopicSettled
<1>9. ASSUME pc \in {"lake", "sink"} PROVE TopicValidated'
  <2>1. Topic' = Topic /\ Topic \in Topics /\ events \subseteq Offsets(Topic)
    BY <1>1, <1>9, EventsAreMsgs DEF Topic, TypeOK
  <2>2. \A i \in Offsets(Topic) : log'[Topic][i] = log[Topic][i]
    BY <1>3, <2>1
  <2> QED BY <1>1, <1>4, <1>9, <2>1, <2>2 DEF WholeInv, TopicValidated
<1> QED BY <1>1, <1>5, <1>6, <1>7, <1>8, <1>9 DEF WholeInv, NothingDropped

\* Steps that leave log, checkpoint, locals and tables alone.
LEMMA WholeUnchanged ==
    ASSUME WholeInv,
           UNCHANGED <<log, planned, done, turn, events, rejected, tx, db, dlqTopic, lost>>,
           pc' = pc \/ {pc, pc'} \subseteq {"lake", "sink"} \/ pc' = "idle",
           pc' = "flush" => outbox' = outbox
    PROVE  WholeInv'
<1>1. UNCHANGED <<BatchMsgs, DoneMsgs, LogInv, Topic, NothingDropped>>
  BY DEF BatchMsgs, DoneMsgs, LogInv, Topic, Offsets, NothingDropped
<1>2. UNCHANGED TopicValidated
  BY <1>1 DEF TopicValidated, Offsets
<1>3. \A k : UNCHANGED TopicSettled(k)
  BY <1>1 DEF TopicSettled, Offsets
<1> QED BY <1>1, <1>2, <1>3 DEF WholeInv

LEMMA WholeBegin == ASSUME TypeOK, WholeInv, Begin PROVE WholeInv'
<1>1. /\ UNCHANGED <<log, planned, done, db, dlqTopic, lost>>
      /\ pc' = "validate" /\ turn' = 1
  BY DEF Begin, external, checkpoint, kafka
<1>2. UNCHANGED <<DoneMsgs, LogInv, NothingDropped>>
  BY <1>1 DEF DoneMsgs, LogInv, NothingDropped
<1>3. 1..(turn' - 1) = {}
  BY <1>1
<1> QED BY <1>1, <1>2, <1>3 DEF WholeInv

LEMMA WholePlan == ASSUME TypeOK, WholeInv, Plan PROVE WholeInv'
<1>1. UNCHANGED <<log, done, pc, db, dlqTopic, lost>> /\ pc = "idle"
  BY DEF Plan, external, kafka
<1>2. UNCHANGED <<DoneMsgs, LogInv, NothingDropped>>
  BY <1>1 DEF DoneMsgs, LogInv, NothingDropped
<1> QED BY <1>1, <1>2 DEF WholeInv

\* Each message of the topic is rejected or accepted, and for an accepted one
\* the first accepted message with its id is kept.
Refused == {i \in Offsets(Topic) : Verdict(log[Topic][i], clock) # ""}
Accepted == Offsets(Topic) \ Refused

LEMMA ValidateEffect ==
    ASSUME TypeOK, ValidateTopic
    PROVE  /\ UNCHANGED <<clock, log, planned, done, tx, db, dlqTopic, lost>>
           /\ pc = "validate" /\ turn \in 1..7
           /\ rejected' = rejected \cup
                {Reject(log[Topic][i], Verdict(log[Topic][i], clock)) : i \in Refused}
           /\ events' = Dedupe(Accepted)
           /\ \/ events' = {} /\ turn' = turn + 1 /\ pc' = "validate"
              \/ pc' = "lake" /\ turn' = turn
<1>1. pc = "validate" /\ turn <= 7 /\ turn \in 0..8 /\ turn # 0
  BY TopicOrderFacts DEF ValidateTopic, TypeOK
<1>2. turn \in 1..7
  BY <1>1
<1>3. UNCHANGED <<clock, log, planned, done, tx, db, dlqTopic, lost>>
  BY DEF ValidateTopic, external, checkpoint, kafka
<1>4. /\ rejected' = rejected \cup
           {Reject(log[Topic][i], Verdict(log[Topic][i], clock)) : i \in Refused}
      /\ events' = Dedupe(Accepted)
  BY DEF ValidateTopic, Refused, Accepted
<1>5. \/ events' = {} /\ turn' = turn + 1 /\ pc' = "validate"
      \/ pc' = "lake" /\ turn' = turn
  BY <1>1 DEF ValidateTopic
<1> QED BY <1>1, <1>2, <1>3, <1>4, <1>5

LEMMA ValidatedTopic ==
    ASSUME TypeOK, ValidateTopic, NEW i \in Offsets(Topic)
    PROVE  \/ RejectedIn(rejected', log[Topic][i])
           \/ /\ log[Topic][i].fault = "none"
              /\ \E j \in events' : log[Topic][j].id = log[Topic][i].id
<1>1. Topic \in Topics /\ log[Topic][i] \in Msgs
  <2>1. Topic \in Topics
    BY ValidateEffect, TopicOrderFacts DEF Topic
  <2> QED BY <2>1, OffsetsAreLogged
<1>2. CASE i \in Refused
  <2>1. Reject(log[Topic][i], Verdict(log[Topic][i], clock)) \in rejected'
    BY <1>2, ValidateEffect
  <2> QED BY <2>1 DEF RejectedIn, Reject
<1>3. CASE i \notin Refused
  <2>1. log[Topic][i].fault = "none"
    <3>1. Verdict(log[Topic][i], clock) = ""
      BY <1>3 DEF Refused
    <3> QED BY <1>1, <3>1, MsgsAssumption DEF Verdict, Faults
  <2> DEFINE S == {j \in Accepted : log[Topic][j].id = log[Topic][i].id}
  <2>2. S \in SUBSET Offsets(Topic) /\ i \in S
    BY <1>3 DEF Accepted
  <2>3. PICK j \in S : \A k \in S : j <= k
    <3> HIDE DEF S
    <3> QED BY <1>1, <2>2, LeastOffset
  <2>4. ASSUME NEW k \in Accepted, k < j PROVE log[Topic][k].id # log[Topic][j].id
    <3>1. k \in Offsets(Topic) /\ j \in Offsets(Topic)
      BY <2>2, <2>3 DEF Accepted
    <3>2. k \in Nat /\ j \in Nat
      BY <1>1, <3>1, OffsetsAreLogged
    <3>3. ~(j <= k)
      BY <2>4, <3>2
    <3>4. k \notin S
      <4> HIDE DEF S
      <4> QED BY <2>3, <3>3
    <3> QED BY <3>4
  <2>5. j \in Dedupe(Accepted)
    BY <2>3, <2>4 DEF Dedupe
  <2> QED BY <2>1, <2>5, ValidateEffect
<1> QED BY <1>2, <1>3

LEMMA WholeValidate == ASSUME TypeOK, WholeInv, ValidateTopic PROVE WholeInv'
<1>1. /\ UNCHANGED <<log, planned, done, tx, db, dlqTopic, lost>>
      /\ pc = "validate" /\ turn \in 1..7 /\ rejected \subseteq rejected'
      /\ \/ events' = {} /\ turn' = turn + 1 /\ pc' = "validate"
         \/ pc' = "lake" /\ turn' = turn
  BY ValidateEffect
<1>2. UNCHANGED <<BatchMsgs, DoneMsgs, LogInv>> /\ \A t : Offsets(t)' = Offsets(t)
  BY <1>1 DEF BatchMsgs, DoneMsgs, LogInv, Offsets
<1>3. LogInv' /\ NothingDropped'
  BY <1>1, <1>2 DEF WholeInv, NothingDropped
<1>4. BatchMsgs \in SUBSET Msgs /\ tx \in Tables /\ Extends(tx, tx)
  BY BatchAreMsgs, ExtendsItself DEF TypeOK
<1>5. ASSUME NEW k \in 1..(turn - 1) PROVE TopicSettled(k)'
  <2>1. k \in 1..7
    BY <1>1
  <2>2. TopicSettled(k)
    BY <1>1 DEF WholeInv
  <2>3. SUFFICES ASSUME NEW i \in Offsets(TopicOrder[k])
                 PROVE  Settled(log[TopicOrder[k]][i], BatchMsgs, tx, rejected')
    BY <1>1, <1>2 DEF TopicSettled
  <2>4. log[TopicOrder[k]][i] \in Msgs
    BY <2>1, TopicOrderFacts, OffsetsAreLogged
  <2>5. Settled(log[TopicOrder[k]][i], BatchMsgs, tx, rejected)
    BY <2>2 DEF TopicSettled
  <2> QED BY <1>1, <1>4, <2>4, <2>5, SettledMonotone
<1>6. CASE pc' = "lake"
  <2>1. Topic' = Topic /\ turn' = turn
    BY <1>1, <1>6 DEF Topic
  <2>2. TopicValidated'
    BY <1>1, <1>2, <2>1, ValidatedTopic DEF TopicValidated
  <2> QED BY <1>3, <1>5, <1>6, <2>1, <2>2 DEF WholeInv
<1>7. CASE pc' = "validate"
  <2>1. events' = {} /\ turn' = turn + 1
    BY <1>1, <1>7
  <2>2. \A i \in Offsets(Topic) : Settled(log[Topic][i], BatchMsgs, tx, rejected')
    BY <2>1, ValidatedTopic DEF Settled
  <2>3. ASSUME NEW k \in 1..turn PROVE TopicSettled(k)'
    <3>1. CASE k = turn
      <4>1. \A i \in Offsets(TopicOrder[k]) :
              Settled(log[TopicOrder[k]][i], BatchMsgs, tx, rejected')
        BY <2>2, <3>1 DEF Topic
      <4> QED BY <1>1, <1>2, <4>1 DEF TopicSettled
    <3>2. CASE k # turn
      <4>1. k \in 1..(turn - 1)
        BY <1>1, <3>2
      <4> QED BY <1>5, <4>1
    <3> QED BY <3>1, <3>2
  <2>4. 1..(turn' - 1) = 1..turn
    BY <1>1, <2>1
  <2> QED BY <1>3, <1>7, <2>3, <2>4 DEF WholeInv
<1> QED BY <1>1, <1>6, <1>7

\* After the last topic every message of the batch is settled.
LEMMA WholeRefresh == ASSUME TypeOK, WholeInv, RefreshRollups PROVE WholeInv'
<1>1. /\ tx'.subs = tx.subs /\ tx'.facts = tx.facts /\ tx'.towers = tx.towers
      /\ UNCHANGED <<log, planned, done, rejected, db, dlqTopic, lost>>
      /\ pc = "validate" /\ pc' = "commit" /\ turn = 8
  <2>1. turn > 7 /\ turn \in 0..8
    BY TopicOrderFacts DEF RefreshRollups, TypeOK
  <2> QED BY <2>1 DEF RefreshRollups, TypeOK, Tables, external, checkpoint, locals, kafka
<1>2. UNCHANGED <<BatchMsgs, DoneMsgs, LogInv, NothingDropped>>
  BY <1>1 DEF BatchMsgs, DoneMsgs, LogInv, Offsets, NothingDropped
<1>3. ASSUME NEW m \in BatchMsgs PROVE Settled(m, BatchMsgs, tx', rejected)
  <2>1. PICK t \in Topics : \E i \in Offsets(t) : m = log[t][i]
    BY DEF BatchMsgs
  <2>2. PICK k \in 1..7 : t = TopicOrder[k]
    BY DEF Topics, TopicOrder
  <2>3. TopicSettled(k)
    BY <1>1, <2>2 DEF WholeInv
  <2>4. Settled(m, BatchMsgs, tx, rejected)
    BY <2>1, <2>2, <2>3 DEF TopicSettled
  <2> QED BY <1>1, <2>4 DEF Settled, Written
<1> QED BY <1>1, <1>2, <1>3 DEF WholeInv

LEMMA WholeCommit == ASSUME TypeOK, RowsInv, WholeInv, Commit PROVE WholeInv'
<1>1. /\ UNCHANGED <<log, planned, done, rejected, tx, dlqTopic, lost>> /\ db' = tx
      /\ pc = "commit" /\ pc' = "publish"
  BY DEF Commit, external, checkpoint, locals, kafka
<1>2. UNCHANGED <<BatchMsgs, DoneMsgs, LogInv>>
  BY <1>1 DEF BatchMsgs, DoneMsgs, LogInv, Offsets
<1>3. NothingDropped'
  <2>1. /\ db \in Tables /\ tx \in Tables /\ Extends(db, tx)
        /\ DoneMsgs \in SUBSET Msgs
    BY BatchAreMsgs DEF TypeOK, RowsInv
  <2>2. ASSUME NEW m \in DoneMsgs
        PROVE  Settled(m, DoneMsgs, tx, dlqTopic \cup lost)
    BY <2>1, SettledMonotone DEF WholeInv, NothingDropped
  <2> QED BY <1>1, <1>2, <2>2 DEF NothingDropped
<1> QED BY <1>1, <1>2, <1>3 DEF WholeInv

LEMMA WholePublishRejections ==
    ASSUME TypeOK, WholeInv, PublishRejections
    PROVE  WholeInv'
<1>1. /\ UNCHANGED <<log, planned, done, rejected, tx, db, dlqTopic, lost>>
      /\ pc = "publish" /\ pc' = "flush" /\ outbox' = rejected
  BY DEF PublishRejections, external, checkpoint, locals
<1>2. UNCHANGED <<BatchMsgs, DoneMsgs, LogInv, NothingDropped>>
  BY <1>1 DEF BatchMsgs, DoneMsgs, LogInv, Offsets, NothingDropped
<1> QED BY <1>1, <1>2 DEF WholeInv

\* A record leaves the buffer for the topic, or for good: it is accounted for.
LEMMA WholeSender == ASSUME TypeOK, WholeInv, Deliver \/ LoseSend PROVE WholeInv'
<1>1. /\ UNCHANGED <<log, planned, done, pc, turn, events, rejected, tx, db>>
      /\ dlqTopic \cup lost \subseteq dlqTopic' \cup lost'
      /\ outbox \cup dlqTopic \cup lost \subseteq outbox' \cup dlqTopic' \cup lost'
  BY DEF Deliver, LoseSend, external, checkpoint, locals
<1>2. UNCHANGED <<BatchMsgs, DoneMsgs, LogInv, Topic>>
  BY <1>1 DEF BatchMsgs, DoneMsgs, LogInv, Topic, Offsets
<1>3. UNCHANGED TopicValidated /\ \A k : UNCHANGED TopicSettled(k)
  BY <1>1, <1>2 DEF TopicValidated, TopicSettled, Offsets
<1>4. NothingDropped'
  <2>1. db \in Tables /\ Extends(db, db) /\ DoneMsgs \in SUBSET Msgs
    BY BatchAreMsgs, ExtendsItself DEF TypeOK
  <2>2. ASSUME NEW m \in DoneMsgs
        PROVE  Settled(m, DoneMsgs, db, dlqTopic' \cup lost')
    BY <1>1, <2>1, SettledMonotone DEF WholeInv, NothingDropped
  <2> QED BY <1>1, <1>2, <2>2 DEF NothingDropped
<1> QED BY <1>1, <1>2, <1>3, <1>4 DEF WholeInv

LEMMA WholeFinish == ASSUME TypeOK, WholeInv, FinishBatch PROVE WholeInv'
<1>1. /\ UNCHANGED <<log, planned, db, dlqTopic, lost>> /\ done' = planned
      /\ pc = "flush" /\ pc' = "idle" /\ outbox = {} /\ tx = db
  BY DEF FinishBatch, TypeOK, external, kafka
<1>2. DoneMsgs' = DoneMsgs \cup BatchMsgs
  <2>1. \A t \in Topics : 1..planned[t] = (1..done[t]) \cup Offsets(t)
    BY DEF TypeOK, Offsets
  <2> QED BY <1>1, <2>1 DEF DoneMsgs, BatchMsgs
<1>3. /\ DoneMsgs \in SUBSET Msgs /\ BatchMsgs \in SUBSET Msgs
      /\ db \in Tables /\ Extends(db, db)
      /\ rejected \subseteq dlqTopic \cup lost
  BY <1>1, BatchAreMsgs, ExtendsItself DEF TypeOK, WholeInv
<1>4. ASSUME NEW m \in DoneMsgs
      PROVE  Settled(m, DoneMsgs \cup BatchMsgs, db, dlqTopic \cup lost)
  BY <1>3, SettledMonotone DEF WholeInv, NothingDropped
<1>5. ASSUME NEW m \in BatchMsgs
      PROVE  Settled(m, DoneMsgs \cup BatchMsgs, db, dlqTopic \cup lost)
  BY <1>1, <1>3, SettledMonotone DEF WholeInv
<1>6. NothingDropped'
  BY <1>1, <1>2, <1>4, <1>5 DEF NothingDropped
<1>7. UNCHANGED LogInv
  BY <1>1 DEF LogInv
<1> QED BY <1>1, <1>6, <1>7 DEF WholeInv

LEMMA WholeDown == ASSUME WholeInv, Down PROVE WholeInv'
<1>1. UNCHANGED <<log, done, db, dlqTopic, lost>> /\ pc' = "down"
  BY DEF Down, external, checkpoint
<1>2. UNCHANGED <<DoneMsgs, LogInv, NothingDropped>>
  BY <1>1 DEF DoneMsgs, LogInv, NothingDropped
<1> QED BY <1>1, <1>2 DEF WholeInv

LEMMA WholeStep ==
    TypeOK /\ TypeOK' /\ RowsInv /\ WholeInv /\ Moves => WholeInv'
<1> SUFFICES ASSUME TypeOK, TypeOK', RowsInv, WholeInv, Moves PROVE WholeInv'
  OBVIOUS
<1>1. CASE Tick \/ Start \/ WriteLake \/ UNCHANGED vars
  <2>1. /\ UNCHANGED <<log, planned, done, turn, events, rejected, tx, db, outbox,
                       dlqTopic, lost>>
        /\ pc' = pc \/ {pc, pc'} \subseteq {"lake", "sink"} \/ pc' = "idle"
    BY <1>1 DEF Tick, Start, WriteLake, vars, external, checkpoint, locals, kafka
  <2> QED BY <2>1, WholeUnchanged
<1>2. CASE SinkRaises \/ Crash \/ Exits
  BY <1>2, WholeDown DEF SinkRaises, Crash, Exits
<1> QED BY <1>1, <1>2, WholePublish, WholePlan, WholeBegin, WholeValidate, WholeSinks,
           WholeRefresh, WholeCommit, WholePublishRejections, WholeSender, WholeFinish
        DEF Moves, Next, DriverStep

-----------------------------------------------------------------------------
\* No message of a finished batch is dropped silently, whatever the messages,
\* the batches, the clock, the crashes and the exceptions: it is in the
\* warehouse, rejected, lost by the broker, or dropped by the join.
THEOREM NothingDroppedSilently == Spec => []NothingDropped
<1>1. WholeInv => NothingDropped
  BY DEF WholeInv
<1> QED BY TypeCorrect, RowsInit, RowsStep, WholeInit, WholeStep, NextMoves, <1>1, PTL
        DEF Spec

\* What is committed is the whole of a batch, never some of its topics.
THEOREM BatchesWhole == Spec => []CommittedWhole
<1>1. TypeOK /\ WholeInv => CommittedWhole
  BY DEF TypeOK, WholeInv, CommittedWhole
<1> QED BY TypeCorrect, RowsInit, RowsStep, WholeInit, WholeStep, NextMoves, <1>1, PTL
        DEF Spec
=============================================================================
