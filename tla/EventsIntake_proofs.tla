------------------------- MODULE EventsIntake_proofs -------------------------
(***************************************************************************)
(* The events query implements Intake, for every value of the constants.    *)
(*                                                                         *)
(* The steps Intake sees are Publish, Plan, Commit (Load), Deliver and        *)
(* LoseSend (Review) and FinishBatch; all the others, crashes and exceptions  *)
(* among them, are steps it does not see.  What is needed beyond the          *)
(* invariants of the other modules is where rows and records come from.      *)
(*                                                                         *)
(* From there, that no message is both accepted and rejected, and the query's *)
(* invariants taken together, for the pipeline to use.                      *)
(***************************************************************************)
EXTENDS EventsReplay_proofs, EventsIntake

RowTopics(t) ==
    /\ \A m \in t.subs : m.topic = SubscriberTopic
    /\ \A m \in t.towers : m.topic = TowerTopic
    /\ \A m \in Stored(t.facts) : m.topic \in FactTopics

IntakeInv ==
    /\ RowTopics(tx) /\ RowTopics(db)
    /\ Rows(tx) \subseteq Rows(db) \cup BatchMsgs
    /\ \A r \in rejected \cup outbox : r.msg \in BatchMsgs
    /\ outbox # {} => pc = "flush"

-----------------------------------------------------------------------------
(* IntakeInv is an invariant.                                              *)

LEMMA IntakeInit == Init => IntakeInv
<1> SUFFICES ASSUME Init PROVE IntakeInv
  OBVIOUS
<1>1. /\ tx = db /\ db.subs = {} /\ db.towers = {} /\ db.facts = [m \in Msgs |-> 0]
      /\ rejected = {} /\ outbox = {}
  BY DEF Init, EmptyTables, NoRows
<1>2. Stored(db.facts) = {}
  BY <1>1 DEF Stored
<1> QED BY <1>1, <1>2 DEF IntakeInv, RowTopics, Rows

LEMMA BatchStays ==
    ASSUME TypeOK, UNCHANGED <<planned, done>>,
           log' = log \/ \E m \in Msgs : Publish(m)
    PROVE  BatchMsgs' = BatchMsgs
<1>1. CASE log' = log
  BY <1>1 DEF BatchMsgs, Offsets
<1>2. CASE \E m \in Msgs : Publish(m)
  <2>1. \A t \in Topics : \A i \in Offsets(t) : log'[t][i] = log[t][i]
    BY <1>2, PublishAppends, BatchAreMsgs
  <2> QED BY <2>1, SameBatch
<1> QED BY <1>1, <1>2

\* Steps that add neither rows nor records.
LEMMA IntakeUnchanged ==
    ASSUME TypeOK, IntakeInv, UNCHANGED <<planned, done, db>>,
           log' = log \/ \E m \in Msgs : Publish(m),
           tx' = tx \/ tx' = db,
           rejected' \cup outbox' \subseteq rejected \cup outbox,
           outbox' # {} => pc' = "flush"
    PROVE  IntakeInv'
<1>1. BatchMsgs' = BatchMsgs
  BY BatchStays
<1>2. RowTopics(tx') /\ RowTopics(db') /\ Rows(tx') \subseteq Rows(db') \cup BatchMsgs
  BY DEF IntakeInv
<1> QED BY <1>1, <1>2 DEF IntakeInv, RowTopics, Rows, Stored

LEMMA IntakePlan == ASSUME TypeOK, IntakeInv, Plan PROVE IntakeInv'
<1>1. /\ UNCHANGED <<tx, db, rejected, outbox>> /\ pc' = pc /\ pc = "idle" /\ tx = db
      /\ rejected = {} /\ outbox = {}
  BY DEF Plan, TypeOK, IntakeInv, locals, kafka
<1> QED BY <1>1 DEF IntakeInv, RowTopics, Rows, Stored

LEMMA IntakeValidate == ASSUME TypeOK, IntakeInv, ValidateTopic PROVE IntakeInv'
<1>1. /\ UNCHANGED <<log, planned, done, tx, db, outbox>> /\ pc = "validate"
      /\ rejected' = rejected \cup
           {Reject(log[Topic][i], Verdict(log[Topic][i], clock)) : i \in Refused}
  BY ValidateEffect DEF ValidateTopic, kafka
<1>2. BatchMsgs' = BatchMsgs
  BY <1>1, BatchStays
<1>3. Topic \in Topics
  BY ValidateEffect, TopicOrderFacts DEF Topic
<1>4. ASSUME NEW i \in Refused PROVE log[Topic][i] \in BatchMsgs
  <2>1. i \in Offsets(Topic)
    BY DEF Refused
  <2>2. log[Topic][i] \in {log[Topic][j] : j \in Offsets(Topic)}
    BY <2>1
  <2> QED BY <1>3, <2>2 DEF BatchMsgs
<1>5. \A r \in rejected' : r.msg \in BatchMsgs
  <2>1. ASSUME NEW i \in Refused
        PROVE  Reject(log[Topic][i], Verdict(log[Topic][i], clock)).msg \in BatchMsgs
    BY <1>4 DEF Reject
  <2> QED BY <1>1, <2>1 DEF IntakeInv
<1>6. outbox' = {}
  BY <1>1 DEF IntakeInv
<1> QED BY <1>1, <1>2, <1>5, <1>6 DEF IntakeInv, RowTopics, Rows, Stored

\* Each statement writes rows of its topic into its tables.
LEMMA SinkTopics ==
    ASSUME TypeOK, RowsInv, WholeInv, RowTopics(tx),
           UpsertSubscribers \/ UpdateTowerStatus \/ InsertFacts
    PROVE  RowTopics(tx')
<1>1. /\ pc = "sink" /\ tx \in Tables
      /\ \A m \in At(events) : m.topic = Topic /\ m \in Msgs
  BY EventFacts DEF TypeOK, UpsertSubscribers, UpdateTowerStatus, InsertFacts, At
<1>2. CASE UpsertSubscribers
  <2>1. NewSubscribers \subseteq At(events)
    BY DEF NewSubscribers, At
  <2>2. /\ tx'.subs = tx.subs \cup NewSubscribers
        /\ tx'.towers = tx.towers /\ tx'.facts = tx.facts
    BY <1>1, <1>2 DEF UpsertSubscribers, Tables
  <2>3. Topic = SubscriberTopic
    BY <1>2 DEF UpsertSubscribers
  <2> QED BY <1>1, <2>1, <2>2, <2>3 DEF RowTopics
<1>3. CASE UpdateTowerStatus
  <2>1. StatusUpserted(tx.towers, LatestStatus) \subseteq tx.towers \cup At(events)
    BY DEF StatusUpserted, LatestStatus, At
  <2>2. tx' = [tx EXCEPT !.towers = StatusUpserted(tx.towers, LatestStatus)]
    BY <1>3 DEF UpdateTowerStatus
  <2>3. /\ tx'.towers = StatusUpserted(tx.towers, LatestStatus)
        /\ tx'.subs = tx.subs /\ tx'.facts = tx.facts
    BY <1>1, <2>2 DEF Tables
  <2>4. Topic = TowerTopic
    BY <1>3 DEF UpdateTowerStatus
  <2> QED BY <1>1, <2>1, <2>3, <2>4 DEF RowTopics
<1>4. CASE InsertFacts
  <2> DEFINE facts2 == [m \in Msgs |-> tx.facts[m] + IF m \in NewFacts THEN 1 ELSE 0]
  <2>1. NewFacts \subseteq At(events)
    BY <1>1, EventsAreMsgs DEF NewFacts
  <2>2. \A m \in Msgs : tx.facts[m] \in Nat
    BY <1>1 DEF Tables
  <2>3. Stored(facts2) \subseteq Stored(tx.facts) \cup NewFacts
    BY <2>2 DEF Stored
  <2>4. tx' = [tx EXCEPT !.facts = facts2]
    BY <1>4 DEF InsertFacts
  <2>5. tx'.facts = facts2 /\ tx'.subs = tx.subs /\ tx'.towers = tx.towers
    <3> HIDE DEF facts2
    <3> QED BY <1>1, <2>4 DEF Tables
  <2>6. Topic \in FactTopics
    BY <1>4 DEF InsertFacts
  <2> QED BY <1>1, <2>1, <2>3, <2>5, <2>6 DEF RowTopics
<1> QED BY <1>2, <1>3, <1>4

LEMMA IntakeSinks ==
    ASSUME TypeOK, RowsInv, WholeInv, IntakeInv,
           UpsertSubscribers \/ UpdateTowerStatus \/ InsertFacts
    PROVE  IntakeInv'
<1>1. /\ UNCHANGED <<log, planned, done, db, outbox>> /\ pc = "sink"
      /\ \/ rejected' = rejected
         \/ rejected' = rejected \cup
              {Reject(m, "subscriber_unknown") : m \in At(events \ Known)}
  BY DEF UpsertSubscribers, UpdateTowerStatus, InsertFacts, NextTopic, external,
         checkpoint, kafka
<1>2. BatchMsgs' = BatchMsgs
  BY <1>1, BatchStays
<1>3. At(events) \subseteq BatchMsgs
  BY <1>1, EventFacts DEF At
<1>4. \A r \in rejected' : r.msg \in BatchMsgs
  <2>1. At(events \ Known) \subseteq At(events)
    BY DEF At
  <2> QED BY <1>1, <1>3, <2>1 DEF IntakeInv, Reject
<1>5. Sound(tx, tx', At(events))
  BY SubscribersSound, TowersSound, FactsSound
<1>6. Rows(tx') \subseteq Rows(db) \cup BatchMsgs
  BY <1>3, <1>5 DEF Sound, Rows, IntakeInv
<1>7. RowTopics(tx')
  BY SinkTopics DEF IntakeInv
<1>8. outbox' = {}
  BY <1>1 DEF IntakeInv
<1> QED BY <1>1, <1>2, <1>4, <1>6, <1>7, <1>8 DEF IntakeInv, RowTopics, Rows, Stored

LEMMA IntakeRefresh == ASSUME TypeOK, IntakeInv, RefreshRollups PROVE IntakeInv'
<1>1. /\ tx'.subs = tx.subs /\ tx'.facts = tx.facts /\ tx'.towers = tx.towers
      /\ UNCHANGED <<log, planned, done, db, rejected, outbox>> /\ pc = "validate"
  BY DEF RefreshRollups, TypeOK, Tables, external, checkpoint, locals, kafka
<1>2. BatchMsgs' = BatchMsgs
  BY <1>1, BatchStays
<1>3. outbox' = {}
  BY <1>1 DEF IntakeInv
<1> QED BY <1>1, <1>2, <1>3 DEF IntakeInv, RowTopics, Rows, Stored

LEMMA IntakeCommit == ASSUME TypeOK, IntakeInv, Commit PROVE IntakeInv'
<1>1. /\ UNCHANGED <<tx, rejected, outbox>> /\ db' = tx /\ pc = "commit"
      /\ UNCHANGED <<log, planned, done>>
  BY DEF Commit, external, checkpoint, locals, kafka
<1>2. BatchMsgs' = BatchMsgs
  BY <1>1, BatchStays
<1>3. outbox' = {}
  BY <1>1 DEF IntakeInv
<1> QED BY <1>1, <1>2, <1>3 DEF IntakeInv, RowTopics, Rows, Stored

LEMMA IntakeFinish == ASSUME TypeOK, IntakeInv, FinishBatch PROVE IntakeInv'
<1>1. /\ UNCHANGED <<tx, db>> /\ tx = db /\ rejected' = {} /\ outbox' = {}
  BY DEF FinishBatch, TypeOK, kafka
<1> QED BY <1>1 DEF IntakeInv, RowTopics, Rows, Stored

LEMMA IntakeStep ==
    TypeOK /\ RowsInv /\ WholeInv /\ IntakeInv /\ Moves => IntakeInv'
<1> SUFFICES ASSUME TypeOK, RowsInv, WholeInv, IntakeInv, Moves PROVE IntakeInv'
  OBVIOUS
<1>1. CASE \/ \E m \in Msgs : Publish(m)
           \/ Tick \/ Start \/ Begin \/ WriteLake \/ PublishRejections
           \/ Deliver \/ LoseSend \/ UNCHANGED vars
  <2>1. /\ UNCHANGED <<planned, done, tx, db>>
        /\ log' = log \/ \E m \in Msgs : Publish(m)
    BY <1>1 DEF Publish, Tick, Start, Begin, WriteLake, PublishRejections, Deliver,
                LoseSend, vars, external, checkpoint
  <2>2. rejected' \cup outbox' \subseteq rejected \cup outbox
    BY <1>1 DEF Publish, Tick, Start, Begin, WriteLake, PublishRejections, Deliver,
                LoseSend, vars, locals, kafka
  <2>3. outbox' # {} => pc' = "flush"
    BY <1>1 DEF IntakeInv, Publish, Tick, Start, Begin, WriteLake, PublishRejections,
                Deliver, LoseSend, vars, locals, kafka
  <2> QED BY <2>1, <2>2, <2>3, IntakeUnchanged
<1>2. CASE SinkRaises \/ Crash \/ Exits
  <2>1. Down
    BY <1>2 DEF SinkRaises, Crash, Exits
  <2>2. /\ UNCHANGED <<log, planned, done, db>> /\ tx' = db
        /\ rejected' = {} /\ outbox' = {}
    BY <2>1 DEF Down, external, checkpoint
  <2> QED BY <2>2, IntakeUnchanged
<1> QED BY <1>1, <1>2, IntakePlan, IntakeValidate, IntakeSinks, IntakeRefresh,
           IntakeCommit, IntakeFinish
        DEF Moves, Next, DriverStep

-----------------------------------------------------------------------------
(* The mapping.                                                            *)

LEMMA StandsForWritten ==
    ASSUME NEW t, RowTopics(t), NEW m \in Msgs, Written(t, m)
    PROVE  \E s \in Rows(t) : I!Stands(s, m)
<1>1. m.topic \in Topics
  BY MsgFacts
<1>2. CASE m.topic = SubscriberTopic
  BY <1>2, WrittenCases DEF RowTopics, Rows, I!Stands
<1>3. CASE m.topic = TowerTopic
  BY <1>3, WrittenCases DEF RowTopics, Rows, I!Stands
<1>4. CASE m.topic \in FactTopics
  <2>1. m.topic \notin {SubscriberTopic, TowerTopic}
    BY <1>4 DEF FactTopics
  <2> QED BY <1>4, <2>1, WrittenCases DEF Rows, I!Stands
<1> QED BY <1>1, <1>2, <1>3, <1>4 DEF FactTopics

\* Tables with one row per key: no row stands for another.
LEMMA RowsDistinct ==
    ASSUME NEW t \in Tables, RowTopics(t), Keys(t),
           NEW r \in Rows(t), NEW s \in Rows(t), I!Stands(s, r)
    PROVE  s = r
<1>1. /\ \A m \in t.subs \cup t.towers \cup Stored(t.facts) : m \in Msgs
      /\ SubscriberTopic # TowerTopic
      /\ SubscriberTopic \notin FactTopics /\ TowerTopic \notin FactTopics
  BY DEF Tables, Stored, SubscriberTopic, TowerTopic, FactTopics
<1>2. s.topic = r.topic
  BY DEF I!Stands
<1>3. CASE r \in t.subs
  BY <1>1, <1>2, <1>3 DEF RowTopics, Rows, I!Stands, Keys, SubKeys
<1>4. CASE r \in t.towers
  BY <1>1, <1>2, <1>4 DEF RowTopics, Rows, I!Stands, Keys, TowerKeys
<1>5. CASE r \in Stored(t.facts)
  BY <1>1, <1>2, <1>5 DEF RowTopics, Rows, I!Stands, Keys, FactKeys
<1> QED BY <1>3, <1>4, <1>5 DEF Rows

LEMMA MapsInit == Init => I!Init
<1> SUFFICES ASSUME Init PROVE I!Init
  OBVIOUS
<1>1. Stored(db.facts) = {} /\ db.subs = {} /\ db.towers = {}
  BY DEF Init, EmptyTables, NoRows, Stored
<1> QED BY <1>1 DEF Init, I!Init, Rows

LEMMA MapsPublish == ASSUME NEW m \in Msgs, Publish(m) PROVE I!Publish
BY DEF Publish, I!Publish, checkpoint, kafka, history

LEMMA MapsPlan == ASSUME TypeOK, TypeOK', Plan PROVE I!Plan
<1>1. planned' # planned
  <2>1. PICK S \in (SUBSET UNION {{<<t, i>> : i \in Waiting(t)} : t \in Topics}) \ {{}} :
          planned' = [t \in Topics |->
             done[t] + Cardinality({i \in Waiting(t) : <<t, i>> \in S})]
    BY DEF Plan
  <2>2. PICK t \in Topics : \E j \in Waiting(t) : <<t, j>> \in S
    BY <2>1
  <2> DEFINE C == {i \in Waiting(t) : <<t, i>> \in S}
  <2>3. IsFiniteSet(C)
    <3> DEFINE a == done[t] + 1
               b == Len(log[t])
    <3>1. a \in Int /\ b \in Int
      BY DEF TypeOK
    <3>2. IsFiniteSet(a..b)
      <4> HIDE DEF a, b
      <4> QED BY <3>1, FS_Interval
    <3>3. C \subseteq a..b
      BY DEF Waiting
    <3> HIDE DEF a, b, C
    <3> QED BY <3>2, <3>3, FS_Subset
  <2>4. Cardinality(C) # 0 /\ Cardinality(C) \in Nat
    <3>1. C # {}
      BY <2>2
    <3> HIDE DEF C
    <3> QED BY <2>3, <3>1, FS_EmptySet, FS_CardinalityType
  <2>5. planned'[t] = done[t] + Cardinality(C)
    BY <2>1
  <2>6. planned[t] = done[t] /\ done[t] \in Nat
    BY DEF Plan, AllTaken, TypeOK
  <2> HIDE DEF C
  <2> QED BY <2>4, <2>5, <2>6
<1>2. UNCHANGED <<log, done, db, dlqTopic, lost>> /\ planned = done /\ applied' = FALSE
  BY DEF Plan, AllTaken, external, kafka
<1>3. \A t \in Topics : done[t] <= planned'[t] /\ planned'[t] <= Len(log[t])
  BY <1>2 DEF TypeOK
<1> QED BY <1>1, <1>2, <1>3 DEF I!Plan

LEMMA SameBatchMsgs == I!Batch = BatchMsgs
BY DEF I!Batch, BatchMsgs, Offsets

LEMMA MapsCommit ==
    ASSUME TypeOK, RowsInv, ReplayInv, IntakeInv, Commit
    PROVE  I!Load
<1>1. /\ UNCHANGED <<log, planned, done, dlqTopic, lost>> /\ db' = tx
      /\ pc = "commit" /\ applied' = TRUE /\ planned # done
      /\ db \in Tables /\ tx \in Tables
  BY DEF Commit, ReplayInv, TypeOK, external, checkpoint, kafka
<1>2. Rows(tx) \subseteq Rows(db) \cup I!Batch
  BY SameBatchMsgs DEF IntakeInv
<1>3. ASSUME NEW r \in Rows(db)
      PROVE  \/ r \in Rows(tx)
             \/ r.topic = TowerTopic /\ \E s \in Rows(tx) : I!Stands(s, r)
  <2>1. CASE r \in db.subs \cup Stored(db.facts)
    BY <2>1 DEF RowsInv, Extends, Rows
  <2>2. CASE r \in db.towers
    <3>1. PICK s \in tx.towers : s.key = r.key /\ s.ts >= r.ts
      BY <2>2 DEF RowsInv, Extends
    <3>2. r.topic = TowerTopic /\ s.topic = TowerTopic
      BY <2>2 DEF IntakeInv, RowTopics
    <3>3. s \in Rows(tx) /\ I!Stands(s, r)
      BY <3>1, <3>2 DEF Rows, I!Stands
    <3> QED BY <3>2, <3>3
  <2> QED BY <2>1, <2>2 DEF Rows
<1>4. \A r, s \in Rows(tx) : I!Stands(s, r) => s = r
  BY <1>1, RowsDistinct DEF IntakeInv, RowsInv
<1>5. ASSUME applied, I!Batch \subseteq {m \in Msgs : ~ClockDependent(m)}
      PROVE  Rows(tx) = Rows(db)
  <2>1. Timely
    BY <1>5, SameBatchMsgs DEF Timely
  <2> QED BY <1>5, <2>1 DEF ReplayInv
<1> QED BY <1>1, <1>2, <1>3, <1>4, <1>5 DEF I!Load

LEMMA MapsSender ==
    ASSUME ReplayInv, IntakeInv, Deliver \/ LoseSend
    PROVE  I!Review
<1>1. PICK r \in outbox : dlqTopic' \cup lost' = dlqTopic \cup lost \cup {r}
  BY DEF Deliver, LoseSend
<1>2. UNCHANGED <<log, planned, done, db, applied>>
  BY DEF Deliver, LoseSend, external, checkpoint, history
<1>3. planned # done /\ applied /\ r.msg \in I!Batch
  BY <1>1, SameBatchMsgs DEF IntakeInv, ReplayInv
<1>4. {q.msg : q \in dlqTopic' \cup lost'} = {q.msg : q \in dlqTopic \cup lost} \cup {r.msg}
  BY <1>1
<1> QED BY <1>2, <1>3, <1>4 DEF I!Review

LEMMA MapsFinish ==
    ASSUME TypeOK, WholeInv, ReplayInv, IntakeInv, FinishBatch
    PROVE  I!Finish
<1>1. /\ UNCHANGED <<log, planned, db, applied, dlqTopic, lost>> /\ done' = planned
      /\ pc = "flush" /\ outbox = {} /\ tx = db /\ BatchMsgs \subseteq Msgs
  BY BatchAreMsgs DEF FinishBatch, TypeOK, external, kafka, history
<1>2. planned # done /\ applied
  BY <1>1 DEF ReplayInv
<1>3. rejected \subseteq dlqTopic \cup lost
  BY <1>1 DEF WholeInv
<1> DEFINE reviewed == {r.msg : r \in dlqTopic \cup lost}
<1>4. ASSUME NEW m \in BatchMsgs, RejectedIn(rejected, m) PROVE m \in reviewed
  BY <1>3, <1>4 DEF RejectedIn
<1>5. ASSUME NEW m \in BatchMsgs PROVE I!Accounted(m)
  <2>1. Settled(m, BatchMsgs, db, rejected)
    BY <1>1 DEF WholeInv
  <2>2. CASE RejectedIn(rejected, m)
    BY <1>4, <2>2 DEF I!Accounted
  <2>3. CASE ~RejectedIn(rejected, m)
    <3>1. PICK n \in BatchMsgs :
            /\ n.topic = m.topic /\ n.id = m.id
            /\ Written(db, n) \/ RejectedIn(rejected, n) \/ DroppedByJoin(n)
      BY <2>1, <2>3 DEF Settled
    <3>2. Written(db, n) => \E s \in Rows(db) : I!Stands(s, n)
      BY <1>1, StandsForWritten DEF IntakeInv
    <3>3. DroppedByJoin(n) => I!Dropped(n)
      BY DEF DroppedByJoin, I!Dropped, FactTopics
    <3>4. RejectedIn(rejected, n) => n \in reviewed
      BY <1>4
    <3> QED BY <3>1, <3>2, <3>3, <3>4, SameBatchMsgs DEF I!Accounted
  <2> QED BY <2>2, <2>3
<1> QED BY <1>1, <1>2, <1>5, SameBatchMsgs DEF I!Finish

LEMMA MapsHidden ==
    ASSUME \/ Tick \/ Start \/ Begin \/ ValidateTopic \/ WriteLake
           \/ UpsertSubscribers \/ UpdateTowerStatus \/ InsertFacts \/ SinkRaises
           \/ RefreshRollups \/ PublishRejections \/ Crash \/ Exits \/ UNCHANGED vars
    PROVE  UNCHANGED I!vars
<1>1. UNCHANGED <<log, planned, done, db, dlqTopic, lost, applied>>
  BY DEF Tick, Start, Begin, ValidateTopic, WriteLake, UpsertSubscribers,
         UpdateTowerStatus, InsertFacts, SinkRaises, RefreshRollups, PublishRejections,
         Crash, Exits, Down, vars, external, checkpoint, kafka, history
<1> QED BY <1>1 DEF I!vars

LEMMA MapsStep ==
    /\ TypeOK /\ TypeOK' /\ RowsInv /\ WholeInv /\ ReplayInv /\ IntakeInv
    /\ Moves
    => [I!Next]_(I!vars)
BY MapsPublish, MapsPlan, MapsCommit, MapsSender, MapsFinish, MapsHidden
   DEF Moves, Next, DriverStep, I!Next

-----------------------------------------------------------------------------
LEMMA IntakeRun ==
    Spec => [](TypeOK /\ RowsInv /\ WholeInv /\ ReplayInv /\ IntakeInv)
BY ReplayRun, IntakeInit, IntakeStep, NextMoves, PTL DEF Spec

\* The job loads each planned batch in one step, publishes its rejections after
\* that, finishes it when no message of it is unaccounted for, and a second load
\* changes nothing: for any messages, batches, crashes and exceptions.
THEOREM IntakeImplemented == Spec => ImplementsIntake
BY IntakeRun, MapsInit, MapsStep, NextMoves, PTL DEF Spec, ImplementsIntake, I!Spec
-----------------------------------------------------------------------------
(***************************************************************************)
(* Accepted or rejected, never both.  What a check of its content rejects has  *)
(* a fault, and no row has.  A fact rejected because its subscriber is not       *)
(* known is another matter: the rejection may be on failed-transactions while     *)
(* its batch is replayed, and the replay must not come to know the subscriber.   *)
(* It cannot, as the subscribers come first: when the fact was rejected every      *)
(* registration of the batch had either been written, or been passed over for       *)
(* good, having a fault or another event's id.                                *)
(***************************************************************************)
Records == rejected \cup outbox \cup dlqTopic
Once(m) == ClockFree(m) /\ Copies(m) <= 1

\* An offset of the subscribers' topic no attempt at the batch accepts any more.
Passed(i) ==
    \/ log[SubscriberTopic][i].fault # "none"
    \/ \E j \in Offsets(SubscriberTopic) :
          /\ j < i /\ log[SubscriberTopic][j].id = log[SubscriberTopic][i].id
          /\ log[SubscriberTopic][j].fault = "none"
          /\ ~Ahead(log[SubscriberTopic][j], clock)

\* A key no registration of the batch brings to dim_subscriber.
Absent(key) ==
    /\ \A s \in tx.subs \cup db.subs : s.key # key
    /\ \A i \in Offsets(SubscriberTopic) :
          log[SubscriberTopic][i].key = key => Passed(i)
    /\ pc \in {"lake", "sink"} /\ turn = 1 =>
          \A i \in events : log[SubscriberTopic][i].key # key

\* From the second topic on each registration has been written or passed over.
Registered ==
    \A i \in Offsets(SubscriberTopic) :
        ~ClockDependent(log[SubscriberTopic][i]) =>
            /\ turn > 1 => \/ \E s \in tx.subs : s.key = log[SubscriberTopic][i].key
                           \/ Passed(i)
            /\ pc \in {"lake", "sink"} /\ turn = 1 => i \in events \/ Passed(i)

ApartInv ==
    /\ \A m \in Rows(tx) \cup Rows(db) : m.fault = "none"
    /\ \A r \in Records : r.reason = "subscriber_unknown" => r.msg.topic \in FactTopics
    /\ \A r \in dlqTopic : r.msg \in DoneMsgs \cup BatchMsgs
    /\ Registered
    /\ \A r \in Records :
          r.reason = "subscriber_unknown" /\ Once(r.msg) /\ r.msg \in BatchMsgs
             => Absent(r.msg.key)
    /\ \A r \in Records : Once(r.msg) => r.msg \notin Rows(tx) \cup Rows(db)

LEMMA CopiesAreFinite ==
    ASSUME TypeOK, NEW m \in Msgs
    PROVE  IsFiniteSet({i \in DOMAIN log[m.topic] : log[m.topic][i] = m})
<1> DEFINE D == DOMAIN log[m.topic]
<1>1. log[m.topic] \in Seq(Msgs)
  BY MsgFacts DEF TypeOK
<1>2. D = 1..Len(log[m.topic]) /\ Len(log[m.topic]) \in Nat
  BY <1>1
<1>3. IsFiniteSet(D)
  BY <1>2, FS_Interval
<1>4. {i \in D : log[m.topic][i] = m} \in SUBSET D
  OBVIOUS
<1> HIDE DEF D
<1>5. IsFiniteSet({i \in D : log[m.topic][i] = m})
  BY <1>3, <1>4, FS_Subset
<1> QED BY <1>5 DEF D

\* A message sent once is at one offset.
LEMMA OneOffset ==
    ASSUME TypeOK, NEW m \in Msgs, Copies(m) <= 1,
           NEW i \in DOMAIN log[m.topic], NEW j \in DOMAIN log[m.topic],
           log[m.topic][i] = m, log[m.topic][j] = m
    PROVE  i = j
<1> DEFINE S == {k \in DOMAIN log[m.topic] : log[m.topic][k] = m}
<1>1. IsFiniteSet(S) /\ Cardinality(S) <= 1 /\ i \in S /\ j \in S
  BY CopiesAreFinite DEF Copies
<1> HIDE DEF S
<1>2. Cardinality(S) \in Nat /\ Cardinality(S) # 0
  BY <1>1, FS_CardinalityType, FS_EmptySet
<1>3. Cardinality(S) = 1
  BY <1>1, <1>2
<1>4. PICK x : S = {x}
  BY <1>1, <1>3, FS_Singleton
<1> QED BY <1>1, <1>4

LEMMA LogsGrow ==
    ASSUME TypeOK, NEW n \in Msgs, Publish(n), NEW t \in Topics
    PROVE  Len(log'[t]) >= Len(log[t])
<1>1. log \in [Topics -> Seq(Msgs)] /\ n.topic \in Topics
  BY MsgFacts DEF TypeOK
<1> QED BY <1>1 DEF Publish

\* The logs only grow, so a message sent once by now had not been sent twice before.
LEMMA OnceBefore ==
    ASSUME TypeOK, TypeOK', log' = log \/ \E n \in Msgs : Publish(n),
           NEW m \in Msgs, Once(m)'
    PROVE  Once(m)
<1>1. ClockFree(m)
  BY DEF Once, ClockFree, ClockDependent
<1>2. CASE log' = log
  BY <1>1, <1>2 DEF Once, Copies
<1>3. CASE \E n \in Msgs : Publish(n)
  <2> DEFINE S == {k \in DOMAIN log[m.topic] : log[m.topic][k] = m}
             T == {k \in DOMAIN log'[m.topic] : log'[m.topic][k] = m}
  <2>1. m.topic \in Topics
    BY MsgFacts
  <2>2. \A i \in DOMAIN log[m.topic] : log'[m.topic][i] = log[m.topic][i]
    BY <1>3, <2>1, PublishAppends
  <2>3. DOMAIN log[m.topic] \subseteq DOMAIN log'[m.topic]
    <3>1. /\ log[m.topic] \in Seq(Msgs) /\ log'[m.topic] \in Seq(Msgs)
      BY <2>1 DEF TypeOK
    <3>2. Len(log[m.topic]) <= Len(log'[m.topic])
      BY <1>3, <2>1, LogsGrow
    <3> QED BY <3>1, <3>2
  <2>4. S \in SUBSET T
    BY <2>2, <2>3
  <2>5. IsFiniteSet(S) /\ IsFiniteSet(T)
    <3>1. IsFiniteSet(S)
      BY CopiesAreFinite
    <3>2. IsFiniteSet(T)
      <4> DEFINE D == DOMAIN log'[m.topic]
      <4>1. log'[m.topic] \in Seq(Msgs)
        BY <2>1 DEF TypeOK
      <4>2. D = 1..Len(log'[m.topic]) /\ Len(log'[m.topic]) \in Nat
        BY <4>1
      <4>3. IsFiniteSet(D)
        BY <4>2, FS_Interval
      <4>4. {k \in D : log'[m.topic][k] = m} \in SUBSET D
        OBVIOUS
      <4> HIDE DEF D
      <4>5. IsFiniteSet({k \in D : log'[m.topic][k] = m})
        BY <4>3, <4>4, FS_Subset
      <4> QED BY <4>5 DEF D
    <3> QED BY <3>1, <3>2
  <2>6. Copies(m) = Cardinality(S) /\ Copies(m)' = Cardinality(T)
    BY DEF Copies
  <2>7. Cardinality(S) <= Cardinality(T) /\ Cardinality(S) \in Nat /\ Cardinality(T) \in Nat
    <3> HIDE DEF S, T
    <3> QED BY <2>4, <2>5, FS_Subset, FS_CardinalityType
  <2>8. Cardinality(T) <= 1
    BY <2>6 DEF Once
  <2>9. Copies(m) <= 1
    <3> HIDE DEF S, T
    <3> QED BY <2>6, <2>7, <2>8
  <2> QED BY <1>1, <2>9 DEF Once
<1> QED BY <1>2, <1>3
\* What a step leaves alone that neither plans, validates, sinks nor finishes.
LEMMA BatchOffsetsStay ==
    ASSUME TypeOK, UNCHANGED <<planned, done>>,
           log' = log \/ \E n \in Msgs : Publish(n), NEW t \in Topics
    PROVE  /\ Offsets(t)' = Offsets(t)
           /\ \A i \in Offsets(t) : log'[t][i] = log[t][i]
<1>1. Offsets(t)' = Offsets(t)
  BY DEF Offsets
<1>2. \A i \in Offsets(t) : log'[t][i] = log[t][i]
  BY PublishAppends, BatchAreMsgs
<1> QED BY <1>1, <1>2

LEMMA DoneStays ==
    ASSUME TypeOK, done' = done, log' = log \/ \E n \in Msgs : Publish(n)
    PROVE  DoneMsgs' = DoneMsgs
<1>1. \A t \in Topics : \A i \in 1..done[t] : log'[t][i] = log[t][i]
  BY PublishAppends, BatchAreMsgs
<1> QED BY <1>1 DEF DoneMsgs

\* Time does not undo an acceptance.
LEMMA PassedStays ==
    ASSUME TypeOK, TypeOK', UNCHANGED <<planned, done>>, clock <= clock',
           log' = log \/ \E n \in Msgs : Publish(n),
           NEW i \in Offsets(SubscriberTopic), Passed(i)
    PROVE  Passed(i)'
<1>1. SubscriberTopic \in Topics /\ clock \in Nat /\ clock' \in Nat
  BY TopicOrderFacts, InstantsAssumption DEF TypeOK
<1>2. /\ Offsets(SubscriberTopic)' = Offsets(SubscriberTopic)
      /\ \A j \in Offsets(SubscriberTopic) :
            log'[SubscriberTopic][j] = log[SubscriberTopic][j]
  BY <1>1, BatchOffsetsStay
<1>3. CASE log[SubscriberTopic][i].fault # "none"
  BY <1>2, <1>3 DEF Passed
<1>4. CASE log[SubscriberTopic][i].fault = "none"
  <2>1. PICK j \in Offsets(SubscriberTopic) :
          /\ j < i /\ log[SubscriberTopic][j].id = log[SubscriberTopic][i].id
          /\ log[SubscriberTopic][j].fault = "none"
          /\ ~Ahead(log[SubscriberTopic][j], clock)
    BY <1>4 DEF Passed
  <2>2. log[SubscriberTopic][j].ts \in Nat
    BY <1>1, OffsetsAreLogged, MsgFacts
  <2>3. ~Ahead(log[SubscriberTopic][j], clock')
    BY <1>1, <2>1, <2>2 DEF Ahead, ClockSkew
  <2> QED BY <1>2, <2>1, <2>3 DEF Passed
<1> QED BY <1>3, <1>4

LEMMA ApartInit == Init => ApartInv
<1> SUFFICES ASSUME Init PROVE ApartInv
  OBVIOUS
<1>1. /\ tx = db /\ db.subs = {} /\ db.towers = {} /\ db.facts = [m \in Msgs |-> 0]
      /\ Records = {} /\ dlqTopic = {} /\ turn = 0
  BY DEF Init, EmptyTables, NoRows, Records
<1>2. Rows(tx) = {} /\ Rows(db) = {}
  BY <1>1 DEF Rows, Stored
<1> QED BY <1>1, <1>2 DEF ApartInv, Registered

LEMMA ApartUnchanged ==
    ASSUME TypeOK, TypeOK', ApartInv, UNCHANGED <<planned, done>>, clock <= clock',
           log' = log \/ \E n \in Msgs : Publish(n),
           Rows(tx)' \cup Rows(db)' \subseteq Rows(tx) \cup Rows(db),
           tx'.subs \cup db'.subs \subseteq tx.subs \cup db.subs,
           Records' \subseteq Records,
           \A r \in dlqTopic' : r \in dlqTopic \/ r.msg \in BatchMsgs,
           turn' > 1 => turn > 1 /\ tx'.subs = tx.subs,
           pc' \in {"lake", "sink"} /\ turn' = 1 =>
              pc \in {"lake", "sink"} /\ turn = 1 /\ events' = events
    PROVE  ApartInv'
<1>1. BatchMsgs' = BatchMsgs /\ DoneMsgs' = DoneMsgs
  BY BatchStays, DoneStays
<1>2. /\ Offsets(SubscriberTopic)' = Offsets(SubscriberTopic)
      /\ \A i \in Offsets(SubscriberTopic) :
            log'[SubscriberTopic][i] = log[SubscriberTopic][i]
  BY BatchOffsetsStay, TopicOrderFacts
<1>3. \A i \in Offsets(SubscriberTopic) : Passed(i) => Passed(i)'
  BY PassedStays
<1>4. Registered'
  BY <1>2, <1>3 DEF ApartInv, Registered, ClockDependent
<1>5. ASSUME NEW r \in Records', Once(r.msg)' PROVE Once(r.msg)
  <2>1. r.msg \in Msgs
    BY <1>5 DEF TypeOK, Records, Rejection
  <2> QED BY <1>5, <2>1, OnceBefore
<1>6. ASSUME NEW r \in Records', r.reason = "subscriber_unknown", Once(r.msg)',
             r.msg \in BatchMsgs'
      PROVE  Absent(r.msg.key)'
  <2>1. Absent(r.msg.key)
    BY <1>1, <1>5, <1>6 DEF ApartInv
  <2>2. \A i \in Offsets(SubscriberTopic)' :
           log'[SubscriberTopic][i].key = r.msg.key => Passed(i)'
    BY <1>2, <1>3, <2>1 DEF Absent
  <2>3. \A s \in tx'.subs \cup db'.subs : s.key # r.msg.key
    BY <2>1 DEF Absent
  <2>4. ASSUME pc' \in {"lake", "sink"}, turn' = 1, NEW i \in events'
        PROVE  log'[SubscriberTopic][i].key # r.msg.key
    <3>1. pc \in {"lake", "sink"} /\ turn = 1 /\ events' = events
      BY <2>4
    <3>2. Topic = SubscriberTopic
      BY <3>1 DEF Topic, TopicOrder, SubscriberTopic
    <3>3. i \in Offsets(SubscriberTopic)
      BY <2>4, <3>1, <3>2 DEF TypeOK
    <3> QED BY <1>2, <2>1, <2>4, <3>1, <3>3 DEF Absent
  <2> QED BY <2>2, <2>3, <2>4 DEF Absent
<1>7. \A m \in Rows(tx)' \cup Rows(db)' : m.fault = "none"
  BY DEF ApartInv
<1>8. \A r \in Records' : r.reason = "subscriber_unknown" => r.msg.topic \in FactTopics
  BY DEF ApartInv
<1>9. \A r \in dlqTopic' : r.msg \in DoneMsgs' \cup BatchMsgs'
  BY <1>1 DEF ApartInv
<1>10. \A r \in Records' : Once(r.msg)' => r.msg \notin Rows(tx)' \cup Rows(db)'
  BY <1>5 DEF ApartInv
<1> QED BY <1>4, <1>6, <1>7, <1>8, <1>9, <1>10 DEF ApartInv
\* What was rejected before has been sent already: a batch that is planned has
\* none of it, unless it was sent again.
LEMMA ApartPlan ==
    ASSUME TypeOK, TypeOK', WholeInv, IntakeInv, ApartInv, Plan
    PROVE  ApartInv'
<1>1. /\ UNCHANGED <<log, done, pc, turn, events, rejected, outbox, dlqTopic, tx, db>>
      /\ pc = "idle" /\ planned = done /\ outbox = {} /\ rejected = {} /\ turn = 0
  BY DEF Plan, AllTaken, IntakeInv, TypeOK, external, locals, kafka
<1>2. DoneMsgs' = DoneMsgs /\ \A t : Offsets(t)' = (done[t] + 1)..planned'[t]
  BY <1>1 DEF DoneMsgs, Offsets
<1>3. BatchMsgs = {}
  <2>1. ASSUME NEW t \in Topics PROVE Offsets(t) = {}
    <3>1. done[t] \in Nat /\ planned[t] = done[t]
      BY <1>1 DEF TypeOK
    <3> QED BY <3>1 DEF Offsets
  <2> QED BY <2>1 DEF BatchMsgs
<1>4. ASSUME NEW m \in DoneMsgs, m \in BatchMsgs', Copies(m) <= 1
      PROVE  FALSE
  <2>1. PICK t \in Topics : \E i \in 1..done[t] : m = log[t][i]
    BY <1>4 DEF DoneMsgs
  <2>2. PICK u \in Topics : \E j \in (done[u] + 1)..planned'[u] : m = log[u][j]
    BY <1>1, <1>2, <1>4 DEF BatchMsgs
  <2> PICK i \in 1..done[t] : m = log[t][i]
    BY <2>1
  <2> PICK j \in (done[u] + 1)..planned'[u] : m = log[u][j]
    BY <2>2
  <2>3. i \in DOMAIN log[t] /\ i <= done[t] /\ i \in Nat /\ log[t] \in Seq(Msgs)
    <3>1. /\ done[t] \in Nat /\ planned[t] \in Nat /\ log[t] \in Seq(Msgs)
          /\ done[t] <= planned[t] /\ planned[t] <= Len(log[t]) /\ Len(log[t]) \in Nat
      BY DEF TypeOK
    <3> QED BY <3>1
  <2>4. j \in DOMAIN log[u] /\ j > done[u] /\ j \in Nat /\ log[u] \in Seq(Msgs)
    <3>1. /\ done[u] \in Nat /\ log[u] \in Seq(Msgs) /\ Len(log[u]) \in Nat
      BY DEF TypeOK
    <3>2. planned'[u] \in Nat /\ planned'[u] <= Len(log[u])
      BY <1>1 DEF TypeOK
    <3> QED BY <3>1, <3>2
  <2>5. m.topic = t /\ m.topic = u /\ m \in Msgs
    <3>1. i \in 1..Len(log[t]) /\ j \in 1..Len(log[u])
      BY <2>3, <2>4
    <3>2. log[t][i].topic = t /\ log[u][j].topic = u
      BY <3>1 DEF WholeInv, LogInv
    <3> QED BY <3>2, BatchAreMsgs
  <2>6. i = j
    BY <1>4, <2>3, <2>4, <2>5, OneOffset
  <2>7. done[t] \in Nat
    BY DEF TypeOK
  <2> QED BY <2>3, <2>4, <2>5, <2>6, <2>7
<1>5. \A m : Copies(m)' = Copies(m) /\ ClockFree(m)' = ClockFree(m)
  BY <1>1 DEF Copies, ClockFree, ClockDependent
<1>6. \A r \in Records' : ~(Once(r.msg)' /\ r.msg \in BatchMsgs')
  <2>1. ASSUME NEW r \in Records' PROVE r \in dlqTopic
    BY <1>1, <2>1 DEF Records
  <2> QED BY <1>3, <1>4, <1>5, <2>1 DEF ApartInv, Once
<1>7. Registered'
  BY <1>1 DEF Registered
<1>8. Records' = Records /\ Rows(tx)' = Rows(tx) /\ Rows(db)' = Rows(db)
  BY <1>1 DEF Records, Rows, Stored
<1>9. \A r \in dlqTopic' : r.msg \in DoneMsgs' \cup BatchMsgs'
  BY <1>1, <1>2, <1>3 DEF ApartInv
<1>10. \A r \in Records' : Once(r.msg)' => r.msg \notin Rows(tx)' \cup Rows(db)'
  BY <1>5, <1>8 DEF ApartInv, Once
<1> QED BY <1>6, <1>7, <1>8, <1>9, <1>10 DEF ApartInv

LEMMA ApartFinish == ASSUME TypeOK, TypeOK', ApartInv, FinishBatch PROVE ApartInv'
<1>1. /\ UNCHANGED <<log, planned, tx, db, outbox, dlqTopic>> /\ done' = planned
      /\ rejected' = {} /\ turn' = 0
  BY DEF FinishBatch, external, kafka
<1>2. \A t \in Topics : 1..done'[t] = (1..done[t]) \cup Offsets(t) /\ Offsets(t)' = {}
  <2>1. ASSUME NEW t \in Topics
        PROVE  done[t] \in Nat /\ planned[t] \in Nat /\ done[t] <= planned[t]
    BY DEF TypeOK
  <2> QED BY <1>1, <2>1 DEF Offsets
<1>3. BatchMsgs' = {} /\ DoneMsgs' = DoneMsgs \cup BatchMsgs
  BY <1>1, <1>2 DEF BatchMsgs, DoneMsgs
<1>4. Registered'
  BY <1>1 DEF Registered
<1>5. /\ Records' \subseteq Records /\ Rows(tx)' = Rows(tx) /\ Rows(db)' = Rows(db)
      /\ \A m : Once(m)' = Once(m)
  BY <1>1 DEF Records, Rows, Stored, Once, Copies, ClockFree, ClockDependent
<1> QED BY <1>1, <1>3, <1>4, <1>5 DEF ApartInv

\* Validation passes over a registration that is not accepted and held up by the
\* clock, and what it rejects has a fault, hence no row.
LEMMA ApartValidate ==
    ASSUME TypeOK, TypeOK', WholeInv, ApartInv, ValidateTopic
    PROVE  ApartInv'
<1>1. /\ UNCHANGED <<clock, log, planned, done, tx, db, outbox, dlqTopic>>
      /\ pc = "validate" /\ turn \in 1..7 /\ clock \in Instants
      /\ rejected' = rejected \cup
           {Reject(log[Topic][i], Verdict(log[Topic][i], clock)) : i \in Refused}
      /\ events' = Dedupe(Accepted)
      /\ \/ events' = {} /\ turn' = turn + 1 /\ pc' = "validate"
         \/ pc' = "lake" /\ turn' = turn
  BY ValidateEffect DEF ValidateTopic, kafka, TypeOK
<1>2. BatchMsgs' = BatchMsgs /\ DoneMsgs' = DoneMsgs /\ \A t : Offsets(t)' = Offsets(t)
  BY <1>1 DEF BatchMsgs, DoneMsgs, Offsets
<1>3. /\ \A m : Once(m)' = Once(m)
      /\ Rows(tx)' = Rows(tx) /\ Rows(db)' = Rows(db)
      /\ \A i : Passed(i)' = Passed(i)
  BY <1>1, <1>2 DEF Rows, Stored, Once, Copies, ClockFree, ClockDependent, Passed, Ahead
<1>4. Topic \in Topics /\ \A i \in Offsets(Topic) : log[Topic][i] \in Msgs
  BY <1>1, TopicOrderFacts, OffsetsAreLogged DEF Topic
<1>5. ASSUME turn = 1, NEW i \in Offsets(SubscriberTopic)
      PROVE  Topic = SubscriberTopic /\ (Passed(i) => i \notin events')
  <2>1. Topic = SubscriberTopic
    BY <1>5 DEF Topic, TopicOrder, SubscriberTopic
  <2>2. CASE log[Topic][i].fault # "none"
    BY <1>1, <1>4, <1>5, <2>1, <2>2, AcceptedIsFaultless DEF Dedupe, Accepted, Refused
  <2>3. ASSUME NEW j \in Offsets(SubscriberTopic), j < i,
               log[SubscriberTopic][j].id = log[SubscriberTopic][i].id,
               log[SubscriberTopic][j].fault = "none",
               ~Ahead(log[SubscriberTopic][j], clock)
        PROVE  i \notin events'
    <3>1. Verdict(log[Topic][j], clock) = ""
      BY <2>1, <2>3 DEF Verdict
    <3>2. j \in Accepted
      BY <2>1, <2>3, <3>1 DEF Accepted, Refused
    <3> QED BY <1>1, <2>1, <2>3, <3>2 DEF Dedupe
  <2> QED BY <2>1, <2>2, <2>3 DEF Passed
<1>6. ASSUME turn = 1, NEW i \in Offsets(SubscriberTopic),
             ~ClockDependent(log[SubscriberTopic][i])
      PROVE  i \in events' \/ Passed(i)
  <2> SUFFICES ASSUME i \notin events', log[SubscriberTopic][i].fault = "none"
               PROVE  Passed(i)
    BY DEF Passed
  <2>1. Topic = SubscriberTopic
    BY <1>5, <1>6
  <2>2. i \in Accepted
    BY <1>1, <1>4, <1>6, <2>1, TimelyVerdict DEF Accepted, Refused
  <2>3. PICK j \in Accepted : j < i /\ log[Topic][j].id = log[Topic][i].id
    BY <1>1, <2>2 DEF Dedupe
  <2>4. /\ j \in Offsets(SubscriberTopic) /\ log[Topic][j] \in Msgs
        /\ Verdict(log[Topic][j], clock) = ""
    BY <1>4, <2>1, <2>3 DEF Accepted, Refused
  <2>5. log[Topic][j].fault = "none"
    BY <2>4, AcceptedIsFaultless
  <2>6. ~Ahead(log[Topic][j], clock)
    BY <2>4, <2>5 DEF Verdict
  <2> QED BY <2>1, <2>3, <2>4, <2>5, <2>6 DEF Passed
<1>7. Registered'
  <2>1. ASSUME NEW i \in Offsets(SubscriberTopic), ~ClockDependent(log[SubscriberTopic][i]),
               turn' > 1
        PROVE  (\E s \in tx.subs : s.key = log[SubscriberTopic][i].key) \/ Passed(i)
    <3>1. CASE turn > 1
      BY <2>1, <3>1 DEF ApartInv, Registered
    <3>2. CASE turn = 1
      <4>1. events' = {}
        BY <1>1, <2>1, <3>2
      <4> QED BY <1>6, <2>1, <3>2, <4>1
    <3> QED BY <1>1, <3>1, <3>2
  <2>2. ASSUME NEW i \in Offsets(SubscriberTopic), ~ClockDependent(log[SubscriberTopic][i]),
               pc' \in {"lake", "sink"}, turn' = 1
        PROVE  i \in events' \/ Passed(i)
    BY <1>1, <1>6, <2>2
  <2> QED BY <1>1, <1>2, <1>3, <2>1, <2>2 DEF Registered, ClockDependent
<1>8. ASSUME NEW r \in Records' \ Records
      PROVE  /\ r.msg \in Msgs /\ r.reason # "subscriber_unknown"
             /\ Once(r.msg) => r.msg.fault # "none"
  <2>1. PICK i \in Refused : r = Reject(log[Topic][i], Verdict(log[Topic][i], clock))
    BY <1>1, <1>8 DEF Records
  <2>2. /\ r.msg = log[Topic][i] /\ r.reason = Verdict(log[Topic][i], clock)
        /\ r.msg \in Msgs /\ Verdict(r.msg, clock) # "" /\ r.msg.fault \in Faults
    BY <1>4, <2>1, MsgsAssumption DEF Reject, Refused
  <2>3. r.reason # "subscriber_unknown"
    BY <2>2 DEF Verdict, Faults
  <2>4. Once(r.msg) => ~ClockDependent(r.msg)
    BY <2>2 DEF Once, ClockFree
  <2> QED BY <1>1, <2>2, <2>3, <2>4, TimelyVerdict
<1>9. ASSUME NEW r \in Records', r.reason = "subscriber_unknown", Once(r.msg),
             r.msg \in BatchMsgs
      PROVE  Absent(r.msg.key)'
  <2>1. Absent(r.msg.key)
    BY <1>8, <1>9 DEF ApartInv
  <2>2. ASSUME pc' \in {"lake", "sink"}, turn' = 1, NEW i \in events'
        PROVE  log[SubscriberTopic][i].key # r.msg.key
    <3>1. turn = 1 /\ i \in Offsets(Topic)
      BY <1>1, <2>2 DEF Dedupe, Accepted
    <3>2. Topic = SubscriberTopic
      BY <3>1 DEF Topic, TopicOrder, SubscriberTopic
    <3> QED BY <1>5, <2>1, <2>2, <3>1, <3>2 DEF Absent
  <2> QED BY <1>1, <1>2, <1>3, <2>1, <2>2 DEF Absent
<1>10. \A r \in Records' : Once(r.msg) => r.msg \notin Rows(tx) \cup Rows(db)
  BY <1>8 DEF ApartInv
<1>11. \A r \in Records' : r.reason = "subscriber_unknown" => r.msg.topic \in FactTopics
  BY <1>8 DEF ApartInv
<1> QED BY <1>1, <1>2, <1>3, <1>7, <1>9, <1>10, <1>11 DEF ApartInv
\* Rows are added for events, which have no fault; if one of them was rejected by
\* an earlier attempt, then because its subscriber was not known, and it is not.
LEMMA ApartSinks ==
    ASSUME TypeOK, TypeOK', RowsInv, WholeInv, ReasonInv, IntakeInv, IntakeInv', ApartInv,
           UpsertSubscribers \/ UpdateTowerStatus \/ InsertFacts
    PROVE  ApartInv'
<1>1. /\ UNCHANGED <<clock, log, planned, done, db, outbox, dlqTopic>>
      /\ pc = "sink" /\ pc' = "validate" /\ turn' = turn + 1
      /\ turn \in 1..7 /\ tx \in Tables /\ tx' \in Tables
  BY DEF UpsertSubscribers, UpdateTowerStatus, InsertFacts, NextTopic, external,
         checkpoint, kafka, TypeOK
<1>2. BatchMsgs' = BatchMsgs /\ DoneMsgs' = DoneMsgs /\ \A t : Offsets(t)' = Offsets(t)
  BY <1>1 DEF BatchMsgs, DoneMsgs, Offsets
<1>3. /\ \A m : Once(m)' = Once(m) /\ Rows(db)' = Rows(db)
      /\ \A i : Passed(i)' = Passed(i)
  BY <1>1, <1>2 DEF Rows, Stored, Once, Copies, ClockFree, ClockDependent, Passed, Ahead
<1>4. ASSUME NEW m \in At(events)
      PROVE  m \in Msgs /\ m \in BatchMsgs /\ m.topic = Topic /\ m.fault = "none"
  BY <1>1, <1>4, EventFacts DEF At, ReasonInv
<1>5. Sound(tx, tx', At(events))
  BY SubscribersSound, TowersSound, FactsSound
<1>6. Rows(tx)' \subseteq Rows(tx) \cup At(events) /\ Extends(tx, tx') /\ FactKeys(tx')
  BY <1>5 DEF Sound, Rows, Stored, Keys
<1>7. Topic = SubscriberTopic <=> turn = 1
  BY <1>1 DEF Topic, TopicOrder, SubscriberTopic
<1>8. ASSUME Topic # SubscriberTopic PROVE tx'.subs = tx.subs
  BY <1>1, <1>8 DEF UpsertSubscribers, UpdateTowerStatus, InsertFacts, Tables
<1>9. ASSUME NEW r \in Records' \ Records
      PROVE  /\ InsertFacts /\ r.reason = "subscriber_unknown"
             /\ r.msg \in At(events) /\ \A s \in tx.subs : s.key # r.msg.key
  <2>1. InsertFacts
    BY <1>1, <1>9 DEF Records, UpsertSubscribers, UpdateTowerStatus
  <2>2. PICK m \in At(events \ Known) : r = Reject(m, "subscriber_unknown")
    BY <1>1, <1>9, <2>1 DEF Records, InsertFacts
  <2> QED BY <2>1, <2>2 DEF Reject, At, Known
<1>10. ASSUME NEW i \in Offsets(SubscriberTopic) PROVE log[SubscriberTopic][i].topic = SubscriberTopic
                                                    /\ log[SubscriberTopic][i] \in Msgs
  <2>1. SubscriberTopic \in Topics
    BY TopicOrderFacts
  <2>2. i \in DOMAIN log[SubscriberTopic] /\ log[SubscriberTopic][i] \in Msgs
    BY <2>1, OffsetsAreLogged
  <2>3. log[SubscriberTopic] \in Seq(Msgs)
    BY <2>1 DEF TypeOK
  <2> QED BY <2>1, <2>2, <2>3 DEF WholeInv, LogInv
<1>11. Registered'
  <2>1. ASSUME NEW i \in Offsets(SubscriberTopic), ~ClockDependent(log[SubscriberTopic][i])
        PROVE  (\E s \in tx'.subs : s.key = log[SubscriberTopic][i].key) \/ Passed(i)
    <3>1. CASE turn > 1
      <4>1. tx'.subs = tx.subs
        BY <1>7, <1>8, <3>1
      <4> QED BY <2>1, <3>1, <4>1 DEF ApartInv, Registered
    <3>2. CASE turn = 1
      <4>1. i \in events \/ Passed(i)
        BY <1>1, <2>1, <3>2 DEF ApartInv, Registered
      <4>2. UpsertSubscribers /\ Topic = SubscriberTopic
        BY <1>7, <3>2
           DEF UpsertSubscribers, UpdateTowerStatus, InsertFacts, SubscriberTopic,
               TowerTopic, FactTopics
      <4>3. i \in events => \E s \in tx'.subs : s.key = log[SubscriberTopic][i].key
        BY <1>10, <4>2, SubscribersWritten, WrittenCases
      <4> QED BY <4>1, <4>3
    <3> QED BY <1>1, <3>1, <3>2
  <2>2. pc' \notin {"lake", "sink"}
    BY <1>1
  <2> QED BY <1>1, <1>2, <1>3, <2>1, <2>2 DEF Registered, ClockDependent
<1>12. ASSUME NEW r \in Records', r.reason = "subscriber_unknown", Once(r.msg),
              r.msg \in BatchMsgs
       PROVE  Absent(r.msg.key)'
  <2>1. CASE r \in Records
    <3>1. Absent(r.msg.key)
      BY <1>12, <2>1 DEF ApartInv
    <3>2. ASSUME NEW s \in tx'.subs PROVE s.key # r.msg.key
      <4>1. CASE s \in tx.subs
        BY <3>1, <4>1 DEF Absent
      <4>2. CASE s \notin tx.subs
        <5>1. turn = 1 /\ UpsertSubscribers
          BY <1>7, <1>8, <4>2, <3>2
             DEF UpsertSubscribers, UpdateTowerStatus, InsertFacts, SubscriberTopic,
                 TowerTopic, FactTopics
        <5>2. tx'.subs = tx.subs \cup NewSubscribers
          BY <1>1, <5>1 DEF UpsertSubscribers, Tables
        <5>3. s \in At(events)
          BY <3>2, <4>2, <5>2 DEF NewSubscribers, At
        <5>4. Topic = SubscriberTopic
          BY <1>7, <5>1
        <5> QED BY <1>1, <3>1, <5>1, <5>3, <5>4 DEF Absent, At
      <4> QED BY <4>1, <4>2
    <3> QED BY <1>1, <1>2, <1>3, <3>1, <3>2 DEF Absent
  <2>2. CASE r \notin Records
    <3>1. /\ InsertFacts /\ r.msg \in At(events) /\ \A s \in tx.subs : s.key # r.msg.key
      BY <1>9, <2>2
    <3>2. Topic # SubscriberTopic /\ turn > 1
      <4>1. Topic # SubscriberTopic
        BY <3>1 DEF InsertFacts, FactTopics
      <4> QED BY <1>1, <1>7, <4>1
    <3>3. tx'.subs = tx.subs /\ db.subs \subseteq tx.subs
      BY <1>8, <3>2 DEF RowsInv, Extends
    <3>4. ASSUME NEW i \in Offsets(SubscriberTopic),
                 log[SubscriberTopic][i].key = r.msg.key
          PROVE  Passed(i)
      <4>1. ~ClockDependent(log[SubscriberTopic][i])
        BY <1>10, <1>12, <3>4 DEF Once, ClockFree
      <4> QED BY <3>1, <3>2, <3>4, <4>1 DEF ApartInv, Registered
    <3> QED BY <1>1, <1>2, <1>3, <3>1, <3>3, <3>4 DEF Absent
  <2> QED BY <2>1, <2>2
<1>13. ASSUME NEW r \in Records', Once(r.msg), r.msg \in Rows(tx)' \cup Rows(db)
       PROVE  FALSE
  <2>1. CASE r \in Records
    <3>1. r.msg \in At(events) /\ r.msg \notin Rows(tx)
      BY <1>6, <1>13, <2>1 DEF ApartInv
    <3>2. r.msg \in Msgs /\ r.msg \in BatchMsgs /\ r.msg.topic = Topic
          /\ r.msg.fault = "none"
      BY <1>4, <3>1
    <3>3. ~ClockDependent(r.msg)
      BY <1>13, <3>2 DEF Once, ClockFree
    <3>4. r.reason = "subscriber_unknown"
      BY <2>1, <3>2, <3>3 DEF ReasonInv, Fixed, FixedReason, Records
    <3>5. Topic \in FactTopics
      BY <2>1, <3>2, <3>4 DEF ApartInv
    <3>6. /\ Absent(r.msg.key) /\ Topic # SubscriberTopic
      BY <1>13, <2>1, <3>2, <3>4, <3>5 DEF ApartInv, FactTopics
    <3>7. r.msg \in Stored(tx'.facts)
      <4>1. r.msg \in Rows(tx')
        BY <1>13, <2>1, <3>1 DEF ApartInv, Rows, Stored
      <4>2. RowTopics(tx')
        BY DEF IntakeInv, RowTopics, Stored
      <4> QED BY <3>2, <3>5, <4>1, <4>2
              DEF Rows, RowTopics, FactTopics
    <3>8. \E s \in tx'.subs : s.key = r.msg.key
      BY <1>6, <3>7 DEF FactKeys
    <3> QED BY <1>8, <3>6, <3>8 DEF Absent
  <2>2. CASE r \notin Records
    <3>1. /\ InsertFacts /\ r.msg \in At(events) /\ \A s \in tx.subs : s.key # r.msg.key
      BY <1>9, <2>2
    <3>2. r.msg.topic = Topic /\ Topic \in FactTopics
      BY <1>4, <3>1 DEF InsertFacts
    <3>3. RowTopics(tx') /\ RowTopics(db)
      BY <1>1 DEF IntakeInv, RowTopics, Stored
    <3>4. r.msg \in Rows(tx') \cup Rows(db)
      BY <1>13 DEF Rows, Stored
    <3>5. r.msg \in Stored(tx'.facts) \cup Stored(db.facts)
      BY <3>2, <3>3, <3>4 DEF Rows, RowTopics, FactTopics
    <3>6. Stored(db.facts) \subseteq Stored(tx'.facts)
      BY <1>6 DEF RowsInv, Extends
    <3>7. \E s \in tx'.subs : s.key = r.msg.key
      BY <1>6, <3>5, <3>6 DEF FactKeys
    <3>8. tx'.subs = tx.subs
      BY <1>8, <3>1 DEF InsertFacts, FactTopics
    <3> QED BY <3>1, <3>7, <3>8
  <2> QED BY <2>1, <2>2
<1>14. \A m \in Rows(tx)' \cup Rows(db)' : m.fault = "none"
  BY <1>3, <1>4, <1>6 DEF ApartInv
<1>15. \A r \in Records' : r.reason = "subscriber_unknown" => r.msg.topic \in FactTopics
  <2>1. ASSUME NEW r \in Records' \ Records PROVE r.msg.topic \in FactTopics
    BY <1>4, <1>9, <2>1 DEF InsertFacts
  <2> QED BY <2>1 DEF ApartInv
<1> QED BY <1>1, <1>2, <1>3, <1>11, <1>12, <1>13, <1>14, <1>15 DEF ApartInv
LEMMA ApartStep ==
    /\ TypeOK /\ TypeOK' /\ RowsInv /\ WholeInv /\ ReasonInv /\ IntakeInv /\ IntakeInv'
    /\ ApartInv /\ Moves
    => ApartInv'
<1> SUFFICES ASSUME TypeOK, TypeOK', RowsInv, WholeInv, ReasonInv, IntakeInv, IntakeInv',
                    ApartInv, Moves
             PROVE  ApartInv'
  OBVIOUS
<1>1. clock \in Nat /\ clock' \in Nat /\ clock <= clock
  BY InstantsAssumption DEF TypeOK
<1>2. CASE \/ \E m \in Msgs : Publish(m)
           \/ Tick \/ Start \/ Begin \/ WriteLake \/ PublishRejections
           \/ Deliver \/ LoseSend \/ UNCHANGED vars
  <2>1. /\ UNCHANGED <<planned, done, tx, db>> /\ clock <= clock'
        /\ log' = log \/ \E m \in Msgs : Publish(m)
    BY <1>1, <1>2 DEF Publish, Tick, Start, Begin, WriteLake, PublishRejections, Deliver,
                LoseSend, vars, external, checkpoint
  <2>2. /\ Records' \subseteq Records
        /\ \A r \in dlqTopic' : r \in dlqTopic \/ r \in outbox
    BY <1>2 DEF Records, Publish, Tick, Start, Begin, WriteLake, PublishRejections, Deliver,
                LoseSend, vars, locals, kafka
  <2>3. \A r \in dlqTopic' : r \in dlqTopic \/ r.msg \in BatchMsgs
    BY <2>2 DEF IntakeInv
  <2>4. /\ turn' > 1 => turn > 1
        /\ pc' \in {"lake", "sink"} =>
              pc \in {"lake", "sink"} /\ turn' = turn /\ events' = events
    BY <1>2 DEF Publish, Tick, Start, Begin, WriteLake, PublishRejections, Deliver,
                LoseSend, vars, locals
  <2>5. Rows(tx)' = Rows(tx) /\ Rows(db)' = Rows(db)
    BY <2>1 DEF Rows, Stored
  <2> QED BY <2>1, <2>2, <2>3, <2>4, <2>5, ApartUnchanged
<1>3. CASE SinkRaises \/ Crash \/ Exits \/ RefreshRollups \/ Commit
  <2>1. /\ UNCHANGED <<clock, log, planned, done>> /\ Records' \subseteq Records
        /\ UNCHANGED dlqTopic /\ pc' \notin {"lake", "sink"}
    BY <1>3 DEF SinkRaises, Crash, Exits, Down, RefreshRollups, Commit, Records, external,
                checkpoint, locals, kafka
  <2>2. CASE SinkRaises \/ Crash \/ Exits
    <3>1. tx' = db /\ db' = db /\ turn' = 0
      BY <2>2 DEF SinkRaises, Crash, Exits, Down
    <3>2. Rows(tx)' = Rows(db) /\ Rows(db)' = Rows(db)
      BY <3>1 DEF Rows, Stored
    <3> QED BY <1>1, <2>1, <3>1, <3>2, ApartUnchanged
  <2>3. CASE RefreshRollups
    <3>1. /\ tx'.subs = tx.subs /\ tx'.facts = tx.facts /\ tx'.towers = tx.towers
          /\ db' = db /\ turn' = turn
      BY <2>3 DEF RefreshRollups, TypeOK, Tables, locals
    <3>2. Rows(tx)' = Rows(tx) /\ Rows(db)' = Rows(db)
      BY <3>1 DEF Rows, Stored
    <3> QED BY <1>1, <2>1, <3>1, <3>2, ApartUnchanged
  <2>4. CASE Commit
    <3>1. tx' = tx /\ db' = tx /\ turn' = turn
      BY <2>4 DEF Commit, locals
    <3>2. Rows(tx)' = Rows(tx) /\ Rows(db)' = Rows(tx)
      BY <3>1 DEF Rows, Stored
    <3> QED BY <1>1, <2>1, <3>1, <3>2, ApartUnchanged
  <2> QED BY <1>3, <2>2, <2>3, <2>4
<1> QED BY <1>2, <1>3, ApartPlan, ApartValidate, ApartSinks, ApartFinish
        DEF Moves, Next, DriverStep

-----------------------------------------------------------------------------
(* All of the query's invariants together.                                 *)

QueryInv ==
    /\ TypeOK /\ RollupInv /\ RowsInv /\ WholeInv /\ ReplayInv /\ ReasonInv
    /\ IntakeInv /\ ApartInv

LEMMA QueryInvInit == Init => QueryInv
BY TypeInit, RollupInit, RowsInit, WholeInit, ReplayInit, ReasonInit, IntakeInit, ApartInit
   DEF QueryInv

LEMMA QueryInvStep == QueryInv /\ Moves => QueryInv'
<1> SUFFICES ASSUME QueryInv, Moves PROVE QueryInv'
  OBVIOUS
<1>1. TypeOK' /\ RollupInv' /\ ReasonInv'
  BY TypeStep, RollupStep, ReasonStep DEF QueryInv
<1>2. RowsInv' /\ WholeInv' /\ ReplayInv' /\ IntakeInv'
  BY <1>1, RowsStep, WholeStep, ReplayStep, IntakeStep DEF QueryInv
<1> QED BY <1>1, <1>2, ApartStep DEF QueryInv

LEMMA QueryPromises ==
    QueryInv => /\ TypeOK /\ RollupsMatchFacts /\ KeysHold /\ LakeCoversWarehouse
                /\ NothingDropped /\ CommittedWhole
                /\ RejectionsReproduced /\ AcceptedOrRejected
<1> SUFFICES ASSUME QueryInv
             PROVE  /\ TypeOK /\ RollupsMatchFacts /\ KeysHold /\ LakeCoversWarehouse
                    /\ NothingDropped /\ CommittedWhole
                    /\ RejectionsReproduced /\ AcceptedOrRejected
  OBVIOUS
<1>1. TypeOK /\ RollupsMatchFacts
  BY DEF QueryInv, RollupInv
<1>2. KeysHold /\ LakeCoversWarehouse
  BY DEF QueryInv, RowsInv, Keys, FactKeys, SubKeys, TowerKeys, KeysHold, InLake,
         LakeCoversWarehouse
<1>3. NothingDropped /\ CommittedWhole
  BY DEF QueryInv, WholeInv, CommittedWhole, TypeOK
<1>4. RejectionsReproduced /\ AcceptedOrRejected
  BY DEF QueryInv, ReasonInv, Fixed, RejectionsReproduced, ApartInv, AcceptedOrRejected,
         Once, Records, Rows
<1> QED BY <1>1, <1>2, <1>3, <1>4

\* What a step may do to the tables, and that Intake sees it as one of its own.
LEMMA QuerySteps ==
    QueryInv /\ Moves =>
        /\ db.subs \subseteq db'.subs /\ Stored(db.facts) \subseteq Stored(db'.facts)
        /\ \A s \in db.towers : \E r \in db'.towers : r.key = s.key /\ r.ts >= s.ts
        /\ applied /\ db' # db => \E m \in BatchMsgs : ClockDependent(m)
        /\ [I!Next]_(I!vars)
<1> SUFFICES ASSUME QueryInv, Moves
             PROVE  /\ db.subs \subseteq db'.subs /\ Stored(db.facts) \subseteq Stored(db'.facts)
                    /\ \A s \in db.towers : \E r \in db'.towers : r.key = s.key /\ r.ts >= s.ts
                    /\ applied /\ db' # db => \E m \in BatchMsgs : ClockDependent(m)
                    /\ [I!Next]_(I!vars)
  OBVIOUS
<1>1. QueryInv'
  BY QueryInvStep
<1>2. Extends(db, db')
  BY CommitExtends DEF QueryInv
<1>3. applied /\ db' # db => \E m \in BatchMsgs : ClockDependent(m)
  BY OnlyTheClockRewrites DEF QueryInv
<1>4. [I!Next]_(I!vars)
  BY <1>1, MapsStep DEF QueryInv
<1> QED BY <1>2, <1>3, <1>4 DEF Extends

\* A message sent once whose fate the clock has no part in is accepted or rejected,
\* never both, wherever between the commit and the end of its batch a crash falls.
THEOREM NeverBoth == Spec => []AcceptedOrRejected
BY QueryPromises, QueryInvInit, QueryInvStep, NextMoves, PTL DEF Spec
=============================================================================
