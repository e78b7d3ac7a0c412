------------------------- MODULE EventsQuery_proofs -------------------------
(***************************************************************************)
(* Theorems about EventsQuery, for every value of its constants.           *)
(***************************************************************************)
EXTENDS EventsQuery, MinuteWindow_proofs, FiniteSetTheorems, TLAPS

LEMMA TopicOrderFacts ==
    /\ Len(TopicOrder) = 7
    /\ \A i \in 1..7 : TopicOrder[i] \in Topics
    /\ SubscriberTopic \in Topics /\ TowerTopic \in Topics
    /\ FactTopics \subseteq Topics
BY DEF TopicOrder, Topics, SubscriberTopic, TowerTopic, FactTopics

\* A message's topic, time and minute are what the constants' types say.
LEMMA MsgFacts ==
    /\ \A m \in Msgs : m.topic \in Topics /\ m.ts \in Nat /\ m.ts \in MsgTimes
    /\ MsgTimes \subseteq Nat
    /\ Minutes \subseteq Nat
<1>1. \A m \in Msgs : m.topic \in Topics /\ m.ts \in Nat
  BY MsgsAssumption
<1>2. MsgTimes \subseteq Nat /\ \A m \in Msgs : m.ts \in MsgTimes
  BY <1>1 DEF MsgTimes
<1>3. Minutes \subseteq Nat
  BY <1>2, MinuteBounds DEF Minutes
<1> QED BY <1>1, <1>2, <1>3

LEMMA MsgTimesFinite == IsFiniteSet(MsgTimes)
<1> DEFINE f == [m \in Msgs |-> m.ts]
<1>1. f \in Surjection(Msgs, MsgTimes)
  BY DEF Surjection, MsgTimes
<1> QED BY <1>1, FS_Surjection, MsgsAssumption

\* The messages a batch reads are messages of the logs.
LEMMA OffsetsAreLogged ==
    ASSUME TypeOK, NEW t \in Topics, NEW i \in Offsets(t)
    PROVE  i \in Nat /\ i \in DOMAIN log[t] /\ log[t][i] \in Msgs
<1>1. /\ log[t] \in Seq(Msgs) /\ done[t] \in Nat /\ planned[t] \in Nat
      /\ planned[t] <= Len(log[t])
  BY DEF TypeOK
<1>2. i \in (done[t] + 1)..planned[t]
  BY DEF Offsets
<1>3. i \in 1..Len(log[t])
  BY <1>1, <1>2
<1> QED BY <1>1, <1>3

\* While a topic is being sunk, its events are messages of its log.
LEMMA EventsAreMsgs ==
    ASSUME TypeOK, pc \in {"lake", "sink"}
    PROVE  /\ Topic \in Topics
           /\ At(events) \subseteq Msgs /\ At(Known) \subseteq At(events)
<1>1. turn \in 1..7 /\ events \subseteq Offsets(Topic)
  BY DEF TypeOK
<1>2. Topic \in Topics
  BY <1>1, TopicOrderFacts DEF Topic
<1>3. \A i \in events : log[Topic][i] \in Msgs
  BY <1>1, <1>2, OffsetsAreLogged
<1> QED BY <1>2, <1>3 DEF At, Known

LEMMA VerdictIsReason ==
    ASSUME NEW m \in Msgs, NEW now
    PROVE  Verdict(m, now) = "" \/ Verdict(m, now) \in Reasons
BY MsgsAssumption DEF Verdict, Reasons, Faults

LEMMA TypeInit == Init => TypeOK
<1> SUFFICES ASSUME Init PROVE TypeOK
  OBVIOUS
<1>1. EmptyTables \in Tables
  BY DEF EmptyTables, NoRows, Tables
<1>2. crashes \in 0..MaxCrashes /\ lake \in [Msgs -> 0..MaxLakeRows]
  BY BoundsAssumption DEF Init, NoRows
<1>3. log \in [Topics -> Seq(Msgs)] /\ \A t \in Topics : Len(log[t]) = 0
  BY DEF Init
<1>4. /\ planned \in [Topics -> Nat] /\ done \in [Topics -> Nat]
      /\ \A t \in Topics : done[t] = 0 /\ planned[t] = 0
  BY DEF Init
<1>5. /\ \A t \in Topics : done[t] <= planned[t] /\ planned[t] <= Len(log[t])
  BY <1>3, <1>4
<1>6. pc = "down" /\ turn = 0 /\ events = {} /\ stamps = {} /\ rejected = {}
  BY DEF Init
<1>7. applied \in BOOLEAN /\ outbox = {} /\ dlqTopic = {} /\ lost = {} /\ clock \in Instants
  BY DEF Init
<1>8. tx = db /\ tx \in Tables
  BY <1>1 DEF Init
<1> QED BY <1>2, <1>3, <1>4, <1>5, <1>6, <1>7, <1>8 DEF TypeOK

-----------------------------------------------------------------------------
(* Each action preserves the type invariant.                               *)

LEMMA TypePublish == ASSUME TypeOK, NEW m \in Msgs, Publish(m) PROVE TypeOK'
<1>1. m.topic \in Topics /\ log \in [Topics -> Seq(Msgs)]
  BY MsgFacts DEF TypeOK
<1>2. /\ log' \in [Topics -> Seq(Msgs)]
      /\ \A t \in Topics : Len(log'[t]) >= Len(log[t])
  BY <1>1 DEF Publish
<1>3. /\ UNCHANGED <<clock, planned, done, pc, turn, events, rejected, stamps,
                    tx, db, lake, outbox, dlqTopic, lost, crashes, applied>>
  BY DEF Publish, checkpoint, locals, kafka, history
<1>4. \A t \in Topics : /\ planned[t] \in Nat /\ Len(log[t]) \in Nat
                        /\ planned[t] <= Len(log[t]) /\ Len(log'[t]) \in Nat
  BY <1>1, <1>2 DEF TypeOK
<1>5. \A t \in Topics : planned[t] <= Len(log'[t])
  BY <1>2, <1>4
<1> QED BY <1>2, <1>3, <1>5 DEF TypeOK, Offsets, Topic, Tables

LEMMA TypeTick == ASSUME TypeOK, Tick PROVE TypeOK'
BY DEF TypeOK, Tick, Offsets, Topic, checkpoint, locals, kafka, history

LEMMA TypeStart == ASSUME TypeOK, Start PROVE TypeOK'
BY DEF TypeOK, Start, Offsets, Topic, external, checkpoint, locals, kafka, history

LEMMA TypePlan == ASSUME TypeOK, Plan PROVE TypeOK'
<1>1. PICK S : planned' = [t \in Topics |->
                   done[t] + Cardinality({i \in Waiting(t) : <<t, i>> \in S})]
  BY DEF Plan
<1>2. ASSUME NEW t \in Topics
      PROVE  /\ planned'[t] \in Nat
             /\ done[t] <= planned'[t] /\ planned'[t] <= Len(log[t])
  <2> DEFINE C == {i \in Waiting(t) : <<t, i>> \in S}
  <2>1. done[t] \in Nat /\ Len(log[t]) \in Nat /\ done[t] <= Len(log[t])
    BY DEF TypeOK
  <2>2. /\ IsFiniteSet(Waiting(t))
        /\ Cardinality(Waiting(t)) = Len(log[t]) - done[t]
    <3> DEFINE a == done[t] + 1
               b == Len(log[t])
    <3>1. a \in Int /\ b \in Int /\ (a > b => b = done[t])
      BY <2>1
    <3>2. /\ IsFiniteSet(a..b)
          /\ Cardinality(a..b) = IF a > b THEN 0 ELSE b - a + 1
      <4> HIDE DEF a, b
      <4> QED BY <3>1, FS_Interval
    <3> QED BY <2>1, <3>1, <3>2 DEF Waiting
  <2>3. C \in SUBSET Waiting(t)
    OBVIOUS
  <2>4. IsFiniteSet(C) /\ Cardinality(C) <= Cardinality(Waiting(t))
    BY <2>2, <2>3, FS_Subset
  <2>5. Cardinality(C) \in Nat
    BY <2>4, FS_CardinalityType
  <2>6. planned'[t] = done[t] + Cardinality(C)
    BY <1>1
  <2>7. Cardinality(C) <= Len(log[t]) - done[t]
    BY <2>2, <2>4
  <2> HIDE DEF C
  <2> QED BY <2>1, <2>5, <2>6, <2>7
<1>3. planned' \in [Topics -> Nat]
  BY <1>1, <1>2
<1>4. /\ UNCHANGED <<clock, log, done, pc, turn, events, rejected, stamps, tx, db,
                    lake, outbox, dlqTopic, lost, crashes>>
      /\ applied' \in BOOLEAN /\ pc = "idle"
  BY DEF Plan, external, locals, kafka
<1> QED BY <1>2, <1>3, <1>4 DEF TypeOK, Tables

LEMMA TypeBegin == ASSUME TypeOK, Begin PROVE TypeOK'
BY DEF TypeOK, Begin, external, checkpoint, kafka, history

LEMMA TypeValidateTopic == ASSUME TypeOK, ValidateTopic PROVE TypeOK'
<1> DEFINE verdict(i) == Verdict(log[Topic][i], clock)
           refused == {i \in Offsets(Topic) : verdict(i) # ""}
           new == {Reject(log[Topic][i], verdict(i)) : i \in refused}
<1>1. turn \in 1..7
  <2>1. pc = "validate" /\ turn <= Len(TopicOrder)
    BY DEF ValidateTopic
  <2>2. turn \in 0..8 /\ turn # 0
    BY <2>1 DEF TypeOK
  <2> QED BY <2>1, <2>2, TopicOrderFacts
<1>2. Topic \in Topics
  BY <1>1, TopicOrderFacts DEF Topic
<1>3. new \subseteq Rejection
  <2>1. ASSUME NEW i \in refused
        PROVE  Reject(log[Topic][i], verdict(i)) \in Rejection
    <3>1. log[Topic][i] \in Msgs
      <4>1. i \in Offsets(Topic)
        OBVIOUS
      <4> QED BY <1>2, <4>1, OffsetsAreLogged
    <3>2. verdict(i) \in Reasons
      BY <3>1, VerdictIsReason
    <3>3. clock \in Instants
      BY DEF TypeOK
    <3> QED BY <3>1, <3>2, <3>3 DEF Reject, Rejection
  <2> QED BY <2>1
<1>4. rejected' = rejected \cup new
  BY DEF ValidateTopic
<1>5. rejected' \subseteq Rejection
  BY <1>3, <1>4 DEF TypeOK
<1>6. events' \subseteq Offsets(Topic)
  BY DEF ValidateTopic, Dedupe
<1>7. /\ UNCHANGED <<clock, log, planned, done, stamps, tx, db, lake, outbox,
                    dlqTopic, lost, crashes, applied>>
      /\ pc = "validate"
      /\ \/ events' = {} /\ turn' = turn + 1 /\ pc' = pc
         \/ pc' = "lake" /\ turn' = turn
  BY DEF ValidateTopic, external, checkpoint, kafka, history
<1> QED BY <1>1, <1>5, <1>6, <1>7 DEF TypeOK, Offsets, Topic, Tables

LEMMA TypeWriteLake == ASSUME TypeOK, WriteLake PROVE TypeOK'
<1>1. lake' \in [Msgs -> 0..MaxLakeRows]
  BY BoundsAssumption DEF TypeOK, WriteLake
<1>2. /\ UNCHANGED <<clock, log, planned, done, turn, events, rejected, stamps, tx,
                    db, outbox, dlqTopic, lost, crashes, applied>>
      /\ pc = "lake" /\ pc' = "sink"
  BY DEF WriteLake, external, checkpoint, locals, kafka, history
<1> QED BY <1>1, <1>2 DEF TypeOK, Offsets, Topic, Tables

\* What the three sink actions share.
LEMMA TypeSink ==
    ASSUME TypeOK, NEW S, S \subseteq events, NextTopic(S),
           pc = "sink", tx' \in Tables, rejected' \subseteq Rejection,
           UNCHANGED <<external, checkpoint, db, lake, kafka, history>>
    PROVE  TypeOK'
<1>1. turn \in 1..7
  BY DEF TypeOK
<1>2. At(S) \subseteq Msgs
  BY EventsAreMsgs DEF At
<1>3. stamps' \subseteq MsgTimes
  BY <1>2, MsgFacts DEF TypeOK, NextTopic
<1>4. pc' = "validate" /\ turn' = turn + 1 /\ events' = {}
  BY DEF NextTopic
<1>5. UNCHANGED <<clock, log, planned, done, db, lake, outbox, dlqTopic, lost,
                  crashes, applied>>
  BY DEF external, checkpoint, kafka, history
<1> QED BY <1>1, <1>3, <1>4, <1>5 DEF TypeOK

LEMMA TypeUpsertSubscribers == ASSUME TypeOK, UpsertSubscribers PROVE TypeOK'
<1>1. At(events) \subseteq Msgs
  BY EventsAreMsgs DEF UpsertSubscribers
<1>2. NewSubscribers \subseteq Msgs
  BY <1>1 DEF NewSubscribers, At
<1>3. tx' \in Tables
  BY <1>2 DEF TypeOK, Tables, UpsertSubscribers
<1>4. rejected' \subseteq Rejection
  BY DEF TypeOK, UpsertSubscribers
<1> QED BY <1>3, <1>4, TypeSink DEF UpsertSubscribers

LEMMA TypeUpdateTowerStatus == ASSUME TypeOK, UpdateTowerStatus PROVE TypeOK'
<1>1. At(events) \subseteq Msgs
  BY EventsAreMsgs DEF UpdateTowerStatus
<1>2. LatestStatus \subseteq Msgs
  BY <1>1 DEF LatestStatus, At
<1>3. tx' \in Tables
  BY <1>2 DEF TypeOK, Tables, UpdateTowerStatus, StatusUpserted
<1>4. rejected' \subseteq Rejection
  BY DEF TypeOK, UpdateTowerStatus
<1> QED BY <1>3, <1>4, TypeSink DEF UpdateTowerStatus

LEMMA TypeInsertFacts == ASSUME TypeOK, InsertFacts PROVE TypeOK'
<1>1. At(events) \subseteq Msgs /\ Known \subseteq events
  BY EventsAreMsgs DEF InsertFacts, Known
<1>2. tx' \in Tables
  <2>1. tx \in Tables
    BY DEF TypeOK
  <2> DEFINE facts2 == [m \in Msgs |-> tx.facts[m] + IF m \in NewFacts THEN 1 ELSE 0]
  <2>2. tx' = [tx EXCEPT !.facts = facts2]
    BY DEF InsertFacts
  <2>3. facts2 \in [Msgs -> Nat]
    BY <2>1 DEF Tables
  <2> HIDE DEF facts2
  <2> QED BY <2>1, <2>2, <2>3 DEF Tables
<1>3. {Reject(m, "subscriber_unknown") : m \in At(events \ Known)} \subseteq Rejection
  <2>1. At(events \ Known) \subseteq Msgs
    BY <1>1 DEF At
  <2>2. clock \in Instants /\ "subscriber_unknown" \in Reasons
    BY DEF TypeOK, Reasons
  <2> QED BY <2>1, <2>2 DEF Reject, Rejection
<1>4. rejected' \subseteq Rejection
  BY <1>3 DEF TypeOK, InsertFacts
<1> QED BY <1>1, <1>2, <1>4, TypeSink DEF InsertFacts

LEMMA TypeDown == ASSUME TypeOK, Down, crashes' \in 0..MaxCrashes PROVE TypeOK'
BY DEF TypeOK, Down, external, checkpoint, Tables

LEMMA TypeSinkRaises == ASSUME TypeOK, SinkRaises PROVE TypeOK'
<1>1. crashes' \in 0..MaxCrashes
  BY DEF TypeOK, SinkRaises
<1> QED BY <1>1, TypeDown DEF SinkRaises

LEMMA TypeCrash == ASSUME TypeOK, Crash PROVE TypeOK'
<1>1. crashes' \in 0..MaxCrashes
  BY BoundsAssumption DEF TypeOK, Crash
<1> QED BY <1>1, TypeDown DEF Crash

LEMMA TypeRefreshRollups == ASSUME TypeOK, RefreshRollups PROVE TypeOK'
<1>1. tx' \in Tables
  <2>1. tx \in Tables
    BY DEF TypeOK
  <2>2. CASE stamps = {}
    BY <2>1, <2>2 DEF RefreshRollups
  <2>3. CASE stamps # {}
    <3> DEFINE table == RolledUp(tx.facts)
               new == Refreshed(tx.rollup, table, stamps)
    <3>1. tx' = [tx EXCEPT !.rollup = new]
      BY <2>3 DEF RefreshRollups
    <3>2. table \in [Msgs -> Nat] /\ tx.rollup \in [Minutes -> [Msgs -> Nat]]
      BY <2>1 DEF RolledUp, Tables
    <3>3. new \in [Minutes -> [Msgs -> Nat]]
      <4> HIDE DEF table
      <4> QED BY <3>2 DEF Refreshed
    <3> HIDE DEF new
    <3> QED BY <2>1, <3>1, <3>3 DEF Tables
  <2> QED BY <2>2, <2>3
<1>2. /\ UNCHANGED <<clock, log, planned, done, turn, events, rejected, stamps,
                    db, lake, outbox, dlqTopic, lost, crashes, applied>>
      /\ pc = "validate" /\ pc' = "commit"
  BY DEF RefreshRollups, external, checkpoint, locals, kafka, history
<1> QED BY <1>1, <1>2 DEF TypeOK

LEMMA TypeCommit == ASSUME TypeOK, Commit PROVE TypeOK'
BY DEF TypeOK, Commit, external, checkpoint, locals, kafka, Tables

LEMMA TypePublishRejections == ASSUME TypeOK, PublishRejections PROVE TypeOK'
BY DEF TypeOK, PublishRejections, external, checkpoint, locals, history, Tables

LEMMA TypeSender == ASSUME TypeOK, Deliver \/ LoseSend PROVE TypeOK'
BY DEF TypeOK, Deliver, LoseSend, external, checkpoint, locals, history,
       Offsets, Topic, Tables

LEMMA TypeFinishBatch == ASSUME TypeOK, FinishBatch PROVE TypeOK'
BY DEF TypeOK, FinishBatch, external, kafka, history, Tables

LEMMA TypeStutter == ASSUME TypeOK, UNCHANGED vars PROVE TypeOK'
BY DEF TypeOK, vars, external, checkpoint, locals, kafka, history, Offsets,
       Topic, Tables

(***************************************************************************)
(* Where the query shares its driver with another one, that one's failure may *)
(* take it down at any point.  Every invariant below is kept by such an exit    *)
(* too, so that it holds of the query in the whole pipeline.                 *)
(***************************************************************************)
Exits == Down /\ crashes' \in 0..MaxCrashes
Moves == [Next]_vars \/ Exits

LEMMA NextMoves == [Next]_vars => Moves
BY DEF Moves

LEMMA TypeStep == TypeOK /\ Moves => TypeOK'
<1> SUFFICES ASSUME TypeOK, Moves PROVE TypeOK'
  OBVIOUS
<1>1. CASE Exits
  BY <1>1, TypeDown DEF Exits
<1> QED BY <1>1, TypePublish, TypeTick, TypeStart, TypePlan, TypeBegin,
           TypeValidateTopic, TypeWriteLake, TypeUpsertSubscribers,
           TypeUpdateTowerStatus, TypeInsertFacts, TypeSinkRaises, TypeCrash,
           TypeRefreshRollups, TypeCommit, TypePublishRejections, TypeSender,
           TypeFinishBatch, TypeStutter
        DEF Moves, Next, DriverStep

\* The type invariant: in particular every batch lies within the logs, the
\* locals of process are empty while it does not run, and no transaction stays
\* open across batches, crashes or exceptions.
THEOREM TypeCorrect == Spec => []TypeOK
BY TypeInit, TypeStep, NextMoves, PTL DEF Spec

-----------------------------------------------------------------------------
(***************************************************************************)
(* The rollups.  RollupsMatchFacts is not inductive: it says nothing of the *)
(* open transaction that Commit makes the committed state.  While the       *)
(* topics are processed the transaction's rollups are still those of the    *)
(* committed state, and its facts differ only in messages whose timestamps  *)
(* have been noted; the refresh then makes rollups and facts agree.         *)
(***************************************************************************)
RollupInv ==
    /\ RollupsMatchFacts
    /\ pc \in {"validate", "lake", "sink"} =>
          /\ tx.rollup = db.rollup
          /\ \A m \in Msgs : tx.facts[m] # db.facts[m] => m.ts \in stamps
    /\ pc = "commit" => tx.rollup = Tally(RolledUp(tx.facts), Minutes)

LEMMA RollupInit == Init => RollupInv
<1>1. ASSUME Init PROVE RollupsMatchFacts
  <2>1. /\ db.facts = [m \in Msgs |-> 0]
        /\ db.rollup = [mi \in Minutes |-> [m \in Msgs |-> 0]]
    BY <1>1 DEF Init, EmptyTables, NoRows
  <2>2. RolledUp(db.facts) = [m \in Msgs |-> 0]
    BY <2>1 DEF RolledUp
  <2> QED BY <2>1, <2>2 DEF RollupsMatchFacts, Tally
<1> QED BY <1>1 DEF Init, RollupInv

\* Steps that leave the tables and the stamps alone and do not enter process.
LEMMA RollupUnchanged ==
    ASSUME RollupInv, UNCHANGED <<tx, db, stamps>>,
           pc' = pc \/ {pc, pc'} \subseteq {"validate", "lake", "sink"}
                    \/ pc' \notin {"validate", "lake", "sink", "commit"}
    PROVE  RollupInv'
BY DEF RollupInv, RollupsMatchFacts

LEMMA RollupBegin == ASSUME TypeOK, RollupInv, Begin PROVE RollupInv'
<1>1. tx = db /\ UNCHANGED <<tx, db>> /\ pc' = "validate"
  BY DEF Begin, TypeOK
<1> QED BY <1>1 DEF RollupInv, RollupsMatchFacts

\* The statements on the dimension tables leave facts and rollups alone.
LEMMA RollupDimensions ==
    ASSUME TypeOK, RollupInv, UpsertSubscribers \/ UpdateTowerStatus
    PROVE  RollupInv'
<1>1. /\ tx'.facts = tx.facts /\ tx'.rollup = tx.rollup
      /\ pc = "sink" /\ pc' = "validate" /\ db' = db /\ stamps \subseteq stamps'
  BY DEF TypeOK, Tables, UpsertSubscribers, UpdateTowerStatus, NextTopic
<1> QED BY <1>1 DEF RollupInv, RollupsMatchFacts

\* Every fact inserted is of an event whose timestamp is noted.
LEMMA RollupInsertFacts ==
    ASSUME TypeOK, RollupInv, InsertFacts
    PROVE  RollupInv'
<1>1. /\ tx'.rollup = tx.rollup
      /\ pc = "sink" /\ pc' = "validate" /\ db' = db
      /\ stamps' = stamps \cup {m.ts : m \in At(Known)}
  BY DEF TypeOK, Tables, InsertFacts, NextTopic
<1>2. ASSUME NEW m \in Msgs, m \notin NewFacts
      PROVE  tx'.facts[m] = tx.facts[m]
  <2>1. tx \in Tables
    BY DEF TypeOK
  <2>2. tx'.facts[m] = tx.facts[m] + 0
    BY <1>2, <2>1 DEF InsertFacts, Tables
  <2>3. tx.facts[m] \in Nat
    BY <2>1 DEF Tables
  <2> QED BY <2>2, <2>3
<1>3. \A m \in NewFacts : m \in At(Known)
  BY DEF NewFacts
<1>4. \A m \in Msgs : tx'.facts[m] # db.facts[m] => m.ts \in stamps'
  BY <1>1, <1>2, <1>3 DEF RollupInv
<1> QED BY <1>1, <1>4 DEF RollupInv, RollupsMatchFacts

\* The one refresh at the end of the batch covers all its minutes.
LEMMA RollupRefresh ==
    ASSUME TypeOK, RollupInv, RefreshRollups
    PROVE  RollupInv'
<1> DEFINE old == RolledUp(db.facts)
           new == RolledUp(tx.facts)
<1>1. /\ pc = "validate" /\ pc' = "commit" /\ db' = db
      /\ db.rollup = Tally(old, Minutes) /\ tx.rollup = db.rollup
      /\ \A m \in Msgs : tx.facts[m] # db.facts[m] => m.ts \in stamps
  BY DEF RefreshRollups, RollupInv, RollupsMatchFacts
<1>2. tx \in Tables /\ db \in Tables
  BY DEF TypeOK
<1>3. old \in [Msgs -> Nat] /\ new \in [Msgs -> Nat]
  BY <1>2 DEF RolledUp, Tables
<1>4. \A m \in Msgs : old[m] # new[m] => m.ts \in stamps
  BY <1>1 DEF RolledUp
<1>5. tx'.facts = tx.facts
  BY <1>2 DEF RefreshRollups, Tables
<1>6. tx'.rollup = Tally(new, Minutes)
  <2>1. CASE stamps = {}
    <3>1. old = new
      BY <1>1, <2>1 DEF RolledUp
    <3> QED BY <1>1, <2>1, <3>1 DEF RefreshRollups
  <2>2. CASE stamps # {}
    <3>1. tx'.rollup = Refreshed(Tally(old, Minutes), new, stamps)
      BY <1>1, <1>2, <2>2 DEF RefreshRollups, Tables
    <3>2. stamps \in SUBSET Nat /\ IsFiniteSet(stamps)
      BY MsgFacts, MsgTimesFinite, FS_Subset DEF TypeOK
    <3>3. /\ \A m \in Msgs : m.ts \in Nat
          /\ \A mi \in Minutes : mi \in Nat
      BY MsgFacts
    <3> HIDE DEF old, new
    <3> QED BY <1>3, <1>4, <2>2, <3>1, <3>2, <3>3, RefreshRestoresTally
  <2> QED BY <2>1, <2>2
<1> QED BY <1>1, <1>5, <1>6 DEF RollupInv, RollupsMatchFacts

LEMMA RollupCommit == ASSUME TypeOK, RollupInv, Commit PROVE RollupInv'
BY DEF RollupInv, RollupsMatchFacts, Commit

LEMMA RollupDown == ASSUME RollupInv, Down PROVE RollupInv'
BY DEF RollupInv, RollupsMatchFacts, Down

LEMMA RollupStep == TypeOK /\ RollupInv /\ Moves => RollupInv'
<1> SUFFICES ASSUME TypeOK, RollupInv, Moves PROVE RollupInv'
  OBVIOUS
<1>1. CASE \E m \in Msgs : Publish(m)
  BY <1>1, RollupUnchanged DEF Publish, locals
<1>2. CASE Tick
  BY <1>2, RollupUnchanged DEF Tick, locals
<1>3. CASE Start
  BY <1>3, RollupUnchanged DEF Start, locals
<1>4. CASE Plan
  BY <1>4, RollupUnchanged DEF Plan, locals
<1>5. CASE ValidateTopic
  BY <1>5, RollupUnchanged DEF ValidateTopic
<1>6. CASE WriteLake
  BY <1>6, RollupUnchanged DEF WriteLake, locals
<1>7. CASE PublishRejections
  BY <1>7, RollupUnchanged DEF PublishRejections, locals
<1>8. CASE Deliver \/ LoseSend
  BY <1>8, RollupUnchanged DEF Deliver, LoseSend, locals
<1>9. CASE FinishBatch
  BY <1>9 DEF FinishBatch, RollupInv, RollupsMatchFacts
<1>10. CASE SinkRaises \/ Crash \/ Exits
  BY <1>10, RollupDown DEF SinkRaises, Crash, Exits
<1>11. CASE UNCHANGED vars
  BY <1>11, RollupUnchanged DEF vars, locals
<1> QED BY <1>1, <1>2, <1>3, <1>4, <1>5, <1>6, <1>7, <1>8, <1>9, <1>10, <1>11,
           RollupBegin, RollupDimensions, RollupInsertFacts, RollupRefresh,
           RollupCommit
        DEF Moves, Next, DriverStep

\* Every committed state has rollups that are exactly what its facts say,
\* whatever the batches, crashes, replays and interleavings that led to it.
THEOREM RollupsCorrect == Spec => []RollupsMatchFacts
<1>1. RollupInv => RollupsMatchFacts
  BY DEF RollupInv
<1> QED BY TypeCorrect, RollupInit, RollupStep, NextMoves, <1>1, PTL DEF Spec
-----------------------------------------------------------------------------
(***************************************************************************)
(* The rows: keys, permanence, order of statuses, and the lake's being ahead.  *)
(*                                                                         *)
(* Each property speaks of the committed tables.  Commit makes the tables of  *)
(* the open transaction the committed ones, so each invariant holds the       *)
(* same of tx, and the properties that compare a state with the next one      *)
(* need in addition that tx has kept what is committed.                     *)
(***************************************************************************)

(* What is said of the committed tables, of any tables. *)

FactKeys(t) ==
    \A f \in Stored(t.facts) :
        /\ t.facts[f] = 1
        /\ \A g \in Stored(t.facts) : f.topic = g.topic /\ f.id = g.id => f = g
        /\ \E s \in t.subs : s.key = f.key
SubKeys(t) == \A s, r \in t.subs : s.key = r.key \/ s.msisdn = r.msisdn => s = r
TowerKeys(t) == \A s, r \in t.towers : s.key = r.key => s = r
Keys(t) == FactKeys(t) /\ SubKeys(t) /\ TowerKeys(t)

\* u has every row of t, or for a tower one that is not older.
Extends(t, u) ==
    /\ t.subs \subseteq u.subs
    /\ Stored(t.facts) \subseteq Stored(u.facts)
    /\ \A s \in t.towers : \E r \in u.towers : r.key = s.key /\ r.ts >= s.ts

InLake(t) == \A m \in Stored(t.facts) \cup t.subs \cup t.towers : lake[m] > 0

\* What _dedupe leaves.
DistinctIds ==
    \A i, j \in events : log[Topic][i].id = log[Topic][j].id => i = j

RowsInv ==
    /\ Keys(db) /\ Keys(tx)
    /\ Extends(db, tx)
    /\ InLake(db) /\ InLake(tx)
    /\ pc = "sink" => \A m \in At(events) : lake[m] > 0
    /\ pc \in {"lake", "sink"} => DistinctIds

LEMMA ExtendsItself ==
    ASSUME NEW t \in Tables
    PROVE  Extends(t, t)
<1>1. \A s \in t.towers : s.ts \in Nat
  BY MsgFacts DEF Tables
<1> QED BY <1>1 DEF Extends

LEMMA ExtendsThrough ==
    ASSUME NEW t \in Tables, NEW u \in Tables, NEW v \in Tables,
           Extends(t, u), Extends(u, v)
    PROVE  Extends(t, v)
<1>1. ASSUME NEW s \in t.towers
      PROVE  \E r \in v.towers : r.key = s.key /\ r.ts >= s.ts
  <2>1. PICK q \in u.towers : q.key = s.key /\ q.ts >= s.ts
    BY DEF Extends
  <2>2. PICK r \in v.towers : r.key = q.key /\ r.ts >= q.ts
    BY DEF Extends
  <2>3. s.ts \in Nat /\ q.ts \in Nat /\ r.ts \in Nat
    BY MsgFacts DEF Tables
  <2> QED BY <2>1, <2>2, <2>3
<1> QED BY <1>1 DEF Extends

\* What the statement on a topic does to the tables: it keeps the keys, extends
\* the tables, and adds rows of the topic's events only.
Sound(t, u, new) ==
    /\ u \in Tables /\ Keys(u) /\ Extends(t, u)
    /\ Stored(u.facts) \cup u.subs \cup u.towers
         \subseteq Stored(t.facts) \cup t.subs \cup t.towers \cup new

-----------------------------------------------------------------------------
(* INSERT INTO dim_subscriber ... ON CONFLICT (subscriber_id) DO NOTHING.  *)

LEMMA SubscribersSound ==
    ASSUME TypeOK, RowsInv, UpsertSubscribers
    PROVE  Sound(tx, tx', At(events))
<1> DEFINE new == NewSubscribers
<1>1. tx \in Tables /\ Keys(tx) /\ At(events) \subseteq Msgs
  BY EventsAreMsgs DEF TypeOK, RowsInv, UpsertSubscribers
<1>2. new \subseteq At(events)
  BY DEF NewSubscribers, At
<1>3. /\ tx' \in Tables /\ tx'.subs = tx.subs \cup new
      /\ tx'.facts = tx.facts /\ tx'.towers = tx.towers
  BY <1>1, <1>2 DEF UpsertSubscribers, Tables
<1>4. ASSUME NEW s \in new, NEW r \in tx.subs PROVE s.key # r.key
  BY DEF NewSubscribers, At
<1>5. ASSUME NEW s \in new, NEW r \in new, s.key = r.key PROVE s = r
  <2>1. PICK i \in events : /\ s = log[Topic][i]
                            /\ \A j \in events : j < i => log[Topic][j].key # s.key
    BY DEF NewSubscribers, At
  <2>2. PICK k \in events : /\ r = log[Topic][k]
                            /\ \A j \in events : j < k => log[Topic][j].key # r.key
    BY DEF NewSubscribers, At
  <2>3. i \in Int /\ k \in Int
    BY DEF TypeOK, UpsertSubscribers, Offsets
  <2>4. ~(i < k) /\ ~(k < i)
    BY <1>5, <2>1, <2>2
  <2> QED BY <2>1, <2>2, <2>3, <2>4
<1>6. SubKeys(tx')
  <2>1. ~MsisdnClash
    BY DEF UpsertSubscribers
  <2> SUFFICES ASSUME NEW s \in tx.subs \cup new, NEW r \in tx.subs \cup new,
                      s.key = r.key \/ s.msisdn = r.msisdn
               PROVE  s = r
    BY <1>3 DEF SubKeys
  <2>2. CASE s.key = r.key
    BY <1>1, <1>4, <1>5, <2>2 DEF Keys, SubKeys
  <2>3. CASE s.key # r.key
    <3>1. s \in tx.subs /\ r \in tx.subs
      BY <2>1, <2>3 DEF MsisdnClash
    <3> QED BY <1>1, <3>1 DEF Keys, SubKeys
  <2> QED BY <2>2, <2>3
<1>7. Keys(tx')
  BY <1>1, <1>3, <1>6 DEF Keys, FactKeys, TowerKeys
<1>8. Extends(tx, tx')
  BY <1>1, <1>3, ExtendsItself DEF Extends
<1> QED BY <1>2, <1>3, <1>7, <1>8 DEF Sound

-----------------------------------------------------------------------------
(* tower_status_current: the latest event of each tower, if it is newer.   *)

LEMMA TowersSound ==
    ASSUME TypeOK, RowsInv, UpdateTowerStatus
    PROVE  Sound(tx, tx', At(events))
<1> DEFINE new == LatestStatus
<1>1. tx \in Tables /\ Keys(tx) /\ At(events) \subseteq Msgs
  BY EventsAreMsgs DEF TypeOK, RowsInv, UpdateTowerStatus
<1>2. new \subseteq At(events)
  BY DEF LatestStatus, At
<1>3. StatusUpserted(tx.towers, new) \subseteq tx.towers \cup new
  BY DEF StatusUpserted
<1>4. /\ tx' \in Tables /\ tx'.towers = StatusUpserted(tx.towers, new)
      /\ tx'.facts = tx.facts /\ tx'.subs = tx.subs
  <2> HIDE DEF new
  <2>1. tx' = [tx EXCEPT !.towers = StatusUpserted(@, new)]
    BY DEF UpdateTowerStatus, new
  <2> QED BY <1>1, <1>2, <1>3, <2>1 DEF Tables
<1>5. \A m \in tx.towers \cup new : m.ts \in Nat
  BY <1>1, <1>2, MsgFacts DEF Tables
<1>6. ASSUME NEW s \in new, NEW r \in new, s.key = r.key PROVE s = r
  <2>1. PICK i \in events :
          /\ s = log[Topic][i]
          /\ \A j \in events : log[Topic][j].key = s.key =>
                \/ log[Topic][j].ts < s.ts
                \/ log[Topic][j].ts = s.ts /\ i <= j
    BY DEF LatestStatus, At
  <2>2. PICK k \in events :
          /\ r = log[Topic][k]
          /\ \A j \in events : log[Topic][j].key = r.key =>
                \/ log[Topic][j].ts < r.ts
                \/ log[Topic][j].ts = r.ts /\ k <= j
    BY DEF LatestStatus, At
  <2>3. i \in Int /\ k \in Int
    BY DEF TypeOK, UpdateTowerStatus, Offsets
  <2>4. (r.ts < s.ts \/ (r.ts = s.ts /\ i <= k)) /\ (s.ts < r.ts \/ (s.ts = r.ts /\ k <= i))
    BY <1>6, <2>1, <2>2
  <2>5. s.ts \in Nat /\ r.ts \in Nat
    BY <1>5
  <2>6. i = k
    BY <2>3, <2>4, <2>5
  <2> QED BY <2>1, <2>2, <2>6
<1>7. TowerKeys(tx')
  <2> SUFFICES ASSUME NEW s \in StatusUpserted(tx.towers, new),
                      NEW r \in StatusUpserted(tx.towers, new), s.key = r.key
               PROVE  s = r
    BY <1>4 DEF TowerKeys
  <2> HIDE DEF new
  <2> QED BY <1>1, <1>5, <1>6 DEF StatusUpserted, Keys, TowerKeys
<1>8. ASSUME NEW s \in tx.towers
      PROVE  \E r \in tx'.towers : r.key = s.key /\ r.ts >= s.ts
  <2> HIDE DEF new
  <2>1. CASE \E e \in new : e.key = s.key /\ e.ts > s.ts
    <3>1. PICK e \in new : e.key = s.key /\ e.ts > s.ts
      BY <2>1
    <3>2. \A r \in tx.towers : r.key = e.key => r = s
      BY <1>1, <3>1 DEF Keys, TowerKeys
    <3>3. e \in StatusUpserted(tx.towers, new)
      BY <3>1, <3>2 DEF StatusUpserted
    <3>4. e.ts \in Nat /\ s.ts \in Nat
      BY <1>5
    <3> QED BY <1>4, <3>1, <3>3, <3>4
  <2>2. CASE ~ \E e \in new : e.key = s.key /\ e.ts > s.ts
    <3>1. s \in StatusUpserted(tx.towers, new)
      BY <2>2 DEF StatusUpserted
    <3> QED BY <1>4, <1>5, <3>1
  <2> QED BY <2>1, <2>2
<1>9. Extends(tx, tx')
  BY <1>4, <1>8 DEF Extends
<1>10. Keys(tx')
  BY <1>1, <1>4, <1>7 DEF Keys, FactKeys, SubKeys
<1> QED BY <1>2, <1>3, <1>4, <1>9, <1>10 DEF Sound

-----------------------------------------------------------------------------
(* INSERT INTO fact_* ... ON CONFLICT (event_id) DO NOTHING.               *)

LEMMA FactsSound ==
    ASSUME TypeOK, RowsInv, InsertFacts
    PROVE  Sound(tx, tx', At(events))
<1>1. /\ tx \in Tables /\ Keys(tx) /\ At(events) \subseteq Msgs
      /\ At(Known) \subseteq At(events)
  BY EventsAreMsgs DEF TypeOK, RowsInv, InsertFacts
<1>2. NewFacts \subseteq At(Known) /\ NewFacts \subseteq Msgs
  BY <1>1 DEF NewFacts
<1> DEFINE facts2 == [m \in Msgs |-> tx.facts[m] + IF m \in NewFacts THEN 1 ELSE 0]
<1>3. facts2 \in [Msgs -> Nat] /\ \A m \in Msgs : tx.facts[m] \in Nat
  BY <1>1 DEF Tables
<1>4. /\ tx' \in Tables /\ tx'.facts = facts2
      /\ tx'.subs = tx.subs /\ tx'.towers = tx.towers
  <2>1. tx' = [tx EXCEPT !.facts = facts2]
    BY DEF InsertFacts
  <2> HIDE DEF facts2
  <2> QED BY <1>1, <1>3, <2>1 DEF Tables
<1>5. Stored(tx'.facts) = Stored(tx.facts) \cup NewFacts
  BY <1>2, <1>3, <1>4 DEF Stored
<1>6. ASSUME NEW f \in NewFacts PROVE \E s \in tx.subs : s.key = f.key
  <2>1. PICK i \in Known : f = log[Topic][i]
    BY <1>2 DEF At
  <2> QED BY <2>1 DEF Known
<1>7. ASSUME NEW f \in NewFacts, NEW g \in Stored(tx.facts), g.topic = f.topic
      PROVE  g.id # f.id
  BY <1>7 DEF NewFacts
<1>8. ASSUME NEW f \in NewFacts, NEW g \in NewFacts, f.id = g.id PROVE f = g
  <2>1. PICK i \in Known : f = log[Topic][i]
    BY <1>2 DEF At
  <2>2. PICK j \in Known : g = log[Topic][j]
    BY <1>2 DEF At
  <2>3. i \in events /\ j \in events /\ DistinctIds
    BY DEF Known, RowsInv, InsertFacts
  <2>4. i = j
    BY <1>8, <2>1, <2>2, <2>3 DEF DistinctIds
  <2> QED BY <2>1, <2>2, <2>4
<1>9. ASSUME NEW f \in Stored(tx'.facts) PROVE tx'.facts[f] = 1
  <2>1. CASE f \in NewFacts
    <3>1. f \notin Stored(tx.facts) /\ f \in Msgs
      BY <1>2, <1>7, <2>1
    <3>2. tx.facts[f] = 0
      BY <1>3, <3>1 DEF Stored
    <3> QED BY <1>4, <2>1, <3>1, <3>2
  <2>2. CASE f \notin NewFacts
    <3>1. f \in Stored(tx.facts) /\ f \in Msgs
      BY <1>5, <2>2 DEF Stored
    <3>2. tx.facts[f] = 1
      BY <1>1, <3>1 DEF Keys, FactKeys
    <3> QED BY <1>4, <2>2, <3>1, <3>2
  <2> QED BY <2>1, <2>2
<1>10. ASSUME NEW f \in Stored(tx'.facts), NEW g \in Stored(tx'.facts),
              f.topic = g.topic, f.id = g.id
       PROVE  f = g
  <2>1. f \in Stored(tx.facts) \cup NewFacts /\ g \in Stored(tx.facts) \cup NewFacts
    BY <1>5
  <2>2. CASE f \in Stored(tx.facts) /\ g \in Stored(tx.facts)
    BY <1>1, <1>10, <2>2 DEF Keys, FactKeys
  <2>3. CASE f \in NewFacts /\ g \in NewFacts
    BY <1>8, <1>10, <2>3
  <2> QED BY <1>7, <1>10, <2>1, <2>2, <2>3
<1>11. ASSUME NEW f \in Stored(tx'.facts) PROVE \E s \in tx.subs : s.key = f.key
  BY <1>1, <1>5, <1>6 DEF Keys, FactKeys
<1>12. Keys(tx')
  BY <1>1, <1>4, <1>9, <1>10, <1>11 DEF Keys, FactKeys, SubKeys, TowerKeys
<1>13. Extends(tx, tx')
  BY <1>1, <1>4, <1>5, ExtendsItself DEF Extends
<1> QED BY <1>1, <1>2, <1>4, <1>5, <1>12, <1>13 DEF Sound

-----------------------------------------------------------------------------
(* The actions.                                                            *)

LEMMA RowsInit == Init => RowsInv
<1> SUFFICES ASSUME Init PROVE RowsInv
  OBVIOUS
<1>1. /\ tx = db /\ db.subs = {} /\ db.towers = {} /\ db.facts = [m \in Msgs |-> 0]
      /\ pc = "down"
  BY DEF Init, EmptyTables, NoRows
<1>2. Stored(db.facts) = {}
  BY <1>1 DEF Stored
<1>3. Keys(db) /\ Extends(db, db) /\ InLake(db)
  BY <1>1, <1>2 DEF Keys, FactKeys, SubKeys, TowerKeys, Extends, InLake
<1> QED BY <1>1, <1>3 DEF RowsInv

\* Steps outside the sinks that leave tables and lake alone.
LEMMA RowsUnchanged ==
    ASSUME RowsInv, UNCHANGED <<tx, db, lake>>,
           pc' \in {"lake", "sink"} => /\ UNCHANGED <<pc, turn, events>>
                                      /\ \A i \in events : log'[Topic][i] = log[Topic][i]
    PROVE  RowsInv'
<1>1. UNCHANGED <<Keys(db), Keys(tx), Extends(db, tx), InLake(db), InLake(tx)>>
  BY DEF Keys, FactKeys, SubKeys, TowerKeys, Extends, InLake
<1>2. ASSUME pc' \in {"lake", "sink"}
      PROVE  UNCHANGED <<At(events), DistinctIds>>
  <2>1. Topic' = Topic
    BY <1>2 DEF Topic
  <2> QED BY <1>2, <2>1 DEF At, DistinctIds
<1> QED BY <1>1, <1>2 DEF RowsInv

LEMMA RowsPublish ==
    ASSUME TypeOK, RowsInv, NEW m \in Msgs, Publish(m)
    PROVE  RowsInv'
<1>1. UNCHANGED <<pc, turn, events, tx, db, lake>>
  BY DEF Publish, locals
<1>2. ASSUME pc \in {"lake", "sink"}, NEW i \in events
      PROVE  log'[Topic][i] = log[Topic][i]
  <2>1. Topic \in Topics /\ i \in Offsets(Topic)
    BY <1>2, EventsAreMsgs DEF TypeOK
  <2>2. i \in DOMAIN log[Topic] /\ i \in Nat
    BY <2>1, OffsetsAreLogged
  <2>3. log \in [Topics -> Seq(Msgs)] /\ m.topic \in Topics
    BY MsgFacts DEF TypeOK
  <2>4. log'[Topic] = IF Topic = m.topic THEN Append(log[Topic], m) ELSE log[Topic]
    BY <2>1, <2>3 DEF Publish
  <2>5. log[Topic] \in Seq(Msgs)
    BY <2>1, <2>3
  <2> QED BY <2>2, <2>4, <2>5
<1> QED BY <1>1, <1>2, RowsUnchanged

LEMMA RowsValidate == ASSUME TypeOK, RowsInv, ValidateTopic PROVE RowsInv'
<1>1. /\ UNCHANGED <<log, done, planned, tx, db, lake>> /\ pc' \in {"validate", "lake"}
      /\ pc' = "lake" => turn' = turn
  BY DEF ValidateTopic, external, checkpoint
<1>2. UNCHANGED <<Keys(db), Keys(tx), Extends(db, tx), InLake(db), InLake(tx)>>
  BY <1>1 DEF Keys, FactKeys, SubKeys, TowerKeys, Extends, InLake
<1>3. ASSUME pc' = "lake" PROVE DistinctIds'
  <2>1. PICK S : events' = Dedupe(S) /\ S \subseteq Offsets(Topic)
    BY DEF ValidateTopic
  <2>2. \A i \in events' : i \in S /\ i \in Int
    BY <2>1 DEF Dedupe, Offsets
  <2>3. Topic' = Topic
    BY <1>1, <1>3 DEF Topic
  <2>4. ASSUME NEW i \in events', NEW j \in events', log[Topic][i].id = log[Topic][j].id
        PROVE  i = j
    <3>1. ~(i < j) /\ ~(j < i)
      BY <2>1, <2>2, <2>4 DEF Dedupe
    <3> QED BY <2>2, <3>1
  <2> QED BY <1>1, <2>3, <2>4 DEF DistinctIds
<1> QED BY <1>1, <1>2, <1>3 DEF RowsInv

LEMMA RowsWriteLake == ASSUME TypeOK, RowsInv, WriteLake PROVE RowsInv'
<1>1. /\ UNCHANGED <<log, turn, events, tx, db>> /\ pc = "lake" /\ pc' = "sink"
      /\ lake' = [m \in Msgs |-> IF m \in At(events) /\ lake[m] < MaxLakeRows
                                   THEN lake[m] + 1 ELSE lake[m]]
  BY DEF WriteLake, external, locals
<1>2. At(events) \subseteq Msgs /\ lake \in [Msgs -> 0..MaxLakeRows]
      /\ MaxLakeRows \in Nat \ {0}
  BY <1>1, EventsAreMsgs, BoundsAssumption DEF TypeOK
<1>3. \A m \in Msgs : lake[m] > 0 \/ m \in At(events) => lake'[m] > 0
  BY <1>1, <1>2
<1>4. /\ Stored(db.facts) \cup db.subs \cup db.towers \subseteq Msgs
      /\ Stored(tx.facts) \cup tx.subs \cup tx.towers \subseteq Msgs
  BY DEF TypeOK, Tables, Stored
<1>5. InLake(db)' /\ InLake(tx)'
  BY <1>1, <1>3, <1>4 DEF RowsInv, InLake
<1>6. UNCHANGED <<At(events), DistinctIds>>
  BY <1>1 DEF At, DistinctIds, Topic
<1>7. \A m \in At(events) : lake'[m] > 0
  BY <1>2, <1>3
<1>8. UNCHANGED <<Keys(db), Keys(tx), Extends(db, tx)>>
  BY <1>1 DEF Keys, FactKeys, SubKeys, TowerKeys, Extends
<1> QED BY <1>1, <1>5, <1>6, <1>7, <1>8 DEF RowsInv

LEMMA RowsSinks ==
    ASSUME TypeOK, TypeOK', RowsInv, UpsertSubscribers \/ UpdateTowerStatus \/ InsertFacts
    PROVE  RowsInv'
<1>1. Sound(tx, tx', At(events))
  BY SubscribersSound, TowersSound, FactsSound
<1>2. pc = "sink" /\ pc' = "validate" /\ UNCHANGED <<db, lake>>
  BY DEF UpsertSubscribers, UpdateTowerStatus, InsertFacts, NextTopic
<1>3. db \in Tables /\ tx \in Tables
  BY DEF TypeOK
<1>4. Extends(db, tx')
  BY <1>1, <1>3, ExtendsThrough DEF RowsInv, Sound
<1>5. InLake(tx)' /\ InLake(db)'
  BY <1>1, <1>2 DEF RowsInv, Sound, InLake
<1>6. Keys(db)' /\ Keys(tx)' /\ Extends(db, tx)'
  BY <1>1, <1>2, <1>4 DEF RowsInv, Sound, Keys, FactKeys, SubKeys, TowerKeys, Extends
<1> QED BY <1>2, <1>5, <1>6 DEF RowsInv

LEMMA RowsRefresh == ASSUME TypeOK, RowsInv, RefreshRollups PROVE RowsInv'
<1>1. /\ tx'.subs = tx.subs /\ tx'.facts = tx.facts /\ tx'.towers = tx.towers
      /\ UNCHANGED <<db, lake>> /\ pc' = "commit"
  BY DEF RefreshRollups, TypeOK, Tables
<1> QED BY <1>1 DEF RowsInv, Keys, FactKeys, SubKeys, TowerKeys, Extends, InLake

LEMMA RowsCommit == ASSUME TypeOK, RowsInv, Commit PROVE RowsInv'
<1>1. db' = tx /\ tx' = tx /\ lake' = lake /\ pc' = "publish" /\ tx \in Tables
  BY DEF Commit, TypeOK
<1>2. Extends(tx, tx)
  BY <1>1, ExtendsItself
<1> QED BY <1>1, <1>2 DEF RowsInv, Keys, FactKeys, SubKeys, TowerKeys, Extends, InLake

LEMMA RowsDown == ASSUME TypeOK, RowsInv, Down PROVE RowsInv'
<1>1. db' = db /\ tx' = db /\ lake' = lake /\ pc' = "down" /\ db \in Tables
  BY DEF Down, TypeOK
<1>2. Extends(db, db)
  BY <1>1, ExtendsItself
<1> QED BY <1>1, <1>2 DEF RowsInv, Keys, FactKeys, SubKeys, TowerKeys, Extends, InLake

LEMMA RowsStep == TypeOK /\ TypeOK' /\ RowsInv /\ Moves => RowsInv'
<1> SUFFICES ASSUME TypeOK, TypeOK', RowsInv, Moves PROVE RowsInv'
  OBVIOUS
<1>1. CASE Tick \/ Deliver \/ LoseSend \/ UNCHANGED vars
  <2>1. UNCHANGED <<log, pc, turn, events, tx, db, lake>>
    BY <1>1 DEF Tick, Deliver, LoseSend, vars, external, locals
  <2> QED BY <2>1, RowsUnchanged
<1>2. CASE Start \/ Plan \/ Begin \/ PublishRejections \/ FinishBatch
  <2>1. UNCHANGED <<tx, db, lake>> /\ pc' \in {"idle", "validate", "flush"}
    BY <1>2 DEF Start, Plan, Begin, PublishRejections, FinishBatch
  <2> QED BY <2>1, RowsUnchanged
<1>3. CASE SinkRaises \/ Crash \/ Exits
  BY <1>3, RowsDown DEF SinkRaises, Crash, Exits
<1> QED BY <1>1, <1>2, <1>3, RowsPublish, RowsValidate, RowsWriteLake, RowsSinks,
           RowsRefresh, RowsCommit
        DEF Moves, Next, DriverStep

-----------------------------------------------------------------------------
(* The theorems.                                                           *)

\* However often messages are resent and batches replayed, an event has one
\* row in its fact table, every fact has its subscriber, and dim_subscriber and
\* tower_status_current have one row per key.
THEOREM KeysCorrect == Spec => []KeysHold
<1>1. RowsInv => KeysHold
  BY DEF RowsInv, Keys, FactKeys, SubKeys, TowerKeys, KeysHold
<1> QED BY TypeCorrect, RowsInit, RowsStep, NextMoves, <1>1, PTL DEF Spec

\* Every row of the warehouse has been appended to the lake.
THEOREM LakeAhead == Spec => []LakeCoversWarehouse
<1>1. RowsInv => LakeCoversWarehouse
  BY DEF RowsInv, InLake, LakeCoversWarehouse
<1> QED BY TypeCorrect, RowsInit, RowsStep, NextMoves, <1>1, PTL DEF Spec

LEMMA OnlyCommitWrites == ASSUME Moves, ~Commit PROVE db' = db
BY DEF Moves, Exits, Next, DriverStep, Publish, Tick, Start, Plan, Begin, ValidateTopic, WriteLake,
       UpsertSubscribers, UpdateTowerStatus, InsertFacts, SinkRaises, RefreshRollups,
       PublishRejections, Deliver, LoseSend, FinishBatch, Crash, Down, vars

LEMMA CommitExtends ==
    ASSUME TypeOK, RowsInv, Moves
    PROVE  Extends(db, db')
<1>1. CASE Commit
  BY <1>1 DEF Commit, RowsInv
<1>2. CASE ~Commit
  BY <1>2, OnlyCommitWrites, ExtendsItself DEF TypeOK
<1> QED BY <1>1, <1>2

\* Subscribers and facts that were committed once are never changed or removed.
THEOREM RowsStay == Spec => CommittedRowsStay
<1>1. TypeOK /\ RowsInv /\ [Next]_vars =>
        [/\ db.subs \subseteq db'.subs
         /\ Stored(db.facts) \subseteq Stored(db'.facts)]_vars
  BY CommitExtends, NextMoves DEF Extends
<1> QED BY TypeCorrect, RowsInit, RowsStep, NextMoves, <1>1, PTL DEF Spec, CommittedRowsStay

\* The status of a tower is never replaced by an older one or removed, in
\* whatever order the events arrive and however often they are replayed.
THEOREM StatusNeverOlder == Spec => TowerStatusNeverOlder
<1>1. TypeOK /\ RowsInv /\ [Next]_vars =>
        [\A s \in db.towers : \E r \in db'.towers : r.key = s.key /\ r.ts >= s.ts]_vars
  BY CommitExtends, NextMoves DEF Extends
<1> QED BY TypeCorrect, RowsInit, RowsStep, NextMoves, <1>1, PTL DEF Spec, TowerStatusNeverOlder
=============================================================================
