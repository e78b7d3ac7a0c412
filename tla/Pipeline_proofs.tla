--------------------------- MODULE Pipeline_proofs ---------------------------
(***************************************************************************)
(* Theorems about Pipeline, for every value of its constants.              *)
(*                                                                         *)
(* A step of the pipeline is, for each query, one of the steps its own         *)
(* invariants were proved against: a step of its own, a stutter, an exit when   *)
(* the other query has ended the driver, or, for the DLQ query, the arrival of  *)
(* a rejection.  So each query keeps its invariants, and what is left to show    *)
(* is what links them: failed-transactions holds what the events query           *)
(* delivered, the payment failures, and nothing else.                       *)
(***************************************************************************)
EXTENDS Pipeline, TLAPS

\* The queries again, with the lemmas on their invariants.
EP == INSTANCE EventsIntake_proofs
DP == INSTANCE DlqQuery_proofs WITH
        Records <- {Record(r) : r \in E!Rejection} \cup Payments,
        log <- dlqLog, planned <- dlqPlanned, done <- dlqDone, pc <- dlqPc,
        records <- dlqRecords, tx <- dlqTx, db <- dlqDb

-----------------------------------------------------------------------------
(***************************************************************************)
(* E and EP, like D and DP, are two instances of one module: the definitions *)
(* that do not mention the lemmas are the same.                             *)
(***************************************************************************)
LEMMA SameCardinality == \A S : E!Cardinality(S) = EP!Cardinality(S)
BY DEF E!Cardinality, EP!Cardinality

LEMMA SameVerdict == \A m, now : E!Verdict(m, now) = EP!Verdict(m, now)
BY DEF E!Verdict, EP!Verdict, E!Ahead, EP!Ahead, E!ClockSkew, EP!ClockSkew

LEMMA EventsSteps ==
    /\ E!Init => EP!Init
    /\ \A m \in Msgs : E!Publish(m) => EP!Publish(m)
    /\ E!Tick => EP!Tick
    /\ E!Start => EP!Start
    /\ E!Plan => EP!Plan
    /\ E!Begin => EP!Begin
    /\ E!ValidateTopic => EP!ValidateTopic
    /\ E!WriteLake => EP!WriteLake
    /\ E!UpsertSubscribers => EP!UpsertSubscribers
    /\ E!UpdateTowerStatus => EP!UpdateTowerStatus
    /\ E!InsertFacts => EP!InsertFacts
    /\ E!SinkRaises => EP!SinkRaises
    /\ E!RefreshRollups => EP!RefreshRollups
    /\ E!Commit => EP!Commit
    /\ E!PublishRejections => EP!PublishRejections
    /\ E!Deliver => EP!Deliver
    /\ E!LoseSend => EP!LoseSend
    /\ E!FinishBatch => EP!FinishBatch
    /\ E!Crash => EP!Crash
    /\ E!Down => EP!Down
<1> USE DEF E!Topics, EP!Topics, E!SubscriberTopic, EP!SubscriberTopic,
            E!TowerTopic, EP!TowerTopic, E!FactTopics, EP!FactTopics,
            E!RolledUpTopics, EP!RolledUpTopics, E!TopicOrder, EP!TopicOrder,
            E!Faults, EP!Faults, E!MsgTimes, EP!MsgTimes, E!Minutes, EP!Minutes,
            E!MinuteOf, EP!MinuteOf, E!Window, EP!Window, E!Min, EP!Min, E!Max,
            EP!Max, E!Refreshed, EP!Refreshed, E!Reasons, EP!Reasons, E!Rejection,
            EP!Rejection, E!Tables, EP!Tables, E!external, EP!external,
            E!checkpoint, EP!checkpoint, E!locals, EP!locals, E!kafka, EP!kafka,
            E!history, EP!history, E!Offsets, EP!Offsets, E!BatchMsgs, EP!BatchMsgs,
            E!AllTaken, EP!AllTaken, E!Waiting, EP!Waiting, E!Topic, EP!Topic, E!At,
            EP!At, E!Reject, EP!Reject, E!Dedupe, EP!Dedupe, E!NewSubscribers,
            EP!NewSubscribers, E!MsisdnClash, EP!MsisdnClash, E!LatestStatus,
            EP!LatestStatus, E!StatusUpserted, EP!StatusUpserted, E!Stored,
            EP!Stored, E!Known, EP!Known, E!NewFacts, EP!NewFacts, E!RolledUp,
            EP!RolledUp, E!NoRows, EP!NoRows, E!EmptyTables, EP!EmptyTables,
            E!Copies, EP!Copies, E!NextTopic, EP!NextTopic, E!Down, EP!Down,
            E!RowRefused, EP!RowRefused
<1>1. E!Init => EP!Init
  BY DEF E!Init, EP!Init
<1>2. \A m \in Msgs : E!Publish(m) => EP!Publish(m)
  BY SameCardinality DEF E!Publish, EP!Publish
<1>3. E!Tick => EP!Tick
  BY DEF E!Tick, EP!Tick
<1>4. E!Start => EP!Start
  BY DEF E!Start, EP!Start
<1>5. E!Plan => EP!Plan
  BY SameCardinality DEF E!Plan, EP!Plan
<1>6. E!Begin => EP!Begin
  BY DEF E!Begin, EP!Begin
<1>7. E!ValidateTopic => EP!ValidateTopic
  BY SameVerdict DEF E!ValidateTopic, EP!ValidateTopic
<1>8. E!WriteLake => EP!WriteLake
  BY DEF E!WriteLake, EP!WriteLake
<1>9. E!UpsertSubscribers => EP!UpsertSubscribers
  BY DEF E!UpsertSubscribers, EP!UpsertSubscribers
<1>10. E!UpdateTowerStatus => EP!UpdateTowerStatus
  BY DEF E!UpdateTowerStatus, EP!UpdateTowerStatus
<1>11. E!InsertFacts => EP!InsertFacts
  BY DEF E!InsertFacts, EP!InsertFacts
<1>12. E!SinkRaises => EP!SinkRaises
  BY DEF E!SinkRaises, EP!SinkRaises
<1>13. E!RefreshRollups => EP!RefreshRollups
  BY DEF E!RefreshRollups, EP!RefreshRollups
<1>14. E!Commit => EP!Commit
  BY DEF E!Commit, EP!Commit
<1>15. E!PublishRejections => EP!PublishRejections
  BY DEF E!PublishRejections, EP!PublishRejections
<1>16. E!Deliver => EP!Deliver
  BY DEF E!Deliver, EP!Deliver
<1>17. E!LoseSend => EP!LoseSend
  BY SameCardinality DEF E!LoseSend, EP!LoseSend
<1>18. E!FinishBatch => EP!FinishBatch
  BY DEF E!FinishBatch, EP!FinishBatch
<1>19. E!Crash => EP!Crash
  BY DEF E!Crash, EP!Crash
<1>20. E!Down => EP!Down
  OBVIOUS
<1> QED BY <1>1, <1>2, <1>3, <1>4, <1>5, <1>6, <1>7, <1>8, <1>9, <1>10, <1>11,
           <1>12, <1>13, <1>14, <1>15, <1>16, <1>17, <1>18, <1>19, <1>20

LEMMA DlqSteps ==
    /\ D!Init => DP!Init
    /\ \A r : D!Publish(r) => DP!Publish(r)
    /\ \A r : D!Arrive(r) => DP!Arrive(r)
    /\ D!Start => DP!Start
    /\ D!Plan => DP!Plan
    /\ D!Begin => DP!Begin
    /\ D!InsertDlq => DP!InsertDlq
    /\ D!InsertRaises => DP!InsertRaises
    /\ D!RefreshRollup => DP!RefreshRollup
    /\ D!Commit => DP!Commit
    /\ D!FinishBatch => DP!FinishBatch
    /\ D!Down => DP!Down
<1> USE DEF D!Stamps, DP!Stamps, D!Minutes, DP!Minutes, D!MinuteOf, DP!MinuteOf,
            D!Window, DP!Window, D!Min, DP!Min, D!Max, DP!Max, D!Refreshed,
            DP!Refreshed, D!Storable, DP!Storable, D!Tables, DP!Tables, D!NoRows,
            DP!NoRows, D!Stored, DP!Stored, D!At, DP!At, D!Dedupe, DP!Dedupe,
            D!NewRecords, DP!NewRecords, D!BatchStamps, DP!BatchStamps, D!Arrive,
            DP!Arrive, D!Down, DP!Down
<1>1. D!Init => DP!Init
  BY DEF D!Init, DP!Init
<1>2. \A r : D!Publish(r) => DP!Publish(r)
  BY DEF D!Publish, DP!Publish
<1>3. \A r : D!Arrive(r) => DP!Arrive(r)
  OBVIOUS
<1>4. D!Start => DP!Start
  BY DEF D!Start, DP!Start
<1>5. D!Plan => DP!Plan
  BY DEF D!Plan, DP!Plan
<1>6. D!Begin => DP!Begin
  BY DEF D!Begin, DP!Begin
<1>7. D!InsertDlq => DP!InsertDlq
  BY DEF D!InsertDlq, DP!InsertDlq
<1>8. D!InsertRaises => DP!InsertRaises
  BY DEF D!InsertRaises, DP!InsertRaises
<1>9. D!RefreshRollup => DP!RefreshRollup
  BY DEF D!RefreshRollup, DP!RefreshRollup
<1>10. D!Commit => DP!Commit
  BY DEF D!Commit, DP!Commit
<1>11. D!FinishBatch => DP!FinishBatch
  BY DEF D!FinishBatch, DP!FinishBatch
<1>12. D!Down => DP!Down
  OBVIOUS
<1> QED BY <1>1, <1>2, <1>3, <1>4, <1>5, <1>6, <1>7, <1>8, <1>9, <1>10, <1>11, <1>12

LEMMA SameWritten == \A t, m : E!Written(t, m) = EP!Written(t, m)
BY DEF E!Written, EP!Written, E!Stored, EP!Stored, E!SubscriberTopic,
       EP!SubscriberTopic, E!TowerTopic, EP!TowerTopic, E!FactTopics, EP!FactTopics,
       E!Topics, EP!Topics

LEMMA EventsPromises ==
    /\ EP!TypeOK => E!TypeOK
    /\ EP!RollupsMatchFacts => E!RollupsMatchFacts
    /\ EP!KeysHold => E!KeysHold
    /\ EP!LakeCoversWarehouse => E!LakeCoversWarehouse
    /\ EP!NothingDropped => E!NothingDropped
    /\ EP!CommittedWhole => E!CommittedWhole
    /\ EP!RejectionsReproduced => E!RejectionsReproduced
    /\ EP!AcceptedOrRejected => E!AcceptedOrRejected
<1> USE DEF E!Topics, EP!Topics, E!SubscriberTopic, EP!SubscriberTopic,
            E!TowerTopic, EP!TowerTopic, E!FactTopics, EP!FactTopics,
            E!RolledUpTopics, EP!RolledUpTopics, E!TopicOrder, EP!TopicOrder,
            E!MsgTimes, EP!MsgTimes, E!Minutes, EP!Minutes, E!MinuteOf, EP!MinuteOf,
            E!Reasons, EP!Reasons, E!Rejection, EP!Rejection, E!Tables, EP!Tables,
            E!Offsets, EP!Offsets, E!BatchMsgs, EP!BatchMsgs, E!Topic, EP!Topic,
            E!Stored, EP!Stored, E!RolledUp, EP!RolledUp, E!Tally, EP!Tally,
            E!ClockSkew, EP!ClockSkew, E!ClockDependent, EP!ClockDependent,
            E!ClockFree, EP!ClockFree, E!Copies, EP!Copies, E!DoneMsgs, EP!DoneMsgs,
            E!Settled, EP!Settled, E!RejectedIn, EP!RejectedIn, E!DroppedByJoin,
            EP!DroppedByJoin
<1>1. EP!TypeOK => E!TypeOK
  BY DEF E!TypeOK, EP!TypeOK
<1>2. EP!RollupsMatchFacts => E!RollupsMatchFacts
  BY DEF E!RollupsMatchFacts, EP!RollupsMatchFacts
<1>3. EP!KeysHold => E!KeysHold
  BY DEF E!KeysHold, EP!KeysHold
<1>4. EP!LakeCoversWarehouse => E!LakeCoversWarehouse
  BY DEF E!LakeCoversWarehouse, EP!LakeCoversWarehouse
<1>5. EP!NothingDropped => E!NothingDropped
  BY SameWritten DEF E!NothingDropped, EP!NothingDropped
<1>6. EP!CommittedWhole => E!CommittedWhole
  BY SameWritten DEF E!CommittedWhole, EP!CommittedWhole
<1>7. EP!RejectionsReproduced => E!RejectionsReproduced
  BY DEF E!RejectionsReproduced, EP!RejectionsReproduced
<1>8. EP!AcceptedOrRejected => E!AcceptedOrRejected
  BY SameCardinality DEF E!AcceptedOrRejected, EP!AcceptedOrRejected
<1> QED BY <1>1, <1>2, <1>3, <1>4, <1>5, <1>6, <1>7, <1>8

LEMMA DlqPromises ==
    /\ DP!TypeOK => D!TypeOK
    /\ DP!RollupMatchesRecords => D!RollupMatchesRecords
    /\ DP!RejectionsStoredOnce => D!RejectionsStoredOnce
    /\ DP!NoRejectionLost => D!NoRejectionLost
<1> USE DEF D!Stamps, DP!Stamps, D!Minutes, DP!Minutes, D!MinuteOf, DP!MinuteOf,
            D!Tables, DP!Tables, D!Stored, DP!Stored, D!Tally, DP!Tally
<1>1. DP!TypeOK => D!TypeOK
  BY DEF D!TypeOK, DP!TypeOK
<1>2. DP!RollupMatchesRecords => D!RollupMatchesRecords
  BY DEF D!RollupMatchesRecords, DP!RollupMatchesRecords
<1>3. DP!RejectionsStoredOnce => D!RejectionsStoredOnce
  BY DEF D!RejectionsStoredOnce, DP!RejectionsStoredOnce
<1>4. DP!NoRejectionLost => D!NoRejectionLost
  BY DEF D!NoRejectionLost, DP!NoRejectionLost
<1> QED BY <1>1, <1>2, <1>3, <1>4

-----------------------------------------------------------------------------
(* What each query's lemmas ask of the constants holds here.               *)

LEMMA EventsConstants ==
    /\ \A m \in Msgs : /\ m.topic \in EP!Topics
                       /\ m.ts \in Nat
                       /\ m.fault \in EP!Faults
                       /\ m.seeded \in BOOLEAN
                       /\ m.storable \in BOOLEAN
    /\ EP!IsFiniteSet(Msgs) /\ Resent \subseteq Msgs
    /\ Instants \subseteq Nat /\ Instants # {}
    /\ MaxOffsets \in Nat \ {0} /\ MaxCrashes \in Nat /\ MaxLostSends \in Nat
    /\ MaxLakeRows \in Nat \ {0}
BY PipelineMsgsAssumption, PipelineInstantsAssumption, PipelineBoundsAssumption
   DEF E!Topics, EP!Topics, E!Faults, EP!Faults, IsFiniteSet, EP!IsFiniteSet

LEMMA DlqConstants ==
    /\ \A r \in {Record(q) : q \in E!Rejection} \cup Payments :
          r.ts \in Nat /\ r.wellFormed \in BOOLEAN /\ r.fits \in BOOLEAN
    /\ MaxOffsets \in Nat \ {0} /\ MaxCrashes \in Nat
<1>1. ASSUME NEW q \in E!Rejection
      PROVE  /\ Record(q).ts \in Nat /\ Record(q).wellFormed \in BOOLEAN
             /\ Record(q).fits \in BOOLEAN
  BY PipelineMsgsAssumption, PipelineInstantsAssumption DEF E!Rejection, Record
<1> QED BY <1>1, PaymentsAssumption, PipelineBoundsAssumption

LEMMA EventsLemmas ==
    /\ EP!Init => EP!QueryInv
    /\ EP!QueryInv /\ EP!Moves => EP!QueryInv'
<1>1. EP!Init => EP!QueryInv
  BY EventsConstants, EP!QueryInvInit
<1>2. EP!QueryInv /\ EP!Moves => EP!QueryInv'
  BY EventsConstants, EP!QueryInvStep
<1> QED BY <1>1, <1>2

LEMMA DlqLemmas ==
    /\ DP!Init => DP!QueryInv
    /\ DP!QueryInv /\ DP!Moves => DP!QueryInv'
<1>1. DP!Init => DP!QueryInv
  BY DlqConstants, DP!QueryInvInit
<1>2. DP!QueryInv /\ DP!Moves => DP!QueryInv'
  BY DlqConstants, DP!QueryInvStep
<1> QED BY <1>1, <1>2

-----------------------------------------------------------------------------
(* Every step of the pipeline is a step of each query.                     *)

LEMMA EventsStutter == UNCHANGED eventsVars => EP!Moves /\ UNCHANGED <<crashes, dlqTopic>>
BY DEF eventsVars, EP!Moves, EP!vars, EP!external, EP!checkpoint, EP!locals, EP!kafka,
       EP!history

LEMMA DlqStutter == UNCHANGED <<crashes, dlqVars>> => DP!Moves
BY DEF dlqVars, DP!Moves, DP!vars

\* Only a crash is counted, and only Deliver puts a record on the topic.
LEMMA EventsFrame ==
    ASSUME \/ \E m \in Msgs : E!Publish(m)
           \/ E!Tick \/ E!Start \/ EventsStep \/ E!LoseSend
    PROVE  UNCHANGED <<crashes, dlqTopic>>
BY DEF EventsStep, E!Publish, E!Tick, E!Start, E!Plan, E!Begin, E!ValidateTopic,
       E!WriteLake, E!UpsertSubscribers, E!UpdateTowerStatus, E!InsertFacts,
       E!SinkRaises, E!Down, E!RefreshRollups, E!Commit, E!PublishRejections,
       E!LoseSend, E!FinishBatch, E!history, E!kafka

LEMMA EventsMoves == EP!TypeOK /\ [Next]_vars => EP!Moves
<1> SUFFICES ASSUME EP!TypeOK, [Next]_vars PROVE EP!Moves
  OBVIOUS
<1>1. CASE \/ UNCHANGED vars \/ DlqStep \/ \E r \in Payments : PublishPayment(r)
           \/ pc = "down" /\ dlqPc # "down" /\ D!Down /\ UNCHANGED <<eventsVars>>
  BY <1>1, EventsStutter DEF vars, DlqStep, PublishPayment
<1>2. CASE \E m \in Msgs : PublishEvent(m)
  BY <1>2, EventsSteps DEF PublishEvent, EP!Moves, EP!Next
<1>3. CASE Tick \/ Start \/ LoseSend \/ Deliver \/ Crash
  BY <1>3, EventsSteps DEF Tick, Start, LoseSend, Deliver, Crash, EP!Moves, EP!Next,
     EP!DriverStep
<1>4. CASE EventsStep
  BY <1>4, EventsSteps DEF EventsStep, EP!Moves, EP!Next, EP!DriverStep
<1>5. CASE dlqPc = "down" /\ pc # "down" /\ E!Down /\ UNCHANGED <<crashes, dlqVars>>
  BY <1>5, EventsSteps DEF EP!Moves, EP!Exits, EP!TypeOK
<1> QED BY <1>1, <1>2, <1>3, <1>4, <1>5 DEF Next, Exit

\* The record that arrives is the rejection of the one delivered.
LEMMA DeliverEffect ==
    ASSUME E!TypeOK, Deliver
    PROVE  \E r \in E!Rejection : /\ dlqTopic' = dlqTopic \cup {r}
                                  /\ D!Arrive(Record(r))
<1>1. PICK r \in outbox : outbox' = outbox \ {r} /\ dlqTopic' = dlqTopic \cup {r}
  BY DEF Deliver, E!Deliver
<1>2. outbox \ outbox' = {r}
  BY <1>1
<1>3. D!Arrive(Record(r))
  BY <1>2 DEF Deliver
<1>4. r \in E!Rejection
  BY <1>1 DEF E!TypeOK
<1> QED BY <1>1, <1>3, <1>4

LEMMA DlqMoves == E!TypeOK /\ [Next]_vars => DP!Moves
<1> SUFFICES ASSUME E!TypeOK, [Next]_vars PROVE DP!Moves
  OBVIOUS
<1>0. crashes \in 0..MaxCrashes /\ MaxCrashes \in Nat
  BY PipelineBoundsAssumption DEF E!TypeOK
<1>1. CASE \/ \E m \in Msgs : PublishEvent(m)
           \/ Tick \/ EventsStep \/ LoseSend \/ UNCHANGED vars
  <2>1. UNCHANGED <<crashes, dlqVars>>
    BY <1>1, EventsFrame DEF PublishEvent, Tick, EventsStep, LoseSend, vars, eventsVars
  <2> QED BY <2>1, DlqStutter
<1>2. CASE \E r \in Payments : PublishPayment(r)
  BY <1>2, DlqSteps DEF PublishPayment, DP!Moves, DP!Next
<1>3. CASE Start \/ DlqStep
  BY <1>3, DlqSteps DEF Start, DlqStep, DP!Moves, DP!Next, DP!QueryStep
<1>4. CASE Deliver
  BY <1>4, DeliverEffect, DlqSteps DEF DP!Moves, DP!Arrivals
<1>5. CASE pc = "down" /\ dlqPc # "down" /\ D!Down /\ UNCHANGED <<eventsVars>>
  BY <1>0, <1>5, DlqSteps DEF eventsVars, DP!Moves, DP!Exits
<1>6. CASE dlqPc = "down" /\ pc # "down" /\ E!Down /\ UNCHANGED <<crashes, dlqVars>>
  BY <1>6, DlqStutter
<1>7. CASE Crash
  BY <1>0, <1>7, DlqSteps DEF Crash, E!Crash, DP!Moves, DP!Exits
<1> QED BY <1>1, <1>2, <1>3, <1>4, <1>5, <1>6, <1>7 DEF Next, Exit

-----------------------------------------------------------------------------
(* What links the queries.                                                 *)

Arrived == \A r \in dlqTopic : \E i \in DOMAIN dlqLog : dlqLog[i] = Record(r)
Sourced ==
    \A i \in DOMAIN dlqLog : \/ dlqLog[i] \in Payments
                             \/ \E r \in dlqTopic : dlqLog[i] = Record(r)
Link == Arrived /\ Sourced

PipelineInv == EP!QueryInv /\ DP!QueryInv /\ Link

LEMMA PipelinePromises ==
    PipelineInv =>
        /\ E!TypeOK /\ E!RollupsMatchFacts /\ E!KeysHold /\ E!LakeCoversWarehouse
        /\ E!NothingDropped /\ E!CommittedWhole
        /\ E!RejectionsReproduced /\ E!AcceptedOrRejected
        /\ D!TypeOK /\ D!RollupMatchesRecords /\ D!RejectionsStoredOnce
        /\ D!NoRejectionLost
<1>1. EP!QueryInv => 
        /\ EP!TypeOK /\ EP!RollupsMatchFacts /\ EP!KeysHold /\ EP!LakeCoversWarehouse
        /\ EP!NothingDropped /\ EP!CommittedWhole
        /\ EP!RejectionsReproduced /\ EP!AcceptedOrRejected
  BY EventsConstants, EP!QueryPromises
<1>2. DP!QueryInv =>
        /\ DP!TypeOK /\ DP!RollupMatchesRecords /\ DP!RejectionsStoredOnce
        /\ DP!NoRejectionLost
  BY DlqConstants, DP!QueryPromises
<1> QED BY <1>1, <1>2, EventsPromises, DlqPromises DEF PipelineInv

\* A record at the end of failed-transactions leaves the others where they were.
LEMMA LogGrows ==
    ASSUME D!TypeOK, NEW r \in {Record(q) : q \in E!Rejection} \cup Payments, D!Arrive(r)
    PROVE  /\ DOMAIN dlqLog \subseteq DOMAIN dlqLog'
           /\ \A i \in DOMAIN dlqLog : dlqLog'[i] = dlqLog[i]
           /\ \A i \in DOMAIN dlqLog' : i \in DOMAIN dlqLog \/ dlqLog'[i] = r
           /\ \E i \in DOMAIN dlqLog' : dlqLog'[i] = r
<1> DEFINE Any == {Record(q) : q \in E!Rejection} \cup Payments
           n == Len(dlqLog)
<1>1. dlqLog \in Seq(Any) /\ r \in Any /\ dlqLog' = Append(dlqLog, r)
  BY DEF D!TypeOK, D!Arrive
<1> HIDE DEF Any
<1>2. /\ n \in Nat /\ DOMAIN dlqLog = 1..n /\ DOMAIN dlqLog' = 1..(n + 1)
      /\ \A i \in 1..n : dlqLog'[i] = dlqLog[i]
      /\ dlqLog'[n + 1] = r
  BY <1>1
<1> HIDE DEF n
<1> QED BY <1>2

LEMMA LinkStep == PipelineInv /\ [Next]_vars => Link'
<1> SUFFICES ASSUME PipelineInv, [Next]_vars PROVE Link'
  OBVIOUS
<1>0. E!TypeOK /\ D!TypeOK /\ Link
  BY PipelinePromises DEF PipelineInv
<1>1. CASE Deliver
  <2>1. PICK r \in E!Rejection : dlqTopic' = dlqTopic \cup {r} /\ D!Arrive(Record(r))
    BY <1>0, <1>1, DeliverEffect
  <2>2. /\ DOMAIN dlqLog \subseteq DOMAIN dlqLog'
        /\ \A i \in DOMAIN dlqLog : dlqLog'[i] = dlqLog[i]
        /\ \A i \in DOMAIN dlqLog' : i \in DOMAIN dlqLog \/ dlqLog'[i] = Record(r)
        /\ \E i \in DOMAIN dlqLog' : dlqLog'[i] = Record(r)
    BY <1>0, <2>1, LogGrows
  <2>3. Arrived'
    BY <1>0, <2>1, <2>2 DEF Link, Arrived, Record
  <2>4. Sourced'
    BY <1>0, <2>1, <2>2 DEF Link, Sourced, Record
  <2> QED BY <2>3, <2>4 DEF Link
<1>2. ASSUME NEW r \in Payments, PublishPayment(r) PROVE Link'
  <2>1. D!Arrive(r) /\ dlqTopic' = dlqTopic
    BY <1>2 DEF PublishPayment, D!Publish, eventsVars
  <2>2. /\ DOMAIN dlqLog \subseteq DOMAIN dlqLog'
        /\ \A i \in DOMAIN dlqLog : dlqLog'[i] = dlqLog[i]
        /\ \A i \in DOMAIN dlqLog' : i \in DOMAIN dlqLog \/ dlqLog'[i] = r
    BY <1>0, <2>1, LogGrows
  <2>3. Arrived'
    BY <1>0, <2>1, <2>2 DEF Link, Arrived, Record
  <2>4. Sourced'
    BY <1>0, <2>1, <2>2 DEF Link, Sourced, Record
  <2> QED BY <2>3, <2>4 DEF Link
<1>3. ASSUME UNCHANGED <<dlqLog, dlqTopic>> PROVE Link'
  BY <1>0, <1>3 DEF Link, Arrived, Sourced, Record
<1>4. CASE \/ \E m \in Msgs : PublishEvent(m)
           \/ Tick \/ Start \/ EventsStep \/ LoseSend \/ UNCHANGED vars
  <2>1. UNCHANGED dlqTopic
    BY <1>4, EventsFrame DEF PublishEvent, Tick, Start, EventsStep, LoseSend, vars, eventsVars
  <2>2. UNCHANGED dlqLog
    BY <1>4 DEF PublishEvent, Tick, Start, D!Start, EventsStep, LoseSend, vars, dlqVars
  <2> QED BY <1>3, <2>1, <2>2
<1>5. CASE DlqStep
  <2>1. UNCHANGED <<dlqLog, dlqTopic>>
    BY <1>5 DEF DlqStep, eventsVars, D!Plan, D!Begin, D!InsertDlq, D!InsertRaises, D!Down,
                D!RefreshRollup, D!Commit, D!FinishBatch
  <2> QED BY <1>3, <2>1
<1>6. CASE Exit \/ Crash
  <2>1. UNCHANGED <<dlqLog, dlqTopic>>
    BY <1>6 DEF Exit, Crash, E!Crash, E!Down, D!Down, eventsVars, dlqVars
  <2> QED BY <1>3, <2>1
<1> QED BY <1>1, <1>2, <1>4, <1>5, <1>6 DEF Next

LEMMA PipelineInit == Init => PipelineInv
<1> SUFFICES ASSUME Init PROVE PipelineInv
  OBVIOUS
<1>1. EP!QueryInv /\ DP!QueryInv
  BY EventsSteps, DlqSteps, EventsLemmas, DlqLemmas DEF Init
<1>2. dlqTopic = {} /\ dlqLog = <<>>
  BY DEF Init, E!Init, D!Init
<1> QED BY <1>1, <1>2 DEF PipelineInv, Link, Arrived, Sourced

LEMMA PipelineStep == PipelineInv /\ [Next]_vars => PipelineInv'
<1> SUFFICES ASSUME PipelineInv, [Next]_vars PROVE PipelineInv'
  OBVIOUS
<1>1. E!TypeOK /\ EP!TypeOK
  BY PipelinePromises DEF PipelineInv, EP!QueryInv
<1>2. EP!Moves /\ DP!Moves
  BY <1>1, EventsMoves, DlqMoves
<1>3. EP!QueryInv' /\ DP!QueryInv'
  BY <1>2, EventsLemmas, DlqLemmas DEF PipelineInv
<1> QED BY <1>3, LinkStep DEF PipelineInv

LEMMA PipelineRun == Spec => []PipelineInv
BY PipelineInit, PipelineStep, PTL DEF Spec

-----------------------------------------------------------------------------
(* The theorems.                                                           *)

\* Each query keeps its types, its batches within its logs, and no transaction
\* open but its batch's, though the other's failure can end it at any point.
THEOREM PipelineTypeCorrect == Spec => []TypeOK
<1>1. PipelineInv => TypeOK
  BY PipelinePromises DEF TypeOK
<1> QED BY PipelineRun, <1>1, PTL

\* What each query promises on its own it still promises beside the other: its
\* rollups are those of its rows, its keys hold, what it finished is accounted for.
THEOREM QueriesKeepTheirPromises ==
    Spec => []/\ E!RollupsMatchFacts /\ E!KeysHold /\ E!LakeCoversWarehouse
              /\ E!NothingDropped /\ E!CommittedWhole
              /\ E!RejectionsReproduced /\ E!AcceptedOrRejected
              /\ D!RollupMatchesRecords /\ D!RejectionsStoredOnce /\ D!NoRejectionLost
BY PipelineRun, PipelinePromises, PTL

\* A rejection on the topic is in dlq_records, or ahead of the DLQ query.
LEMMA OnTheWay == ASSUME PipelineInv PROVE dlqTopic \subseteq InTable \cup Ahead
<1> SUFFICES ASSUME NEW r \in dlqTopic PROVE r \in InTable \cup Ahead
  OBVIOUS
<1>1. E!TypeOK /\ D!TypeOK /\ D!NoRejectionLost /\ Arrived
  BY PipelinePromises DEF PipelineInv, Link
<1>2. r \in E!Rejection
  BY <1>1 DEF E!TypeOK
<1>3. PICK i \in DOMAIN dlqLog : dlqLog[i] = Record(r)
  BY <1>1 DEF Arrived
<1>4. i \in 1..Len(dlqLog) /\ dlqDone \in Nat /\ Len(dlqLog) \in Nat
  BY <1>1, <1>3 DEF D!TypeOK
<1>5. CASE i <= dlqDone
  <2>1. i \in 1..dlqDone
    BY <1>4, <1>5
  <2>2. dlqLog[i].wellFormed
    BY <1>3 DEF Record
  <2>3. \E s \in D!Stored(dlqDb.rows) : s.id = dlqLog[i].id
    BY <1>1, <2>1, <2>2 DEF D!NoRejectionLost
  <2> QED BY <1>2, <1>3, <2>3 DEF InTable
<1>6. CASE ~(i <= dlqDone)
  <2>1. i \in (dlqDone + 1)..Len(dlqLog)
    BY <1>4, <1>6
  <2>2. Record(r) \in D!At((dlqDone + 1)..Len(dlqLog))
    BY <1>3, <2>1 DEF D!At
  <2> QED BY <1>2, <2>2 DEF Ahead
<1> QED BY <1>5, <1>6

\* Every message of a batch the events query finished is in the warehouse or dropped
\* by the join, or its rejection is in dlq_records, on the way there, or lost by
\* the broker, wherever crashes and failures of either query fall.
THEOREM PipelineEndToEnd == Spec => []EndToEnd
<1>1. ASSUME PipelineInv PROVE EndToEnd
  <2>1. dlqTopic \cup lost \subseteq InTable \cup Ahead \cup lost
    BY <1>1, OnTheWay
  <2>2. \A m \in E!DoneMsgs : E!Settled(m, E!DoneMsgs, db, dlqTopic \cup lost)
    BY <1>1, PipelinePromises DEF E!NothingDropped
  <2> QED BY <2>1, <2>2 DEF EndToEnd, E!Settled, E!RejectedIn
<1> QED BY PipelineRun, <1>1, PTL

\* A row of dlq_records that is no payment failure is that of a published rejection.
LEMMA RowsArePublished ==
    ASSUME PipelineInv, NEW s \in D!Stored(dlqDb.rows) \ Payments
    PROVE  \E r \in dlqTopic : s = Record(r)
<1>1. D!TypeOK /\ Sourced
  BY PipelinePromises DEF PipelineInv, Link
<1>2. D!Stored(dlqDb.rows) = DP!Stored(dlqDb.rows)
  BY DEF D!Stored, DP!Stored
<1>3. s \in DP!At(DOMAIN dlqLog)
  BY <1>2 DEF PipelineInv, DP!QueryInv, DP!SourceInv
<1>4. PICK i \in DOMAIN dlqLog : s = dlqLog[i]
  BY <1>3 DEF DP!At
<1> QED BY <1>1, <1>4 DEF Sourced

\* A message has one row in dlq_records, however often its batch is replayed and its
\* rejections are published again, as long as the clock has no part in its verdict.
THEOREM PipelineOneRow == Spec => []OneRowPerMessage
<1>1. ASSUME PipelineInv PROVE OneRowPerMessage
  <2> SUFFICES ASSUME NEW r \in D!Stored(dlqDb.rows) \ Payments,
                      NEW s \in D!Stored(dlqDb.rows) \ Payments,
                      r.id[1] = s.id[1], ~E!ClockDependent(r.id[1])
               PROVE  r = s /\ dlqDb.rows[r] = 1
    BY DEF OneRowPerMessage
  <2>1. PICK p \in dlqTopic : r = Record(p)
    BY <1>1, RowsArePublished
  <2>2. PICK q \in dlqTopic : s = Record(q)
    BY <1>1, RowsArePublished
  <2>3. p.msg = q.msg /\ ~E!ClockDependent(p.msg)
    BY <2>1, <2>2 DEF Record
  <2>4. p.reason = q.reason
    BY <1>1, <2>3, PipelinePromises DEF E!RejectionsReproduced
  <2>5. r.id = s.id
    BY <2>1, <2>2, <2>3, <2>4 DEF Record
  <2> QED BY <1>1, <2>5, PipelinePromises DEF D!RejectionsStoredOnce
<1> QED BY PipelineRun, <1>1, PTL

\* No message sent once whose fate the clock has no part in is both in the warehouse
\* and in dlq_records: what is under review was not accepted, by any replay.
THEOREM PipelineNeverBoth == Spec => []AcceptedOrReviewed
<1>1. ASSUME PipelineInv PROVE AcceptedOrReviewed
  <2> SUFFICES ASSUME NEW s \in D!Stored(dlqDb.rows) \ Payments,
                      E!ClockFree(s.id[1]), E!Copies(s.id[1]) <= 1
               PROVE  s.id[1] \notin E!Stored(db.facts) \cup db.subs \cup db.towers
    BY DEF AcceptedOrReviewed
  <2>1. PICK r \in dlqTopic : s = Record(r)
    BY <1>1, RowsArePublished
  <2>2. s.id[1] = r.msg
    BY <2>1 DEF Record
  <2>3. E!AcceptedOrRejected /\ E!TypeOK
    BY <1>1, PipelinePromises
  <2> QED BY <2>2, <2>3 DEF E!AcceptedOrRejected
<1> QED BY PipelineRun, <1>1, PTL

\* What each step may do to the tables, the other query's failure included.
LEMMA PipelineKeeps ==
    PipelineInv /\ [Next]_vars =>
        /\ db.subs \subseteq db'.subs /\ E!Stored(db.facts) \subseteq E!Stored(db'.facts)
        /\ \A s \in db.towers : \E r \in db'.towers : r.key = s.key /\ r.ts >= s.ts
        /\ applied /\ db' # db => \E m \in E!BatchMsgs : E!ClockDependent(m)
        /\ D!Stored(dlqDb.rows) \subseteq D!Stored(dlqDb'.rows)
        /\ [EP!I!Next]_(EP!I!vars)
<1> SUFFICES ASSUME PipelineInv, [Next]_vars
             PROVE  /\ db.subs \subseteq db'.subs
                    /\ E!Stored(db.facts) \subseteq E!Stored(db'.facts)
                    /\ \A s \in db.towers : \E r \in db'.towers : r.key = s.key /\ r.ts >= s.ts
                    /\ applied /\ db' # db => \E m \in E!BatchMsgs : E!ClockDependent(m)
                    /\ D!Stored(dlqDb.rows) \subseteq D!Stored(dlqDb'.rows)
                    /\ [EP!I!Next]_(EP!I!vars)
  OBVIOUS
<1>1. EP!Moves /\ DP!Moves /\ EP!QueryInv /\ DP!KeptInv
  BY PipelinePromises, EventsMoves, DlqMoves DEF PipelineInv, EP!QueryInv, DP!QueryInv
<1>2. /\ db.subs \subseteq db'.subs /\ EP!Stored(db.facts) \subseteq EP!Stored(db'.facts)
      /\ \A s \in db.towers : \E r \in db'.towers : r.key = s.key /\ r.ts >= s.ts
      /\ applied /\ db' # db => \E m \in EP!BatchMsgs : EP!ClockDependent(m)
      /\ [EP!I!Next]_(EP!I!vars)
  BY <1>1, EventsConstants, EP!QuerySteps
<1>3. DP!Stored(dlqDb.rows) \subseteq DP!Stored(dlqDb'.rows)
  BY <1>1, DlqConstants, DP!KeptRows
<1>4. \A f : E!Stored(f) = EP!Stored(f)
  BY DEF E!Stored, EP!Stored
<1>5. \A f : D!Stored(f) = DP!Stored(f)
  BY DEF D!Stored, DP!Stored
<1>6. E!BatchMsgs = EP!BatchMsgs /\ \A m : E!ClockDependent(m) = EP!ClockDependent(m)
  BY DEF E!BatchMsgs, EP!BatchMsgs, E!Offsets, EP!Offsets, E!Topics, EP!Topics,
         E!ClockDependent, EP!ClockDependent, E!ClockSkew, EP!ClockSkew
<1> QED BY <1>2, <1>3, <1>4, <1>5, <1>6

\* Rows that were committed stay, a tower's status never gets older, a replay changes
\* nothing but for the clock, and the copy of a rejection stored first stays, beside a
\* query that may fail at any point as in a job of its own.
THEOREM PipelineRowsStay ==
    Spec => /\ E!CommittedRowsStay /\ E!TowerStatusNeverOlder /\ E!ReplayAddsNothing
            /\ D!FirstCopyStays
<1>1. PipelineInv /\ [Next]_vars =>
        /\ [/\ db.subs \subseteq db'.subs
            /\ E!Stored(db.facts) \subseteq E!Stored(db'.facts)]_(E!vars)
        /\ [\A s \in db.towers : \E r \in db'.towers : r.key = s.key /\ r.ts >= s.ts]_(E!vars)
        /\ [applied /\ db' # db => \E m \in E!BatchMsgs : E!ClockDependent(m)]_(E!vars)
        /\ [D!Stored(dlqDb.rows) \subseteq D!Stored(dlqDb'.rows)]_(D!vars)
  BY PipelineKeeps
<1> QED BY PipelineRun, <1>1, PTL
        DEF Spec, E!CommittedRowsStay, E!TowerStatusNeverOlder, E!ReplayAddsNothing,
            D!FirstCopyStays

\* The events query implements Intake within the pipeline too: the DLQ query's failures
\* are crashes to it, and Intake sees none.
THEOREM PipelineIntake == Spec => EP!ImplementsIntake
<1>1. Init => EP!I!Init
  <2>1. EP!Init => EP!I!Init
    BY EventsConstants, EP!MapsInit
  <2> QED BY <2>1, EventsSteps DEF Init
<1>2. PipelineInv /\ [Next]_vars => [EP!I!Next]_(EP!I!vars)
  BY PipelineKeeps
<1> QED BY PipelineRun, <1>1, <1>2, PTL DEF Spec, EP!ImplementsIntake, EP!I!Spec
=============================================================================
