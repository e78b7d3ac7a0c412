------------------------------ MODULE Pipeline ------------------------------
(***************************************************************************)
(* The streaming job as one driver: main starts the events query and the DLQ *)
(* query and waits in awaitAnyTermination.  The events query's rejections      *)
(* reach the DLQ query over failed-transactions, on which the payment          *)
(* simulator publishes as well.                                             *)
(*                                                                         *)
(* The queries run side by side on one warehouse, each with a checkpoint of   *)
(* its own.  When one fails, main ends with its exception, sooner or later,   *)
(* wherever the other is; the container then starts both again.              *)
(***************************************************************************)
EXTENDS Integers, Sequences, FiniteSets

CONSTANTS
    Msgs, Resent, Instants,             \* as in EventsQuery
    MaxOffsets, MaxCrashes, MaxLostSends, MaxLakeRows,
    Payments,                           \* payment failures, as DLQ records
    MaxRedelivered                      \* bound on the length of failed-transactions

VARIABLES
    \* the domain topics and the events query
    clock, log, planned, done, pc, turn, events, rejected, stamps, tx, db, lake,
    outbox, dlqTopic, lost, crashes, applied,
    \* failed-transactions and the DLQ query
    dlqLog, dlqPlanned, dlqDone, dlqPc, dlqRecords, dlqTx, dlqDb

E == INSTANCE EventsQuery

\* What the two queries ask of these values.  Here a message has one part more,
\* fits: whether dlq_records takes a rejection of it that is no PARSE_ERROR.  The
\* reason names an unexpected field, which may be wider than its column, and jsonb
\* refuses numbers (NaN) and characters (\u0000) that json.loads reads.
ASSUME PipelineMsgsAssumption ==
    /\ \A m \in Msgs : /\ m.topic \in E!Topics
                       /\ m.ts \in Nat
                       /\ m.fault \in E!Faults
                       /\ m.seeded \in BOOLEAN
                       /\ m.storable \in BOOLEAN
                       /\ m.fits \in BOOLEAN
    /\ IsFiniteSet(Msgs) /\ Resent \subseteq Msgs
ASSUME PipelineInstantsAssumption == Instants \subseteq Nat /\ Instants # {}
ASSUME PaymentsAssumption ==
    \A p \in Payments : p.ts \in Nat /\ p.wellFormed \in BOOLEAN /\ p.fits \in BOOLEAN
ASSUME PipelineBoundsAssumption ==
    /\ MaxOffsets \in Nat \ {0} /\ MaxCrashes \in Nat /\ MaxLostSends \in Nat
    /\ MaxLakeRows \in Nat \ {0} /\ MaxRedelivered \in Nat

\* make_dlq_record: the event_id is the uuid5 of message and reason, the source topic
\* is short, the other fields are the reason and the message.
Record(r) == [id |-> <<r.msg, r.reason>>, reason |-> r.reason, ts |-> r.ts,
              wellFormed |-> TRUE, fits |-> r.msg.fits]

D == INSTANCE DlqQuery WITH
        Records <- {Record(r) : r \in E!Rejection} \cup Payments,
        log <- dlqLog, planned <- dlqPlanned, done <- dlqDone, pc <- dlqPc,
        records <- dlqRecords, tx <- dlqTx, db <- dlqDb

eventsVars == <<clock, log, planned, done, pc, turn, events, rejected, stamps, tx,
                db, lake, outbox, dlqTopic, lost, crashes, applied>>
dlqVars == <<dlqLog, dlqPlanned, dlqDone, dlqPc, dlqRecords, dlqTx, dlqDb>>
vars == <<eventsVars, dlqVars>>

-----------------------------------------------------------------------------
Init == E!Init /\ D!Init

(* The environment. *)

PublishEvent(m) == E!Publish(m) /\ UNCHANGED dlqVars

\* payment_failure_event goes straight to failed-transactions.
PublishPayment(r) == D!Publish(r) /\ UNCHANGED eventsVars

Tick == E!Tick /\ UNCHANGED dlqVars

(* The driver. *)

\* main starts both queries.
Start == E!Start /\ D!Start

\* A step of the events query that does not touch the other topic.
EventsStep ==
    /\ \/ E!Plan \/ E!Begin \/ E!ValidateTopic \/ E!WriteLake
       \/ E!UpsertSubscribers \/ E!UpdateTowerStatus \/ E!InsertFacts \/ E!SinkRaises
       \/ E!RefreshRollups \/ E!Commit \/ E!PublishRejections \/ E!FinishBatch
    /\ UNCHANGED dlqVars

\* A rejection arrives on failed-transactions.  Each time the DLQ query takes the
\* driver down, the events query may replay its batch and publish it again: only
\* the bound keeps the topic from growing for ever.
Deliver ==
    /\ Len(dlqLog) < MaxRedelivered
    /\ E!Deliver
    /\ \E r \in outbox \ outbox' : D!Arrive(Record(r))

LoseSend == E!LoseSend /\ UNCHANGED dlqVars

DlqStep ==
    /\ \/ D!Plan \/ D!Begin \/ D!InsertDlq \/ D!InsertRaises \/ D!RefreshRollup
       \/ D!Commit \/ D!FinishBatch
    /\ UNCHANGED eventsVars

\* awaitAnyTermination raises the exception of the query that failed, main ends
\* and the driver takes the other query with it.
Exit ==
    \/ /\ pc = "down" /\ dlqPc # "down"
       /\ D!Down
       /\ UNCHANGED <<eventsVars>>
    \/ /\ dlqPc = "down" /\ pc # "down"
       /\ E!Down
       /\ UNCHANGED <<crashes, dlqVars>>

\* The container dies, and both queries with it.
Crash == E!Crash /\ D!Down

Next ==
    \/ \E m \in Msgs : PublishEvent(m)
    \/ \E r \in Payments : PublishPayment(r)
    \/ Tick \/ Start \/ EventsStep \/ Deliver \/ LoseSend \/ DlqStep \/ Exit \/ Crash

Spec == Init /\ [][Next]_vars

\* The container is restarted, each query has a thread that proceeds, and main
\* leaves awaitAnyTermination once a query has failed.
FairSpec ==
    /\ Spec
    /\ WF_vars(Start) /\ WF_vars(Exit)
    /\ WF_vars(EventsStep \/ Deliver) /\ WF_vars(DlqStep)
-----------------------------------------------------------------------------
(* Properties.                                                             *)

\* Each query keeps its own invariants though the other's failure can end it at
\* any point: types, batches within the logs, no transaction left open.
TypeOK == E!TypeOK /\ D!TypeOK

\* The rejections whose event id is in dlq_records, and those on the topic that
\* the DLQ query has not finished with.
InTable == {r \in E!Rejection : \E s \in D!Stored(dlqDb.rows) : s.id = Record(r).id}
Ahead == {r \in E!Rejection : Record(r) \in D!At((dlqDone + 1)..Len(dlqLog))}

\* What the events query is done with is in the warehouse or dropped by the join, or its rejection
\* is in dlq_records, on the way there, or lost by the broker: crashes and the
\* failure of either query at any point of the other open no gap between them.
EndToEnd ==
    \A m \in E!DoneMsgs : E!Settled(m, E!DoneMsgs, db, InTable \cup Ahead \cup lost)

\* However often a batch is replayed and its rejections published, a message has
\* one row in dlq_records, as long as its verdict does not depend on the clock.
OneRowPerMessage ==
    \A r, s \in D!Stored(dlqDb.rows) \ Payments :
        r.id[1] = s.id[1] /\ ~E!ClockDependent(r.id[1]) => r = s /\ dlqDb.rows[r] = 1

\* No message is both in the warehouse and under review: one that was sent once,
\* and whose fate does not depend on the clock, is either accepted or rejected,
\* by the first attempt of its batch as by every replay.
AcceptedOrReviewed ==
    \A r \in D!Stored(dlqDb.rows) \ Payments :
        LET m == r.id[1]
        IN  E!ClockFree(m) /\ E!Copies(m) <= 1
                => m \notin E!Stored(db.facts) \cup db.subs \cup db.towers

\* A row some table refuses has been published: the query that reads it fails
\* on it again and again, and takes the other one down each time.
SomeRefused ==
    \/ \E t \in E!Topics : \E i \in DOMAIN log[t] : ~log[t][i].storable
    \/ \E i \in DOMAIN dlqLog : ~D!Storable(dlqLog[i])

\* Unless that happens, every message published ends up in the warehouse, in
\* dlq_records, or lost, and every payment failure in dlq_records.
Arrives ==
    /\ \A m \in Msgs :
          m \in {log[m.topic][i] : i \in DOMAIN log[m.topic]}
          ~> \/ m \in E!DoneMsgs /\ E!Settled(m, E!DoneMsgs, db, InTable \cup lost)
             \/ SomeRefused
    /\ \A p \in Payments :
          p \in D!At(DOMAIN dlqLog) ~> dlqDb.rows[p] = 1 \/ SomeRefused
=============================================================================
