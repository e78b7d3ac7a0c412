---------------------------- MODULE EventsQuery ----------------------------
(***************************************************************************)
(* The events query of the streaming job: BatchProcessor.process run by a   *)
(* checkpointed foreachBatch over the seven domain topics.                 *)
(*                                                                         *)
(* A topic is a log.  The query plans a batch by recording, per topic, how  *)
(* far it will read (offset log), runs process over it, and then records    *)
(* the batch as done (commit log).  A crash, or an exception out of         *)
(* process, takes the driver down; the batch that was planned and not done  *)
(* is processed again after the restart.  Within process the warehouse is   *)
(* written in one transaction, but the lake is appended to before its       *)
(* commit and the rejections are published after it, so a crash can fall    *)
(* between any two of the three.                                           *)
(*                                                                         *)
(* One log per topic: a topic's three partitions are unordered among each   *)
(* other, and the order of a log here is the order the query reads in.      *)
(*                                                                         *)
(* A definition whose comment begins with "Variant" is a faulty version of  *)
(* the one below it, a bug this code could have had.  No behaviour of Spec   *)
(* uses it; put in the other's place, it breaks a property below.           *)
(***************************************************************************)
EXTENDS Integers, Sequences, FiniteSets, FiniteSetsExt, MinuteWindow

CONSTANTS
    Msgs,           \* the payloads that may appear on the domain topics
    Resent,         \* those the producer's retries may append twice
    Instants,       \* the readings the clock can take, in seconds
    MaxOffsets,     \* maxOffsetsPerTrigger
    MaxCrashes,     \* bound on crashes (exceptions are not bounded)
    MaxLostSends,   \* bound on DLQ sends the broker fails for good
    MaxLakeRows     \* Parquet rows of one event are counted up to this

\* Variant: the facts before the subscribers they name.
TopicOrderFactsFirst == <<"airtime_purchase", "bundle_purchase", "voice_call", "sms",
                          "data_usage", "subscriber_created", "tower_status">>
(***************************************************************************)
(* Topics in the order process visits them, named by their event type.     *)
(***************************************************************************)
TopicOrder == <<"subscriber_created", "airtime_purchase", "bundle_purchase",
                "voice_call", "sms", "data_usage", "tower_status">>
Topics == {"subscriber_created", "airtime_purchase", "bundle_purchase",
           "voice_call", "sms", "data_usage", "tower_status"}
SubscriberTopic == "subscriber_created"
TowerTopic == "tower_status"
FactTopics == Topics \ {SubscriberTopic, TowerTopic}
RolledUpTopics == FactTopics \ {"sms"}      \* no rollup reads fact_sms

(***************************************************************************)
(* A message, down to what the code tells apart: its event id, the          *)
(* dimension key it is about (subscriber_id, or tower_id for tower_status), *)
(* its timestamp, the first check of its content that fails regardless of   *)
(* the clock, whether the tower or bundle it names is in the seeded          *)
(* dimension, and whether its row satisfies the table's types and foreign    *)
(* keys (uuid event_id, date_key within dim_date, column widths).           *)
(***************************************************************************)
Faults == {"none", "parse", "schema", "rule"}
Message == [topic : Topics, id : STRING, key : STRING, msisdn : STRING,
            ts : Nat, fault : Faults, seeded : BOOLEAN, storable : BOOLEAN]

ASSUME MsgsAssumption ==
    /\ \A m \in Msgs : /\ m.topic \in Topics
                       /\ m.ts \in Nat
                       /\ m.fault \in Faults
                       /\ m.seeded \in BOOLEAN
                       /\ m.storable \in BOOLEAN
    /\ IsFiniteSet(Msgs) /\ Resent \subseteq Msgs
ASSUME InstantsAssumption == Instants \subseteq Nat /\ Instants # {}
ASSUME BoundsAssumption ==
    /\ MaxOffsets \in Nat \ {0} /\ MaxCrashes \in Nat /\ MaxLostSends \in Nat
    /\ MaxLakeRows \in Nat \ {0}

MsgTimes == {m.ts : m \in Msgs}
Minutes == {MinuteOf(t) : t \in MsgTimes}

ClockSkew == 30
Reasons == {"PARSE_ERROR", "SCHEMA_VIOLATION", "timestamp_not_in_future",
            "RULE_VIOLATION", "subscriber_unknown"}

\* A DLQ record.  Its event_id is the uuid5 of source topic, reason and
\* payload, that is, of msg and reason; ts is when the record was made.
Rejection == [msg : Msgs, reason : Reasons, ts : Instants]

\* The tables the events query owns, as one snapshot.  subs is dim_subscriber,
\* towers is tower_status_current, facts the five fact tables; a row is named
\* by the message it was written from, and facts and rollup count rows.  rollup
\* stands for the three agg_*_minute tables the query owns.
Tables == [subs : SUBSET Msgs, towers : SUBSET Msgs, facts : [Msgs -> Nat],
           rollup : [Minutes -> [Msgs -> Nat]]]

VARIABLES
    clock,          \* datetime.now(UTC)
    log,            \* the domain topics
    planned,        \* offset log: where the latest batch ends
    done,           \* commit log: where the latest finished batch ends
    pc,             \* what the driver is doing
    turn,           \* index in TopicOrder
    events,         \* offsets of the current topic's accepted events
    rejected,       \* dlq_records
    stamps,         \* timestamps
    tx,             \* the tables as the open transaction sees them
    db,             \* the tables as committed
    lake,           \* Parquet rows per event
    outbox,         \* DLQ records in the Kafka client's send buffer
    dlqTopic,       \* failed-transactions
    lost,           \* records the Kafka client gave up on
    crashes,        \* crashes so far
    applied         \* history: the planned batch has been committed once

external == <<clock, log>>
checkpoint == <<planned, done>>
locals == <<turn, events, rejected, stamps>>
kafka == <<outbox, dlqTopic, lost>>
history == <<crashes, applied>>
vars == <<external, checkpoint, pc, locals, tx, db, lake, kafka, history>>

-----------------------------------------------------------------------------
(* The planned batch.                                                      *)

Offsets(t) == (done[t] + 1)..planned[t]
BatchMsgs == UNION {{log[t][i] : i \in Offsets(t)} : t \in Topics}
AllTaken == planned = done
Waiting(t) == (done[t] + 1)..Len(log[t])

\* The topic whose turn it is, its messages at a set of offsets.
Topic == TopicOrder[turn]
At(S) == {log[Topic][i] : i \in S}

(* Validation. *)

\* Variant: no allowance for clock skew.
AheadNoSkew(m, now) == m.ts > now

Ahead(m, now) == m.ts > now + ClockSkew

\* The reason a message is rejected with at a clock reading, "" if it is
\* accepted.  timestamp_not_in_future is the first rule of every event type.
Verdict(m, now) ==
    CASE m.fault = "parse"  -> "PARSE_ERROR"
      [] m.fault = "schema" -> "SCHEMA_VIOLATION"
      [] m.fault \in {"rule", "none"} /\ Ahead(m, now)
                            -> "timestamp_not_in_future"
      [] m.fault = "rule" /\ ~Ahead(m, now) -> "RULE_VIOLATION"
      [] m.fault = "none" /\ ~Ahead(m, now) -> ""

Reject(m, reason) == [msg |-> m, reason |-> reason, ts |-> clock]

\* _dedupe: of the offsets with one event id, the first.
Dedupe(S) ==
    {i \in S : \A j \in S : j < i => log[Topic][j].id # log[Topic][i].id}

(* The SQL statements, over the rows of the tables they touch. *)

\* INSERT INTO dim_subscriber ... ON CONFLICT (subscriber_id) DO NOTHING:
\* of the events of one new subscriber, the first is inserted.
NewSubscribers ==
    LET key(i) == log[Topic][i].key
    IN  At({i \in events : /\ \A r \in tx.subs : r.key # key(i)
                           /\ \A j \in events : j < i => key(j) # key(i)})

\* The UNIQUE constraint on msisdn is not an ON CONFLICT target.
MsisdnClash ==
    \E r \in NewSubscribers : \E s \in tx.subs \cup NewSubscribers :
        r.key # s.key /\ r.msisdn = s.msisdn

\* Each tower's latest event: the first of those with the greatest timestamp.
LatestStatus ==
    LET e(i) == log[Topic][i]
    IN  At({i \in events : \A j \in events : e(j).key = e(i).key =>
                \/ e(j).ts < e(i).ts
                \/ e(j).ts = e(i).ts /\ i <= j})

\* Variant: DO UPDATE without the WHERE, the last event read wins.
StatusOverwritten(rows, new) ==
    {r \in rows : \A e \in new : e.key # r.key} \cup new

\* ON CONFLICT (tower_id) DO UPDATE ... WHERE EXCLUDED.updated_at is greater.
StatusUpserted(rows, new) ==
    LET newer(a, b) == a.key = b.key /\ a.ts > b.ts
    IN  {r \in rows : ~ \E e \in new : newer(e, r)}
        \cup {e \in new : \A r \in rows : r.key = e.key => newer(e, r)}

Stored(facts) == {m \in Msgs : facts[m] > 0}

\* Offsets of the events whose subscriber is in dim_subscriber.
Known == {i \in events : \E s \in tx.subs : s.key = log[Topic][i].key}

\* Variant: without ON CONFLICT (event_id) and the constraint behind it.
NewFactsUnchecked == {m \in At(Known) : m.seeded}

\* The rows the fact INSERT adds: inner joins with the dimensions, and
\* ON CONFLICT (event_id) DO NOTHING.
NewFacts ==
    {m \in At(Known) :
        /\ m.seeded
        /\ \A f \in Stored(tx.facts) : f.topic = m.topic => f.id # m.id}

\* The fact tables the rollups are computed from.
RolledUp(facts) ==
    [m \in Msgs |-> IF m.topic \in RolledUpTopics THEN facts[m] ELSE 0]

-----------------------------------------------------------------------------
NoRows == [m \in Msgs |-> 0]
EmptyTables == [subs |-> {}, towers |-> {}, facts |-> NoRows,
                rollup |-> [mi \in Minutes |-> NoRows]]

Init ==
    /\ clock \in Instants
    /\ log = [t \in Topics |-> <<>>]
    /\ planned = [t \in Topics |-> 0]
    /\ done = [t \in Topics |-> 0]
    /\ pc = "down"
    /\ turn = 0 /\ events = {} /\ rejected = {} /\ stamps = {}
    /\ tx = EmptyTables
    /\ db = EmptyTables
    /\ lake = NoRows
    /\ outbox = {} /\ dlqTopic = {} /\ lost = {}
    /\ crashes = 0
    /\ applied = FALSE

(***************************************************************************)
(* The environment: producers append, time passes.                         *)
(***************************************************************************)
Copies(m) == Cardinality({i \in DOMAIN log[m.topic] : log[m.topic][i] = m})

Publish(m) ==
    /\ Copies(m) < IF m \in Resent THEN 2 ELSE 1
    /\ log' = [log EXCEPT ![m.topic] = Append(@, m)]
    /\ UNCHANGED <<clock, checkpoint, pc, locals, tx, db, lake, kafka, history>>

Tick ==
    /\ \E now \in Instants : now > clock /\ clock' = now
    /\ UNCHANGED <<log, checkpoint, pc, locals, tx, db, lake, kafka, history>>

(***************************************************************************)
(* The driver: start, plan a batch, enter process.                         *)
(***************************************************************************)
Start ==
    /\ pc = "down"
    /\ pc' = "idle"
    /\ UNCHANGED <<external, checkpoint, locals, tx, db, lake, kafka, history>>

\* Topic ends are read one topic after another while producers append, so any
\* end between done and the end of the log can be planned.
Plan ==
    /\ pc = "idle" /\ AllTaken
    /\ \E S \in (SUBSET UNION {{<<t, i>> : i \in Waiting(t)} : t \in Topics}) \ {{}} :
          /\ Cardinality(S) <= MaxOffsets
          /\ \A p \in S : \A i \in (done[p[1]] + 1)..p[2] : <<p[1], i>> \in S
          /\ planned' = [t \in Topics |->
                done[t] + Cardinality({i \in Waiting(t) : <<t, i>> \in S})]
    /\ applied' = FALSE
    /\ UNCHANGED <<external, done, pc, locals, tx, db, lake, kafka, crashes>>

Begin ==
    /\ pc = "idle" /\ ~AllTaken
    /\ pc' = "validate"
    /\ turn' = 1
    /\ UNCHANGED <<external, checkpoint, events, rejected, stamps, tx, db,
                   lake, kafka, history>>

(***************************************************************************)
(* One topic: validate and dedupe, append to the lake, run the statement.  *)
(***************************************************************************)
ValidateTopic ==
    /\ pc = "validate" /\ turn <= Len(TopicOrder)
    /\ LET verdict(i) == Verdict(log[Topic][i], clock)
           refused == {i \in Offsets(Topic) : verdict(i) # ""}
       IN  /\ rejected' = rejected \cup
                            {Reject(log[Topic][i], verdict(i)) : i \in refused}
           /\ events' = Dedupe(Offsets(Topic) \ refused)
    /\ IF events' = {}
         THEN turn' = turn + 1 /\ UNCHANGED pc
         ELSE pc' = "lake" /\ UNCHANGED turn
    /\ UNCHANGED <<external, checkpoint, stamps, tx, db, lake, kafka, history>>

\* Variant: write mode "ignore", which keeps a path that exists as it is.
WriteLakeIgnore ==
    /\ pc = "lake"
    /\ lake' = [m \in Msgs |->
                  IF m \in At(events) /\ \A n \in Msgs : n.topic = Topic => lake[n] = 0
                    THEN lake[m] + 1 ELSE lake[m]]
    /\ pc' = "sink"
    /\ UNCHANGED <<external, checkpoint, locals, tx, db, kafka, history>>

WriteLake ==
    /\ pc = "lake"
    /\ lake' = [m \in Msgs |->
                  IF m \in At(events) /\ lake[m] < MaxLakeRows
                    THEN lake[m] + 1 ELSE lake[m]]
    /\ pc' = "sink"
    /\ UNCHANGED <<external, checkpoint, locals, tx, db, kafka, history>>

\* Variant: the batch's timestamps replaced by the topic's, not extended.
NextTopicReplace(accepted) ==
    /\ pc' = "validate"
    /\ turn' = turn + 1
    /\ events' = {}
    /\ stamps' = {m.ts : m \in At(accepted)}

\* The end of a topic's turn: its accepted events leave their timestamps.
NextTopic(accepted) ==
    /\ pc' = "validate"
    /\ turn' = turn + 1
    /\ events' = {}
    /\ stamps' = stamps \cup {m.ts : m \in At(accepted)}

\* Variant: ON CONFLICT (subscriber_id) DO UPDATE, the latest batch wins.
UpsertSubscribersReplace ==
    /\ pc = "sink" /\ Topic = SubscriberTopic
    /\ \A m \in At(events) : m.storable
    /\ tx' = [tx EXCEPT !.subs = StatusOverwritten(@, LatestStatus)]
    /\ NextTopic(events)
    /\ UNCHANGED <<external, checkpoint, rejected, db, lake, kafka, history>>

UpsertSubscribers ==
    /\ pc = "sink" /\ Topic = SubscriberTopic
    /\ \A m \in At(events) : m.storable
    /\ ~MsisdnClash
    /\ tx' = [tx EXCEPT !.subs = @ \cup NewSubscribers]
    /\ NextTopic(events)
    /\ UNCHANGED <<external, checkpoint, rejected, db, lake, kafka, history>>

UpdateTowerStatus ==
    /\ pc = "sink" /\ Topic = TowerTopic
    /\ \A m \in LatestStatus : m.seeded /\ m.storable
    /\ tx' = [tx EXCEPT !.towers = StatusUpserted(@, LatestStatus)]
    /\ NextTopic(events)
    /\ UNCHANGED <<external, checkpoint, rejected, db, lake, kafka, history>>

InsertFacts ==
    /\ pc = "sink" /\ Topic \in FactTopics
    /\ \A m \in NewFacts : m.storable
    /\ tx' = [tx EXCEPT !.facts = [m \in Msgs |->
                                      @[m] + IF m \in NewFacts THEN 1 ELSE 0]]
    /\ rejected' = rejected \cup
                     {Reject(m, "subscriber_unknown") : m \in At(events \ Known)}
    /\ NextTopic(Known)
    /\ UNCHANGED <<external, checkpoint, db, lake, kafka, history>>

(***************************************************************************)
(* The statement raises: rollback, and the exception ends the query, which  *)
(* ends the driver.                                                        *)
(***************************************************************************)
\* Variant: the connection outlives the batch and is not rolled back.
DownNoRollback ==
    /\ pc' = "down"
    /\ turn' = 0 /\ events' = {} /\ rejected' = {} /\ stamps' = {}
    /\ outbox' = {}
    /\ UNCHANGED <<external, checkpoint, tx, db, lake, dlqTopic, lost, applied>>

\* Variant: no checkpoint, the restarted query plans the batch anew.
DownReplans ==
    /\ pc' = "down"
    /\ turn' = 0 /\ events' = {} /\ rejected' = {} /\ stamps' = {}
    /\ tx' = db
    /\ outbox' = {}
    /\ planned' = done
    /\ UNCHANGED <<external, done, db, lake, dlqTopic, lost, applied>>

Down ==
    /\ pc' = "down"
    /\ turn' = 0 /\ events' = {} /\ rejected' = {} /\ stamps' = {}
    /\ tx' = db
    /\ outbox' = {}
    /\ UNCHANGED <<external, checkpoint, db, lake, dlqTopic, lost, applied>>

\* The database refuses a row the statement has to write: a type, a NOT NULL or a
\* foreign key, or the uniqueness of msisdn.
RowRefused ==
    \/ Topic = SubscriberTopic /\ \E m \in At(events) : ~m.storable
    \/ Topic = SubscriberTopic /\ MsisdnClash
    \/ Topic = TowerTopic /\ \E m \in LatestStatus : ~(m.seeded /\ m.storable)
    \/ Topic \in FactTopics /\ \E m \in NewFacts : ~m.storable

\* Variant: the exception is logged, and the next topic processed.
SinkRaisesSkipped ==
    /\ pc = "sink" /\ RowRefused
    /\ NextTopic({})
    /\ UNCHANGED <<external, checkpoint, rejected, tx, db, lake, kafka, history>>

SinkRaises ==
    /\ pc = "sink" /\ RowRefused
    /\ Down
    /\ UNCHANGED crashes

(***************************************************************************)
(* After the topics: rollups, commit, publication of the rejections, and    *)
(* the commit log entry once foreachBatch has returned.                    *)
(***************************************************************************)
RefreshRollups ==
    /\ pc = "validate" /\ turn > Len(TopicOrder)
    /\ tx' = IF stamps = {} THEN tx
             ELSE [tx EXCEPT !.rollup = Refreshed(@, RolledUp(tx.facts), stamps)]
    /\ pc' = "commit"
    /\ UNCHANGED <<external, checkpoint, locals, db, lake, kafka, history>>

Commit ==
    /\ pc = "commit"
    /\ db' = tx
    /\ applied' = TRUE
    /\ pc' = "publish"
    /\ UNCHANGED <<external, checkpoint, locals, tx, lake, kafka, crashes>>

PublishRejections ==
    /\ pc = "publish"
    /\ outbox' = rejected
    /\ pc' = "flush"
    /\ UNCHANGED <<external, checkpoint, locals, tx, db, lake, dlqTopic, lost,
                   history>>

\* The client's sender thread delivers buffered records in any order ...
Deliver ==
    /\ \E r \in outbox : /\ outbox' = outbox \ {r}
                         /\ dlqTopic' = dlqTopic \cup {r}
    /\ UNCHANGED <<external, checkpoint, pc, locals, tx, db, lake, lost, history>>

\* ... or fails one for good; nobody looks at the future send returned.
LoseSend ==
    /\ Cardinality(lost) < MaxLostSends
    /\ \E r \in outbox : /\ outbox' = outbox \ {r}
                         /\ lost' = lost \cup {r}
    /\ UNCHANGED <<external, checkpoint, pc, locals, tx, db, lake, dlqTopic,
                   history>>

\* Variant: no flush, the batch is logged as done with records still buffered.
FinishBatchNoFlush ==
    /\ pc = "flush"
    /\ done' = planned
    /\ pc' = "idle"
    /\ turn' = 0 /\ rejected' = {} /\ stamps' = {}
    /\ UNCHANGED <<external, planned, events, tx, db, lake, kafka, history>>

\* Variant: wait until the broker has every record, those given up on included.
FinishBatchAllSent ==
    /\ pc = "flush" /\ rejected \subseteq dlqTopic
    /\ done' = planned
    /\ pc' = "idle"
    /\ turn' = 0 /\ rejected' = {} /\ stamps' = {}
    /\ UNCHANGED <<external, planned, events, tx, db, lake, kafka, history>>

\* flush returns with the buffer empty; Spark logs the batch as committed.
FinishBatch ==
    /\ pc = "flush" /\ outbox = {}
    /\ done' = planned
    /\ pc' = "idle"
    /\ turn' = 0 /\ rejected' = {} /\ stamps' = {}
    /\ UNCHANGED <<external, planned, events, tx, db, lake, kafka, history>>

Crash ==
    /\ pc # "down" /\ crashes < MaxCrashes
    /\ crashes' = crashes + 1
    /\ Down

-----------------------------------------------------------------------------
DriverStep ==
    \/ Start \/ Plan \/ Begin
    \/ ValidateTopic \/ WriteLake
    \/ UpsertSubscribers \/ UpdateTowerStatus \/ InsertFacts \/ SinkRaises
    \/ RefreshRollups \/ Commit \/ PublishRejections \/ Deliver \/ FinishBatch

Next ==
    \/ \E m \in Msgs : Publish(m)
    \/ Tick
    \/ DriverStep
    \/ LoseSend
    \/ Crash

Spec == Init /\ [][Next]_vars
-----------------------------------------------------------------------------
(* Properties.                                                             *)

\* Every variable has its type, and the locals of process hold something only
\* while process runs: with no transaction open, tx is the committed state.
TypeOK ==
    /\ clock \in Instants
    /\ log \in [Topics -> Seq(Msgs)]
    /\ planned \in [Topics -> Nat] /\ done \in [Topics -> Nat]
    /\ \A t \in Topics : done[t] <= planned[t] /\ planned[t] <= Len(log[t])
    /\ pc \in {"down", "idle", "validate", "lake", "sink", "commit", "publish",
               "flush"}
    /\ turn \in 0..8 /\ (turn = 0 <=> pc \in {"down", "idle"})
    /\ pc \in {"lake", "sink"} => turn <= 7 /\ events \subseteq Offsets(Topic)
    /\ pc \notin {"lake", "sink"} => events = {}
    /\ rejected \subseteq Rejection /\ outbox \subseteq Rejection
    /\ dlqTopic \subseteq Rejection /\ lost \subseteq Rejection
    /\ stamps \subseteq MsgTimes
    /\ tx \in Tables /\ db \in Tables
    /\ pc \in {"down", "idle"} => stamps = {} /\ rejected = {}
    /\ pc \in {"down", "idle", "publish", "flush"} => tx = db
    /\ lake \in [Msgs -> 0..MaxLakeRows]
    /\ crashes \in 0..MaxCrashes
    /\ applied \in BOOLEAN

\* The committed rollups are always what the committed facts say: a batch over
\* several minutes, a replay or a late event leaves no minute stale, missing
\* or counted twice (sinks.refresh_fact_rollups, called once per batch with the
\* least and the greatest accepted timestamp).
RollupsMatchFacts == db.rollup = Tally(RolledUp(db.facts), Minutes)

\* Replays never double-count: an event id has at most one row in its fact
\* table, every fact's subscriber is in dim_subscriber, and the dimension and
\* the status table keep one row per key (the UNIQUE constraints of the
\* schema, which the statements must respect without raising).
KeysHold ==
    /\ \A f \in Stored(db.facts) :
          /\ db.facts[f] = 1
          /\ \A g \in Stored(db.facts) : f.topic = g.topic /\ f.id = g.id => f = g
          /\ \E s \in db.subs : s.key = f.key
    /\ \A s, r \in db.subs : s.key = r.key \/ s.msisdn = r.msisdn => s = r
    /\ \A s, r \in db.towers : s.key = r.key => s = r

\* A message's row, or one that stands for it, is in the tables t.
Written(t, m) ==
    CASE m.topic = SubscriberTopic -> \E s \in t.subs : s.key = m.key
      [] m.topic = TowerTopic -> \E s \in t.towers : s.key = m.key /\ s.ts >= m.ts
      [] m.topic \in FactTopics ->
            \E f \in Stored(t.facts) : f.topic = m.topic /\ f.id = m.id

RejectedIn(records, m) == \E r \in records : r.msg = m

\* The inner join drops a fact whose tower or bundle has no dimension row.
DroppedByJoin(m) == m.topic \in FactTopics /\ ~m.seeded

\* What became of a message m of a set S: it is rejected, or a message of S with
\* its event id, for which _dedupe or ON CONFLICT took it, is written, rejected
\* or dropped by the join.
Settled(m, S, t, records) ==
    \/ RejectedIn(records, m)
    \/ /\ m.fault = "none"
       /\ \E n \in S : /\ n.topic = m.topic /\ n.id = m.id
                       /\ Written(t, n) \/ RejectedIn(records, n) \/ DroppedByJoin(n)

DoneMsgs == UNION {{log[t][i] : i \in 1..done[t]} : t \in Topics}

\* Nothing is dropped silently: once a batch is done, each of its messages is
\* in the warehouse, or its rejection is on failed-transactions, or its DLQ
\* send failed for good, whatever crashes and replays came in between.  The one
\* other way out is the join.
NothingDropped == \A m \in DoneMsgs : Settled(m, DoneMsgs, db, dlqTopic \cup lost)

\* A batch is committed whole or not at all: once its transaction is committed,
\* every message of it is in the tables or among the rejections about to be
\* published, though any of its statements may raise half way through it.
CommittedWhole ==
    pc \in {"publish", "flush"} =>
        \A m \in BatchMsgs : Settled(m, BatchMsgs, db, rejected)

\* Every row of the warehouse is in the lake: the lake is appended to before
\* the commit, so a crash can leave it ahead of the warehouse, never behind.
LakeCoversWarehouse ==
    \A m \in Stored(db.facts) \cup db.subs \cup db.towers : lake[m] > 0

\* Facts and subscriber rows, once committed, are never changed or removed:
\* a second registration of a subscriber does not replace the first.
CommittedRowsStay ==
    [][/\ db.subs \subseteq db'.subs
       /\ Stored(db.facts) \subseteq Stored(db'.facts)]_vars

\* tower_status_current never goes back in time, though events arrive out of
\* order and batches are replayed.
TowerStatusNeverOlder ==
    [][\A s \in db.towers : \E r \in db'.towers : r.key = s.key /\ r.ts >= s.ts]_vars

\* A message whose verdict may depend on when it is read.
ClockDependent(m) == \E now \in Instants : now + ClockSkew < m.ts

\* Replaying a batch that was committed but not logged as done changes nothing
\* in the warehouse, as long as no verdict in it depends on the clock.
ReplayAddsNothing ==
    [][applied /\ db' # db => \E m \in BatchMsgs : ClockDependent(m)]_vars

\* Replays reproduce the rejections: a message is rejected for one reason,
\* hence under one deterministic event id, as long as the clock plays no part.
RejectionsReproduced ==
    \A r, q \in dlqTopic : r.msg = q.msg /\ ~ClockDependent(r.msg) => r.reason = q.reason

\* A message whose fate does not depend on when it is read: neither its own verdict
\* nor that of a registration of the subscriber it names.
ClockFree(m) ==
    \A s \in Msgs :
        s = m \/ (s.topic = SubscriberTopic /\ s.key = m.key) => ~ClockDependent(s)

\* A message sent once is accepted or rejected, never both: whether its subscriber
\* was known to the first attempt of its batch, which published the rejection, is
\* decided the same way by every replay, though the first attempt may have committed.
AcceptedOrRejected ==
    \A r \in dlqTopic :
        ClockFree(r.msg) /\ Copies(r.msg) <= 1
            => r.msg \notin db.subs \cup db.towers \cup Stored(db.facts)

\* What the comment on _DLQ_NAMESPACE says: a replay reproduces a rejection's
\* event id, that is, its reason.  The clock can move a rule's verdict.
ReplaySameRejectionId ==
    \A r, q \in dlqTopic : r.msg = q.msg => r.reason = q.reason

\* "Nothing dropped silently", with no exception made for the broker: what a
\* finished batch rejected is on failed-transactions.
RejectionsReachTopic == \A m \in DoneMsgs : Settled(m, DoneMsgs, db, dlqTopic)
=============================================================================
