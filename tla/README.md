# TeleStream in TLA+

TeleStream simulates a mobile network operator. A producer publishes events to
seven Kafka topics; one Spark driver validates them, appends the valid ones to
a Parquet lake, loads a PostgreSQL warehouse and publishes what it rejects to
the topic `failed-transactions`; a second query of the same driver loads that
topic into the table `dlq_records`. Dashboards and quality checks read the
warehouse.

Almost everything that can go wrong in it goes wrong between two writes that no
common transaction covers (lake, warehouse, dead letter topic, Spark's
checkpoint), when a batch is processed a second time after a crash or an
exception. The unit tests feed pure functions and the two integration tests
kill the driver at moments they cannot choose. These modules choose every
moment.

## Inventory

| Component | State | Operations | Talks to |
|---|---|---|---|
| Producer (`producer/`) | subscriber registry in memory, Kafka send buffer | `seed_subscribers`, `emit_one` (`generate`, `corrupt`, `payment_failure_event`), `close` | appends to the seven domain topics and to `failed-transactions` |
| Events query (`spark/streaming_job.py`, `BatchProcessor`) | checkpoint (planned and finished offsets), locals of `process`, open transaction, DLQ send buffer | `process`: `_validate`, `_dedupe`, `_write_lake`, `upsert_subscribers`, `insert_facts`, `update_tower_status`, `refresh_fact_rollups`, commit or rollback, `publish_all` | reads the domain topics, writes lake, warehouse, `failed-transactions` |
| DLQ query (`process_dlq_batch`) | its own checkpoint, open transaction | `insert_dlq`, `refresh_dlq_rollups`, commit or rollback | reads `failed-transactions`, writes `dlq_records` and `agg_dlq_minute` |
| Rollups (`sinks.py:243-307`) | `agg_revenue_minute`, `agg_calls_minute`, `agg_data_minute`, `agg_dlq_minute` | delete and re-insert a range of minutes | the fact tables and `dlq_records` |
| Rules and schemas (`rules.py`, `schemas.py`) | none; `timestamp_not_in_future` reads the clock | `schema_violations`, `apply_rules` | called by both queries |
| Contracts and catalog (`contracts.py`, `catalog.py`) | none | `validate` | the producer's tests; the catalog is shared with the stream and the seeds |
| Warehouse schema (`warehouse/schema.sql`) | dimensions, facts, `dlq_records`, `tower_status_current`, rollups | keys, foreign keys, column types | refuses rows, that is, makes statements raise |
| Driver (`main`) | two queries | `awaitAnyTermination`: the failure of one query ends both | container restart policy |
| Data lake | Parquet files per event type and date | append | nothing in the repository reads it |
| Quality checks (`quality/`) | the tables as read | `load_tables`, `build_suites`, `run` | read the warehouse while batches are committed |
| Dashboards, monitoring | none | read | warehouse, metrics |

What is hard about it:

* **Replay.** Spark logs a batch as planned, calls `process`, and logs it as
  done. A crash or an exception in between processes the same batch again, with
  whatever the first attempt left in the lake, the warehouse and the topic.
* **Partial failure.** Lake append, commit, publication and checkpoint are four
  separate steps; a statement can raise between any two of the seven topics.
* **Order.** Facts and the subscribers they belong to are on different topics
  whose ends are planned independently; tower statuses arrive out of order;
  copies of one rejection carry different stamps.
* **Time.** One rule compares the event with the clock at the moment it is
  read, and a replay reads it later.
* **Two queries, one driver.** The failure of one ends the other wherever it is.
* **Runs of the producer.** Its registry and its buffer live in memory; ids
  start again after every exit, and a kill flushes nothing.
* **One document, many readings.** Rules, contracts, column types and quality
  suites each say what a valid event is, in four places.
* **Ranges.** Rollups are rebuilt for the minutes from the least to the greatest
  timestamp of the batch; a boundary off by one leaves a wrong chart for good.

What makes each component correct: the events query never stores an event
twice, loses none without a rejection, and never commits part of a batch; its
rollups always agree with its facts; a tower's status never goes back in time;
the DLQ query stores each rejection once, keeps the first copy, and its rollup
agrees with its records; between them every message arrives somewhere, once,
whichever of them fails. The producer announces each subscriber of a run once
and before any event names it, and leaves nothing unsent behind unless it is
killed. What `generate` makes is accepted and what `corrupt` makes is not;
rules, contracts, tables and suites agree but for the gaps the properties name.

## Modules

| Module | Models |
|---|---|
| `MinuteWindow` | `_minute_params` and the refresh statements as operators on tables |
| `EventsQuery` | `BatchProcessor.process` and the checkpointed query around it |
| `Intake` | abstract: what the events query promises, with no crash or replay in sight |
| `EventsIntake` | the mapping under which `EventsQuery` implements `Intake` |
| `DlqQuery` | `process_dlq_batch` and the checkpointed query around it |
| `Pipeline` | `main`: both queries, `failed-transactions` between them, one driver |
| `EventRules` | catalog, `schemas.py`, `rules.py`, and what the lake and the tables' columns take |
| `Contracts` | the pandera contracts, with tables, limits and forms of their own |
| `Quality` | the quality suites' expectations on values |
| `QualityChecks` | `load_tables` and the suites on keys, beside `EventsQuery` |
| `Generators` | `generate` and `corrupt` of every event type |
| `Producer` | the run loop, registry, publisher and Kafka client |
| `MCEventsQuery`, `MCDlqQuery`, `MCPipeline`, `MCProducer`, `MCQualityChecks` | the small instances |
| `MinuteWindow_proofs`, `DlqQuery_proofs` | theorems about the refresh, the DLQ query |
| `EventsQuery_proofs`, `EventsWhole_proofs`, `EventsReplay_proofs`, `EventsIntake_proofs` | theorems about the events query: types, rollups and rows; nothing dropped; replays; the refinement, and that nothing is both accepted and rejected |
| `Pipeline_proofs` | theorems about the two queries in one driver |
| `Producer_proofs` | theorems about the producer's run, and about its events against rules, contracts, tables and suites |

`EventsIntake` and `QualityChecks` extend `EventsQuery`; `Pipeline` instantiates
`EventsQuery` and `DlqQuery`; `Producer` extends
`Generators`, which takes its limits from `Contracts` as the code does, and `Quality`,
all on `EventRules`.

A definition whose comment begins with "Variant" is a faulty version of the
definition after it, a bug the code could have had. No specification uses the
variants; each is there to show that a property can fail.

### MinuteWindow

Time is a natural number of seconds. A table is a function from records to the
number of rows holding them, a rollup a function from minutes to such counts:
which rows are counted in which minute determines every sum and count of the
`agg_*` tables, and the counting represents a row counted twice as well as one
not counted. `Refreshed` is the DELETE of the minutes between `lo` and `hi`
followed by the INSERT from the rows between `lo` and `hi_next`; `Tally` is what
a rollup is meant to be. Time stamps are taken to have a UTC offset of whole
minutes. The delete and insert bounds are the ones of the code; an insert of a minute
that was not deleted, which PostgreSQL refuses, appears here as a double count.

### EventsQuery

| Variables | Code |
|---|---|
| `clock` | `datetime.now(UTC)` in `rules.py:40` and `make_dlq_record` |
| `log` | the domain topics, one sequence per topic |
| `planned`, `done` | Spark's offset log and commit log under `checkpoints/events` |
| `pc`, `turn` | where `process` is, and in which topic of `TOPIC_ORDER` |
| `events`, `rejected`, `stamps` | the locals `events`, `dlq_records`, `timestamps` |
| `tx`, `db` | the tables as the open transaction sees them, and as committed |
| `lake` | Parquet rows per event |
| `outbox`, `dlqTopic`, `lost` | the Kafka client's buffer, `failed-transactions`, sends that failed for good |
| `crashes`, `applied` | bound and history |

| Action | Code |
|---|---|
| `Start`, `Plan`, `Begin` | driver start, Spark planning a batch, entry into `process` |
| `ValidateTopic` | `_validate` and `_dedupe` of one topic, with the early continue |
| `WriteLake` | `_write_lake` |
| `UpsertSubscribers`, `UpdateTowerStatus`, `InsertFacts` | the sinks, with the time stamps they leave |
| `SinkRaises` | a row the database refuses: rollback, exception, driver exit |
| `RefreshRollups`, `Commit` | `refresh_fact_rollups` if there are timestamps, and `conn.commit` |
| `PublishRejections`, `Deliver`, `LoseSend` | `publish_all`, the client's sender thread |
| `FinishBatch` | `flush` returns, Spark logs the batch |
| `Crash` | the container dies at any point |
| `Publish`, `Tick` | producers and time |

Abstractions. A message is what the code tells apart: topic, event id, the
dimension key it names, its time, the first check it fails regardless of the clock, and
whether its tower or bundle and its row suit the warehouse. The rejection's
event id is a hash of topic, reason and payload and is represented by message
and reason. A topic's three partitions are one sequence, the order the query
reads them in; since `Plan` may stop anywhere and messages are appended in any
order, no order of arrival is excluded. The other rows of the warehouse
(`dim_date`, towers, bundles) are seeded once and appear only as the fields
`seeded` and `storable`. A row that breaks a UNIQUE constraint not named in ON
CONFLICT (`msisdn`) raises. Committed states change only at `Commit`; a crash
during `conn.commit` falls before or after it. The history variable `applied`
only says that the planned batch has been committed once; no guard reads it.

### DlqQuery

The same frame for the second query: `log` is `failed-transactions`, `records`
the well-formed records of the batch, `tx` and `db` the pair `dlq_records` and
`agg_dlq_minute`. A batch of malformed messages only finishes without opening a
connection. Copies of a rejection (`id` equal, `ts` different) are what the
events query publishes when it replays. `Storable` is the table's column types: a
record whose reason is `PARSE_ERROR` cannot be stored, because its payload is not
JSON and the column is `jsonb`.

### Intake

Its variables are what can be seen from outside: the topics, the offsets, the
messages with a row in the warehouse, those under review. `Load` stands for all
of `process` up to the commit, `Review` for the delivery or the loss of a
rejection, `Finish` for Spark's commit log, and `Finish` requires that every
message of the batch is accounted for. A second `Load` of one batch must leave the
rows as they are, unless the clock decides a verdict. There is no action for
crashes, exceptions and replays: `ImplementsIntake` says that they cannot be
told from outside.

### Pipeline

`E` and `D` are instances of the two queries. `Deliver` is the events query's
delivery and at the same time the append to `failed-transactions`; `Record` is
what the DLQ query reads of a rejection. `Exit` is `awaitAnyTermination`: when one
query is down by its exception, the other goes down with it, at any of its
steps, and `Start` starts both. `Crash` takes both. Payment failures come onto the
topic from outside. A message has one part more here, `fits`: whether `dlq_records`
takes a rejection of it that is no `PARSE_ERROR`. `SCHEMA_VIOLATION:unexpected:<name>`
repeats a name from the event (`streaming_job.py:138`) and can exceed
`varchar(128)`; `jsonb` refuses NaN and `\u0000`, which `json.loads` reads.

### EventRules, Contracts, Quality, Generators

An event is a function from field names to typed JSON values. Amounts are in
thousandths, so that rounding to the two decimals of the columns can be seen. A
string is down to what its readers tell apart, and they do differ:

| String | Forms | Who reads what |
|---|---|---|
| time stamp | the second it denotes, and `iso`, `python` (an ISO week date, a year outside pandas's range), `pandas` (a month) or `none` | `fromisoformat` (`rules.py:35`) reads `iso` and `python`, `pd.to_datetime` (`contracts.py:32`) `iso` and `pandas` |
| msisdn | prefix, number, and digits that are `plain`, `superscript`, or followed by a `newline` | `len` and `isdigit` (`rules.py:45`) take `plain` and `superscript`, `^27\d{9}$` (`contracts.py:23`, `suites.py:19`) `plain` and `newline`, `varchar(11)` all but `newline` |
| event id | `uuid` as `str` writes it, `UUID` in another spelling, anything else | the contract's regex takes the first, the cast to `uuid` the first two, the stream everything |

`Conforms` (field types) and `Violations` (rules) are what the stream checks,
`MeetsContract` what the producer's contracts check, `FitsLake` and `FitsTable`
what the lake, the columns, the foreign keys and the joins take, `Expected` what
the suites require. Each reader has definitions of its own where the code has:
its own table of fields, limits, clock skew and form of an msisdn, even where they
agree today, so that a drift of one of them shows. They share the catalog, as the
code does.

`FitsTable` knows the widths of the columns: 32 bits for lengths, seconds and
devices, 64 for a subscriber's id, and `FitsLake` 64 for every integer (`LongType`).
TLC counts in 32 bits, so `INT_MAX` and `BIGINT_MAX` are constants, 10^9 and 2 * 10^9
in the runs; the theorems hold for every value that leaves room for the rules'
limits. `dim_date` has the fixed days of 2026 and 2027, and an event is made at a
moment of these: at the first, one a second older has no day, at the last, one a
second ahead. `SEEDED_TOWERS` and `SEEDED_BUNDLES` are what the database was
created with, `TOWERS` and `BUNDLE_PRICES` what the code's catalog holds now: they
differ once the catalog is extended, since the schema is applied on the first
start only.

`Generated` and `Corrupted` give, per type, the events `generate` and `corrupt`
may return; of a random range its ends, of a list whose members every rule
treats alike one member.

### Producer

| Action | Code |
|---|---|
| `Start` | `main`: a new run loop and a new registry |
| `Seed` | one iteration of `seed_subscribers` |
| `EmitOne` | `emit_one`: an announcement, another event, spoilt or not, or a payment failure |
| `Publish` | `KafkaEventPublisher.publish` |
| `Stop`, `Close` | an exception or Ctrl-C, and the `finally` clause that flushes |
| `Kill` | SIGKILL, or SIGTERM, which nothing handles |
| `Deliver`, `DeliverUnacknowledged`, `GiveUp` | the client's sender thread: appended and acknowledged, appended and retried, given up |

`sent` is a history of what was handed to the client, down to the run, whether it is
an announcement, and whom it names. The topics' logs are the numbers `copies`: a
retry may append an event again, and in any order.

### QualityChecks

`ReadTable` is one `pd.read_sql` of `load_tables`, which sees what is committed
at that moment; between two of them the events query takes any number of steps.
The two dimension tables nobody writes are left out of the list.

## Runs

Bounds are in the configurations: messages are explicit sets, each may be published once
(twice if in `Resent`), `MaxOffsets` is `maxOffsetsPerTrigger`, `MaxCrashes` and
`MaxLostSends` bound crashes and failed sends, `MaxRedelivered` the length of
`failed-transactions`; exceptions are not bounded.
Deadlock is not checked, since all messages may have been published and
processed, and the producer's runs and sends are bounded.

| Run | Shows | Why the instance is enough |
|---|---|---|
| `events_core` | rollups match facts, keys hold, nothing dropped, lake covers warehouse, no call both stored and rejected, a replay adds nothing, the query implements `Intake` | facts in three minutes (seconds 59, 60, 130), one before and after its subscriber, one with no subscriber, two payloads under one event id; batches of up to three; one crash gives every replay, one lost send |
| `events_dims` | committed rows stay, tower status never older, rejections reproduced | two registrations of one subscriber, two statuses of one tower, a clock that moves within and beyond the skew; statuses within a batch, across batches and on replay |
| `events_refused` | a batch is committed whole or not at all | one row for each way the database can refuse one, a fact the join drops, sent twice, and another under its event id; the failing batch is replayed any number of times |
| `dlq` | rollup matches records, each rejection stored once, none lost, the first copy stays, every message is processed unless a record the table refuses is in the way | two copies in different minutes, within a batch and across batches; a malformed message, a record the table refuses; a crash |
| `pipeline` | nothing is lost between the queries while each fails again and again | a row no table takes and a rejection `dlq_records` does not take, its reason being too long: either query can fail first, at any step of the other, and replays its batch up to the bound on the topic |
| `pipeline_live` | every message and payment failure arrives, once, and not both in the warehouse and under review | a subscriber, a call of theirs that is rejected or not depending on the batches, a payment failure; a crash at any step of either query, a lost send |
| `producer` | the producer's promises about whom it names, what it sends and how it ends; every generated event, every fault, and every event one field away, against rules, contracts, lake, tables and suites | two runs with two numbers to draw, three events sent by each or across both, so that an announcement, an event that names it and a second subscriber interleave with kills, retries and give-ups; every event type is generated and spoilt in every way; each field is left out, added, of another type, in each form, at and past each limit of a rule, a column and an integer width; a tower and a bundle that were not seeded |
| `clock_replay`, `lost_rejection`, `dlq_poison`, `quality_torn`, `msisdn_reuse` | the findings below | smallest instances that show them |

A second crash adds nothing new in kind: after a crash all that is left is the
committed state, the lake, the topic and the checkpoint, and a replay leaves
these in states one more crash would find them in.

### Fairness

* `DlqQuery` (`dlq`): weak fairness of `QueryStep`. The container has `restart:
  unless-stopped` (`docker-compose.yml:95`), so a driver that is down starts; the
  trigger fires every five seconds; Python proceeds through the handler.
* `Pipeline` (`pipeline_live`): weak fairness of `Start`, of the events query's
  steps and its client's deliveries together, of the DLQ query's steps, and of
  `Exit`: two threads that proceed, and `awaitAnyTermination` that returns once a
  query has failed. It is one condition per thread, not one per action.
* `Producer` (`producer`): weak fairness of `SenderStep` and `Close`: the client's
  thread runs and its retries are bounded (each event is acknowledged or given up
  in the end), and `flush` returns when the buffer is empty.

Nothing is assumed of those who publish, of the clock, or of crashes, except that
there are finitely many: a driver that crashes in every batch finishes none.

## Findings

* **A replay may reject for another reason** (`clock_replay`). The comment at
  `streaming_job.py:63` says replays reproduce DLQ ids. The first rule reads the
  clock: an event that was ahead of time is, when replayed later, rejected by
  its next rule, under another id, so one message has two rows in `dlq_records`.
* **A failed DLQ send is not noticed** (`lost_rejection`). The futures of `send`
  are dropped and `flush` does not raise, so the batch is finished and its
  rejection is nowhere, against "Nothing dropped silently" (`README.md:50`).
* **A parse error stops the DLQ query** (`dlq_poison`). `original_payload` is
  `jsonb`, and the payload of a `PARSE_ERROR` is not JSON: the INSERT raises, the
  driver exits, restarts, plans the same batch, and so on; `awaitAnyTermination`
  takes the events query down each time. `docs/architecture.md:186-189` says that
  parse failures land in `dlq_records`.
* **The quality checks can fail on sound data** (`quality_torn`).
  `tests/integration/test_quality.py:1` wants the suites to pass on the live
  warehouse. `load_tables` reads `dim_subscriber` first and the facts later, each
  SELECT with a snapshot of its own; a batch committed in between brings facts
  whose subscribers were not read, and the references do not resolve.
* **A later run reuses an msisdn** (`msisdn_reuse`). `docs/event-schemas.md:52` says
  that msisdn is unique; the registry that sees to it is empty in each run. In
  the warehouse the second row breaks a UNIQUE constraint that the upsert's ON
  CONFLICT does not name, and the events query stops.

Remarks, excused by name in the properties that meet them:

* A session's volume is rounded to two decimals (`usage.py:18`) and can be 0.00,
  which `volume_positive` refuses although nobody spoilt the event
  (`GeneratedAccepted`).
* The stream takes what the contracts refuse (`StreamLenient`, in
  `StreamAgreesWithContracts`): it does not check the form of an event id, the event
  type and version of the envelope, the sign of a new subscriber's id, a tower's
  technology or the size of an integer; it takes an integer amount, superscript
  digits in an msisdn, and times pandas cannot read.
* The contracts take what the stream refuses (`ContractLenient`): they know no
  bundle's price, take an msisdn with a newline after it, and a month as a time.
* What the rules accept and a statement or the lake raises on, which stops the query
  (`Unfit`, in `AcceptedRowsFit`): an event id that does not cast, a day before or
  after those of `dim_date`, a technology nobody checks, `session_seconds` or
  `connected_devices` of 2^31 and more, and other integers beyond 64 bits. A tower or
  bundle that is in the catalog and was not seeded raises in `tower_status_current`
  and is dropped by the join elsewhere.
* What the rules accept and a suite objects to (`Suspect`, in
  `AcceptedRowsPassSuites`): an amount or a volume below half a hundredth, positive
  in the event and 0.00 in the table, and a new msisdn in superscript digits.
* The lake holds a batch that was replayed more than once. `docs/architecture.md:94`
  speaks of every sink; `docs/adr/0003` leaves the lake to dedupe-on-read.

## Proofs

`tlapm` proves these for every value of the constants, under the assumptions
the modules name: `Msgs` is a finite set and `Records` a set of records with the
fields' types, `Instants` is a non-empty set of natural numbers, the bounds are
natural numbers (those on batches and lake rows positive); of the producer, that
`Msisdns` is finite and its bounds are natural; of the catalog, that it is not
empty, that its towers have known technologies, that its prices are whole cents
(a price below half a cent would be zero in its column), that its names fit
their columns, and that the tower and bundle names `corrupt` makes up are not in
it; of the integer widths, that the rules' limits lie within them (`RangeAssumption`). TLC checks the assumptions for every instance.

* **`RefreshRestoresTally`** (`MinuteWindow_proofs`). If a rollup tallies a table, and the table
  changes only in records stamped within the batch, then refreshing the minutes from
  the least to the greatest stamp makes it tally the new table. It rests on
  `MinuteBounds` and `MinuteMonotone` (a minute inside the range has all its
  seconds inside the insert's range, and conversely) and on `FiniteHasBounds` (Min and Max of
  a finite set are its bounds, from the well-foundedness of the subset order).
* **`TypeCorrect`** in `EventsQuery_proofs` and `DlqQuery_proofs`: one lemma or
  step per action. Besides types it says that batches lie within the logs, that locals are
  empty outside the handler, and that `tx = db` whenever no transaction is open.
* **`RollupsCorrect`** (events) and **`RollupCorrect`** (DLQ). The property says nothing of
  the open transaction that `Commit` makes the committed state, so it is not
  inductive. `RollupInv` adds: while topics are processed, the transaction's rollups are still the committed
  ones, and its rows differ from the committed ones only in records whose stamps
  have been collected; after the refresh its rollups tally its rows. The refresh step is
  the lemma above. For the DLQ the stamps are those of all well-formed records,
  so they cover whichever copy `_dedupe` keeps.
* **`KeysCorrect`, `LakeAhead`, `RowsStay`, `StatusNeverOlder`** (events). All four speak of `db`, which becomes `tx` at `Commit`;
  `RowsInv` says of `tx` what they say of `db`, that `tx` extends `db` (it has
  its rows, and for a tower one that is not older), and that in the sink the events of the
  topic are in the lake and have distinct ids. One lemma per statement shows
  that the statement keeps keys, extends the tables and takes rows from the topic only.
* **`NothingDroppedSilently`, `BatchesWhole`** (events, in `EventsWhole_proofs`).
  `WholeInv` follows a batch topic by topic: before the statement each message
  of the topic is rejected or has an event of its id among those to be written;
  after it, each is settled in the open transaction or among the rejections;
  after the last topic the whole batch is. `Commit` makes that so of the
  committed tables, and `FinishBatch`, with the buffer empty, adds the batch to
  the finished messages. That the statement settles the topic needs the least offset of
  an id and the greatest stamp of a tower to exist (`LeastOffset`). Messages settled
  stay settled because the tables only extend (`SettledMonotone`).
* **`StoredOnce`** (DLQ): at most one row per event id. `OnceInv` is the property
  of both tables; the INSERT keeps it because the batch is deduplicated and ON
  CONFLICT skips ids already stored.
* **`NothingLost`** and **`FirstStays`** (DLQ): `KeptInv` follows a batch: the well-formed messages of
  the planned batch are its records, from the INSERT on each has a row with its id
  (the first of the batch with that id, or one stored before), and the
  transaction contains all committed rows.

* **`ReplaysAddNothing`** and **`ReasonsReproduced`** (events, in `EventsReplay_proofs`).
  `ReplayInv` follows the first attempt and every replay of a batch whose verdicts
  are timeless. Both accept the same events (the valid ones, each id once);
  after its statement each is held by the open transaction, that is, written, or
  such that its statement has nothing to add; once the batch is committed the
  committed tables hold all of it, and a statement on what they hold changes
  nothing. The rollups are unchanged because a refresh makes them the tally
  they already are. `ReasonInv` says that each published reason is the one the
  message gets at any reading of the clock.
* **`IntakeImplemented`** (events, in `EventsIntake_proofs`): initial states map to
  initial states, and each step to a step of `Intake` or to a stutter. `Commit` maps
  to `Load`, and needs all of the above: rows are added once per key (`RowsInv`),
  none is removed, a replay adds none (`ReplayInv`); `FinishBatch` maps to
  `Finish`, and needs that the batch is settled (`WholeInv`). `IntakeInv` adds where
  rows and records come from: the batch, or what was there before.
* **`NeverBoth`** (events, in `EventsIntake_proofs`): no message sent once, in whose
  fate the clock has no part, is both stored and published as rejected. What could go
  wrong is a call rejected because its subscriber is unknown, and accepted by
  the replay that finds the subscriber. It cannot, because `subscribers` is the
  first of `TOPIC_ORDER`: `ApartInv` says that when a fact is rejected as unknown,
  each registration of that subscriber in the batch has been passed over, so
  that no replay of the batch writes it. A registration ahead of the clock is passed over
  by the first attempt and written by a later one, and then the call is accepted
  after all: hence the condition on the clock, which covers the
  registrations of the subscriber as well as the call.
* **`Pipeline`** (in `Pipeline_proofs`). A step of the pipeline is for each query a
  step of its own, a stutter, an exit when the other has failed, or the arrival
  of a rejection (`EventsSteps` and the lemmas after it), and the
  modules of the queries prove that each of these keeps their invariants. So
  `PipelineTypeCorrect`, `QueriesKeepTheirPromises`, `PipelineRowsStay` and
  `PipelineIntake` say of the composition what was proved of its parts; `DlqQuery` gives
  its proofs for any append to its log, so that the events query can be the one that
  appends. What is new is the link: a rejection the events
  query delivered is in the log of the DLQ query, and what is in that log was
  delivered or is a payment failure. With it `PipelineEndToEnd`
  (nothing a finished batch held is lost before `dlq_records`), `PipelineOneRow`
  and `PipelineNeverBoth` follow from the theorems of both queries. The queries are
  instantiated twice, with and without their lemmas; the first lemmas say
  that both instances mean the same.
* **`OnePerson`, `NothingLeft`, `Explained`, `TypeCorrect`** (in `Producer_proofs`). First, whom an
  event names: for each event type a lemma follows the identity through
  `generate` and every fault of `corrupt`, which leave it alone or replace it by
  the unknown subscriber. Then `ProducerInv`: the event under way announces a
  registered subscriber not yet announced, or names a registered one; a running
  producer has announced everyone it has registered but for that one; the
  registry tells its subscribers apart; the buffer holds events of the current
  run only. The last is why a kill loses events of its own run alone.

* **`GeneratedTaken`, `CorruptedRejected`, `ContractsAgree`, `AcceptedFit`,
  `AcceptedPass`** (in `Producer_proofs`). `Drafted` says of the event under way which
  generator made it and about whom. Per event type, `...Made` shows that
  `generate` gives the right fields, types and values and breaks no rule at any age,
  and `...Refused` that every fault of `corrupt` is refused, for every
  subscriber, number and catalog. The other three rest on lemmas about
  any event at all whose numeric fields hold integers, not only the neighbours
  the run tries: `Agreement` (rules and contracts, either way, at any reading of the clock, but
  for the gaps of each), `RowsFit` (rules against lake and columns) and `SuitesPassed` (rules and suites,
  after rounding to two decimals), each by the seven types; that the neighbours are such
  events is `NeighbourNumeric`.

Only model-checked: liveness (`Processed`, `Arrives`, `ShutsDown`), which is out of the
prover's reach, and the five runs that show the findings, where there is
nothing to prove. Every safety property and every action property of a passing run is a
theorem.

## Not modelled

* Partitions and the assignment of messages to them; retention (24 hours) with
  `failOnDataLoss=false`, which can skip messages after a long outage.
* The rate and the weights of the producer's mix: any order of events may come.
* Lake failures other than a crash; partition directories; readers.
* `generate_seeds.py`, which renders the catalog as SQL.
* Dashboards and monitoring: generated JSON and configuration; they only read.
* Kafka, Spark, PostgreSQL and Great Expectations themselves, which appear as the
  code uses them.

## What could follow

* Retention: a topic whose head is dropped while a batch is planned, and what is
  then skipped.
