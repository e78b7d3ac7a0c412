------------------------------ MODULE DlqQuery ------------------------------
(***************************************************************************)
(* The second query of the streaming job: process_dlq_batch over the topic  *)
(* failed-transactions, which fills dlq_records and its rollup               *)
(* agg_dlq_minute for the review dashboard.                                 *)
(*                                                                         *)
(* The topic is a log the events query and the payment simulator append to. *)
(* The events query publishes a rejection again when it replays a batch: a   *)
(* copy with the same event_id and a later stamp.  A batch is planned, the    *)
(* warehouse is written in one transaction, and the batch is logged as done;   *)
(* a crash, or an exception out of the handler, makes the driver start again  *)
(* with the same batch.                                                     *)
(*                                                                         *)
(* A definition whose comment begins with "Variant" is a faulty version of  *)
(* the one below it, a bug this code could have had.  No behaviour of Spec   *)
(* uses it; put in the other's place, it breaks a property below.           *)
(***************************************************************************)
EXTENDS Integers, Sequences, FiniteSets, FiniteSetsExt, MinuteWindow

CONSTANTS
    Records,        \* the messages that may appear on failed-transactions
    MaxOffsets,     \* maxOffsetsPerTrigger
    MaxCrashes      \* bound on crashes (exceptions are not bounded)

(***************************************************************************)
(* A record, down to what the code tells apart: its event_id, its stamp,     *)
(* its rejection_reason, whether it is a well-formed dlq_record, and whether  *)
(* its fields fit the columns (uuid event_id, varchar widths).               *)
(***************************************************************************)
ASSUME RecordsAssumption ==
    \A r \in Records : r.ts \in Nat /\ r.wellFormed \in BOOLEAN /\ r.fits \in BOOLEAN
ASSUME DlqBoundsAssumption == MaxOffsets \in Nat \ {0} /\ MaxCrashes \in Nat

Stamps == {r.ts : r \in Records}
Minutes == {MinuteOf(t) : t \in Stamps}

\* original_payload is jsonb, and the payload of a parse error is not JSON.
Storable(r) == r.fits /\ r.reason # "PARSE_ERROR"

VARIABLES
    log,            \* failed-transactions
    planned,        \* offset log: where the latest batch ends
    done,           \* commit log: where the latest finished batch ends
    pc,             \* what the query is doing
    records,        \* offsets of the batch's well-formed records
    tx,             \* dlq_records and agg_dlq_minute in the open transaction
    db,             \* the same as committed
    crashes         \* crashes so far

vars == <<log, planned, done, pc, records, tx, db, crashes>>

Tables == [rows : [Records -> Nat], rollup : [Minutes -> [Records -> Nat]]]
NoRows == [r \in Records |-> 0]
Stored(rows) == {r \in Records : rows[r] > 0}
At(S) == {log[i] : i \in S}

\* _dedupe: of the offsets with one event id, the first.
Dedupe(S) == {i \in S : \A j \in S : j < i => log[j].id # log[i].id}

\* Variant: without ON CONFLICT (event_id) and the constraint behind it.
NewRecordsUnchecked == At(Dedupe(records))
\* The rows the INSERT adds: ON CONFLICT (event_id) DO NOTHING.
NewRecords == {r \in At(Dedupe(records)) : \A s \in Stored(tx.rows) : s.id # r.id}

-----------------------------------------------------------------------------
Init ==
    /\ log = <<>>
    /\ planned = 0 /\ done = 0
    /\ pc = "down"
    /\ records = {}
    /\ tx = [rows |-> NoRows, rollup |-> [mi \in Minutes |-> NoRows]]
    /\ db = tx
    /\ crashes = 0

Arrive(r) ==
    /\ log' = Append(log, r)
    /\ UNCHANGED <<planned, done, pc, records, tx, db, crashes>>

Publish(r) == r \notin At(DOMAIN log) /\ Arrive(r)

Start ==
    /\ pc = "down"
    /\ pc' = "idle"
    /\ UNCHANGED <<log, planned, done, records, tx, db, crashes>>

Plan ==
    /\ pc = "idle" /\ planned = done
    /\ \E end \in (done + 1)..Len(log) : end - done <= MaxOffsets /\ planned' = end
    /\ UNCHANGED <<log, done, pc, records, tx, db, crashes>>

\* Variant: a message that does not parse raises.
BeginStrict ==
    /\ pc = "idle" /\ planned # done
    /\ records' = {i \in (done + 1)..planned : log[i].wellFormed}
    /\ pc' = IF records' # (done + 1)..planned THEN "down" ELSE "insert"
    /\ UNCHANGED <<log, planned, done, tx, db, crashes>>

\* collect and check: what is not a well-formed record is logged and skipped; a
\* batch of such messages only is finished without touching the warehouse.
Begin ==
    /\ pc = "idle" /\ planned # done
    /\ records' = {i \in (done + 1)..planned : log[i].wellFormed}
    /\ pc' = IF records' = {} THEN "finish" ELSE "insert"
    /\ UNCHANGED <<log, planned, done, tx, db, crashes>>

\* Variant: ON CONFLICT (event_id) DO UPDATE, the latest copy wins.
InsertDlqReplace ==
    /\ pc = "insert"
    /\ \A r \in At(Dedupe(records)) : Storable(r)
    /\ LET new == At(Dedupe(records))
       IN  tx' = [tx EXCEPT !.rows = [r \in Records |->
                     IF r \in new THEN 1
                     ELSE IF \E n \in new : n.id = r.id THEN 0 ELSE @[r]]]
    /\ pc' = "rollup"
    /\ UNCHANGED <<log, planned, done, records, db, crashes>>

InsertDlq ==
    /\ pc = "insert"
    /\ \A r \in At(Dedupe(records)) : Storable(r)
    /\ tx' = [tx EXCEPT !.rows = [r \in Records |->
                                     @[r] + IF r \in NewRecords THEN 1 ELSE 0]]
    /\ pc' = "rollup"
    /\ UNCHANGED <<log, planned, done, records, db, crashes>>

\* Variant: the stamp of the batch's first record only.
BatchStampsFirst == {log[Min(records)].ts}

\* The stamps of all well-formed records of the batch, duplicates included.
BatchStamps == {r.ts : r \in At(records)}

RefreshRollup ==
    /\ pc = "rollup"
    /\ tx' = [tx EXCEPT !.rollup = Refreshed(@, tx.rows, BatchStamps)]
    /\ pc' = "commit"
    /\ UNCHANGED <<log, planned, done, records, db, crashes>>

Commit ==
    /\ pc = "commit"
    /\ db' = tx
    /\ pc' = "finish"
    /\ UNCHANGED <<log, planned, done, records, tx, crashes>>

FinishBatch ==
    /\ pc = "finish"
    /\ done' = planned
    /\ records' = {}
    /\ pc' = "idle"
    /\ UNCHANGED <<log, planned, tx, db, crashes>>

\* Variant: the exception is logged and the batch skipped.
DownSkipsBatch ==
    /\ pc' = "down"
    /\ records' = {}
    /\ tx' = db
    /\ done' = planned
    /\ UNCHANGED <<log, planned, db>>

\* Variant: the connection outlives the batch and is not rolled back.
DownNoRollback ==
    /\ pc' = "down"
    /\ records' = {}
    /\ UNCHANGED <<log, planned, done, tx, db>>

\* Rollback; the exception, or the crash, ends the query and the driver.
Down ==
    /\ pc' = "down"
    /\ records' = {}
    /\ tx' = db
    /\ UNCHANGED <<log, planned, done, db>>

InsertRaises ==
    /\ pc = "insert"
    /\ \E r \in At(Dedupe(records)) : ~Storable(r)
    /\ Down
    /\ UNCHANGED crashes

Crash ==
    /\ pc # "down" /\ crashes < MaxCrashes
    /\ crashes' = crashes + 1
    /\ Down

QueryStep ==
    \/ Start \/ Plan \/ Begin \/ InsertDlq \/ InsertRaises \/ RefreshRollup
    \/ Commit \/ FinishBatch

Next ==
    \/ \E r \in Records : Publish(r)
    \/ QueryStep
    \/ Crash

Spec == Init /\ [][Next]_vars

\* The container is restarted whenever it exits, the trigger fires every few
\* seconds, and a running handler proceeds.
FairSpec == Spec /\ WF_vars(QueryStep)

-----------------------------------------------------------------------------
(* Properties.                                                             *)

\* Every variable has its type; batches lie within the log; with no
\* transaction open, tx is the committed state.
TypeOK ==
    /\ log \in Seq(Records)
    /\ planned \in Nat /\ done \in Nat
    /\ done <= planned /\ planned <= Len(log)
    /\ pc \in {"down", "idle", "insert", "rollup", "commit", "finish"}
    /\ records \subseteq (done + 1)..planned
    /\ pc \in {"down", "idle"} => records = {}
    /\ pc \in {"insert", "rollup", "commit"} => records # {}
    /\ tx \in Tables /\ db \in Tables
    /\ pc \in {"down", "idle", "insert", "finish"} => tx = db
    /\ crashes \in 0..MaxCrashes

\* agg_dlq_minute is always what dlq_records says, though copies of one
\* rejection carry different stamps and only the first is kept.
RollupMatchesRecords == db.rollup = Tally(db.rows, Minutes)

\* A rejection republished by a replay is stored once: one row per event_id,
\* within a batch (_dedupe) and across batches (ON CONFLICT).
RejectionsStoredOnce ==
    \A r, s \in Stored(db.rows) : db.rows[r] = 1 /\ (r.id = s.id => r = s)

\* Every well-formed record of a finished batch is in dlq_records, itself or
\* an earlier copy of the same event_id.
NoRejectionLost ==
    \A i \in 1..done : log[i].wellFormed => \E s \in Stored(db.rows) : s.id = log[i].id

\* The copy stored first stays: its rejected_at, and so the minute it is
\* charted in, never changes.
FirstCopyStays == [][Stored(db.rows) \subseteq Stored(db'.rows)]_vars

\* The planned batch holds a well-formed record the table refuses.
Stuck ==
    LET batch == Dedupe({i \in (done + 1)..planned : log[i].wellFormed})
    IN  \E i \in batch : ~Storable(log[i])

\* Every message on the topic is eventually in a finished batch, crashes and
\* malformed messages or not: the only thing the query can get stuck on is a batch
\* with a record the table refuses.
Processed == \A i \in 1..Cardinality(Records) : i <= Len(log) ~> i <= done \/ Stuck

\* What architecture.md section 5 says of the DLQ path: a parse failure on the
\* topic ends up in dlq_records, queryable by reason.
ParseFailuresQueryable ==
    \A r \in Records :
        r.reason = "PARSE_ERROR" /\ r \in At(DOMAIN log) ~> db.rows[r] = 1
=============================================================================
