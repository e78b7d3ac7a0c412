--------------------------- MODULE DlqQuery_proofs ---------------------------
(***************************************************************************)
(* Theorems about DlqQuery, for every value of its constants.              *)
(***************************************************************************)
EXTENDS DlqQuery, MinuteWindow_proofs, FiniteSetTheorems, TLAPS

LEMMA RecordFacts ==
    /\ \A r \in Records : r.ts \in Nat /\ r.ts \in Stamps
    /\ Stamps \subseteq Nat
    /\ Minutes \subseteq Nat
<1>1. \A r \in Records : r.ts \in Nat /\ r.ts \in Stamps
  BY RecordsAssumption DEF Stamps
<1>2. Stamps \subseteq Nat
  BY <1>1 DEF Stamps
<1>3. Minutes \subseteq Nat
  BY <1>2, MinuteBounds DEF Minutes
<1> QED BY <1>1, <1>2, <1>3

\* The batch's records are records of the log.
LEMMA BatchIsLogged ==
    ASSUME TypeOK
    PROVE  /\ \A i \in 1..Len(log) : log[i] \in Records
           /\ records \subseteq 1..Len(log)
           /\ (done + 1)..planned \subseteq 1..Len(log)
           /\ 1..done \subseteq 1..Len(log)
           /\ At(records) \subseteq Records
<1>1. /\ log \in Seq(Records) /\ done \in Nat /\ planned \in Nat
      /\ done <= planned /\ planned <= Len(log) /\ Len(log) \in Nat
      /\ records \subseteq (done + 1)..planned
  BY DEF TypeOK
<1>2. \A i \in 1..Len(log) : log[i] \in Records
  BY <1>1
<1>3. (done + 1)..planned \subseteq 1..Len(log) /\ 1..done \subseteq 1..Len(log)
  BY <1>1
<1> QED BY <1>1, <1>2, <1>3 DEF At

\* A batch has finitely many offsets, hence finitely many stamps.
LEMMA BatchIsFinite ==
    ASSUME TypeOK
    PROVE  IsFiniteSet(records) /\ records \subseteq Nat /\ IsFiniteSet(BatchStamps)
<1>1. (done + 1) \in Int /\ planned \in Int /\ done \in Nat
  BY DEF TypeOK
<1>2. IsFiniteSet((done + 1)..planned)
  <2> DEFINE a == done + 1
  <2> HIDE DEF a
  <2>1. IsFiniteSet(a..planned)
    BY <1>1, FS_Interval DEF a
  <2> QED BY <2>1 DEF a
<1>3. IsFiniteSet(records) /\ records \subseteq Nat
  <2>1. records \subseteq (done + 1)..planned
    BY DEF TypeOK
  <2>2. IsFiniteSet(records)
    BY <1>2, <2>1, FS_Subset
  <2>3. records \subseteq Nat
    BY BatchIsLogged
  <2> QED BY <2>2, <2>3
<1>4. IsFiniteSet(BatchStamps)
  <2> DEFINE f == [i \in records |-> log[i].ts]
  <2>1. f \in Surjection(records, BatchStamps)
    BY DEF Surjection, BatchStamps, At
  <2> HIDE DEF f
  <2> QED BY <1>3, <2>1, FS_Surjection
<1> QED BY <1>3, <1>4

LEMMA NewAreRecords ==
    ASSUME TypeOK
    PROVE  NewRecords \subseteq At(Dedupe(records)) /\ At(Dedupe(records)) \subseteq Records
BY BatchIsLogged DEF NewRecords, At, Dedupe

\* Publishing leaves the part of the log that is planned as it was.
LEMMA PublishKeepsLog ==
    ASSUME TypeOK, NEW r \in Records, Arrive(r)
    PROVE  /\ log' \in Seq(Records)
           /\ Len(log') \in Nat /\ Len(log) <= Len(log')
           /\ \A i \in 1..Len(log) : log'[i] = log[i]
BY DEF TypeOK, Arrive

\* The rows after the INSERT: the old ones and the new ones.
LEMMA InsertRows ==
    ASSUME TypeOK, InsertDlq
    PROVE  /\ tx' \in Tables /\ tx'.rollup = tx.rollup
           /\ \A r \in Records :
                 tx'.rows[r] = tx.rows[r] + IF r \in NewRecords THEN 1 ELSE 0
           /\ Stored(tx'.rows) = Stored(tx.rows) \cup NewRecords
           /\ \A r \in Records \ NewRecords : tx'.rows[r] = tx.rows[r]
<1> DEFINE rows2 == [r \in Records |-> tx.rows[r] + IF r \in NewRecords THEN 1 ELSE 0]
<1>1. tx \in Tables
  BY DEF TypeOK
<1>2. tx' = [tx EXCEPT !.rows = rows2]
  BY DEF InsertDlq
<1>3. rows2 \in [Records -> Nat] /\ \A r \in Records : tx.rows[r] \in Nat
  BY <1>1 DEF Tables
<1>4. tx' \in Tables /\ tx'.rollup = tx.rollup /\ tx'.rows = rows2
  <2> HIDE DEF rows2
  <2> QED BY <1>1, <1>2, <1>3 DEF Tables
<1>5. NewRecords \subseteq Records
  BY NewAreRecords
<1>6. Stored(tx'.rows) = Stored(tx.rows) \cup NewRecords
  BY <1>3, <1>4, <1>5 DEF Stored
<1>7. \A r \in Records \ NewRecords : tx'.rows[r] = tx.rows[r]
  BY <1>3, <1>4
<1> QED BY <1>4, <1>6, <1>7

LEMMA TypeInit == Init => TypeOK
<1> SUFFICES ASSUME Init PROVE TypeOK
  OBVIOUS
<1>1. [rows |-> NoRows, rollup |-> [mi \in Minutes |-> NoRows]] \in Tables
  BY DEF NoRows, Tables
<1>2. tx = db /\ tx \in Tables
  BY <1>1 DEF Init
<1>3. crashes \in 0..MaxCrashes
  BY DlqBoundsAssumption DEF Init
<1>4. log \in Seq(Records) /\ Len(log) = 0
  BY DEF Init
<1> QED BY <1>2, <1>3, <1>4 DEF Init, TypeOK

LEMMA TypeRefreshRollup == ASSUME TypeOK, RefreshRollup PROVE TypeOK'
<1> DEFINE new == Refreshed(tx.rollup, tx.rows, BatchStamps)
<1>1. tx \in Tables /\ tx' = [tx EXCEPT !.rollup = new]
  BY DEF TypeOK, RefreshRollup
<1>2. tx.rows \in [Records -> Nat] /\ tx.rollup \in [Minutes -> [Records -> Nat]]
  BY <1>1 DEF Tables
<1>3. new \in [Minutes -> [Records -> Nat]]
  BY <1>2 DEF Refreshed
<1>4. tx' \in Tables
  <2> HIDE DEF new
  <2> QED BY <1>1, <1>3 DEF Tables
<1> QED BY <1>4 DEF TypeOK, RefreshRollup

LEMMA TypeCrash == ASSUME TypeOK, Crash PROVE TypeOK'
<1>1. crashes' \in 0..MaxCrashes
  BY DlqBoundsAssumption DEF TypeOK, Crash
<1> QED BY <1>1 DEF TypeOK, Crash, Down, Tables

(***************************************************************************)
(* In the pipeline the other query's failure may take this one down at any     *)
(* point, and a copy of a record that is on the topic already may arrive.  The  *)
(* invariants below are kept by those steps too.                            *)
(***************************************************************************)
Exits == Down /\ crashes' \in 0..MaxCrashes
Arrivals == \E r \in Records : Arrive(r)
Moves == [Next]_vars \/ Exits \/ Arrivals

LEMMA NextMoves == [Next]_vars => Moves
BY DEF Moves

LEMMA TypeStep == TypeOK /\ Moves => TypeOK'
<1> SUFFICES ASSUME TypeOK, Moves PROVE TypeOK'
  OBVIOUS
<1>1. ASSUME NEW r \in Records, Arrive(r) PROVE TypeOK'
  BY <1>1, PublishKeepsLog DEF Arrive, TypeOK, Tables
<1>2. CASE Start
  BY <1>2 DEF Start, TypeOK, Tables
<1>3. CASE Plan
  <2>1. PICK end \in (done + 1)..Len(log) : planned' = end
    BY <1>3 DEF Plan
  <2>2. planned' \in Nat /\ done <= planned' /\ planned' <= Len(log)
    BY <2>1 DEF TypeOK
  <2>3. pc = "idle" /\ records = {} /\ UNCHANGED <<log, done, pc, records, tx, db, crashes>>
    BY <1>3 DEF Plan, TypeOK
  <2> QED BY <2>2, <2>3 DEF TypeOK, Tables
<1>4. CASE Begin
  BY <1>4 DEF Begin, TypeOK, Tables
<1>5. CASE InsertDlq
  BY <1>5, InsertRows DEF InsertDlq, TypeOK
<1>6. CASE InsertRaises
  BY <1>6 DEF InsertRaises, Down, TypeOK, Tables
<1>7. CASE Commit
  BY <1>7 DEF Commit, TypeOK, Tables
<1>8. CASE FinishBatch
  BY <1>8 DEF FinishBatch, TypeOK, Tables
<1>9. CASE UNCHANGED vars
  BY <1>9 DEF vars, TypeOK, Tables
<1>10. CASE Exits
  BY <1>10 DEF Exits, Down, TypeOK, Tables
<1> QED BY <1>1, <1>2, <1>3, <1>4, <1>5, <1>6, <1>7, <1>8, <1>9, <1>10,
           TypeRefreshRollup, TypeCrash
        DEF Moves, Arrivals, Next, QueryStep, Publish

\* The type invariant: a batch lies within the log, its records are non-empty
\* while the warehouse is written, and no transaction outlives its batch.
THEOREM TypeCorrect == Spec => []TypeOK
BY TypeInit, TypeStep, NextMoves, PTL DEF Spec

-----------------------------------------------------------------------------
(***************************************************************************)
(* The rollup.  As in the events query the property says nothing of the     *)
(* open transaction; the invariant adds what Commit needs.  Here the stamps  *)
(* are those of all well-formed records of the batch, so every row the       *)
(* INSERT adds is stamped among them, whichever copy _dedupe keeps.          *)
(***************************************************************************)
RollupInv ==
    /\ RollupMatchesRecords
    /\ pc = "rollup" =>
          /\ tx.rollup = db.rollup
          /\ \A r \in Records : tx.rows[r] # db.rows[r] => r.ts \in BatchStamps
    /\ pc = "commit" => tx.rollup = Tally(tx.rows, Minutes)

LEMMA RollupInit == Init => RollupInv
BY DEF Init, RollupInv, RollupMatchesRecords, Tally, NoRows

LEMMA RollupPublish ==
    ASSUME TypeOK, RollupInv, NEW r \in Records, Arrive(r)
    PROVE  RollupInv'
<1>1. UNCHANGED <<pc, records, tx, db>>
  BY DEF Arrive
<1>2. \A i \in records : log'[i] = log[i]
  BY PublishKeepsLog, BatchIsLogged
<1>3. BatchStamps' = BatchStamps
  BY <1>1, <1>2 DEF BatchStamps, At
<1> QED BY <1>1, <1>3 DEF RollupInv, RollupMatchesRecords

LEMMA RollupInsert == ASSUME TypeOK, RollupInv, InsertDlq PROVE RollupInv'
<1>1. /\ tx = db /\ db' = db /\ pc' = "rollup" /\ UNCHANGED <<log, records>>
  BY DEF TypeOK, InsertDlq
<1>2. \A r \in NewRecords : r.ts \in BatchStamps
  BY NewAreRecords DEF BatchStamps, At, Dedupe
<1>3. \A r \in Records : tx'.rows[r] # db.rows[r] => r \in NewRecords
  BY <1>1, InsertRows
<1>4. BatchStamps' = BatchStamps
  BY <1>1 DEF BatchStamps, At
<1> QED BY <1>1, <1>2, <1>3, <1>4, InsertRows DEF RollupInv, RollupMatchesRecords

LEMMA RollupRefresh == ASSUME TypeOK, RollupInv, RefreshRollup PROVE RollupInv'
<1>1. /\ pc = "rollup" /\ pc' = "commit" /\ db' = db /\ records # {}
      /\ tx.rollup = Tally(db.rows, Minutes)
      /\ \A r \in Records : db.rows[r] # tx.rows[r] => r.ts \in BatchStamps
  BY DEF RefreshRollup, TypeOK, RollupInv, RollupMatchesRecords
<1>2. tx \in Tables /\ db.rows \in [Records -> Nat] /\ tx.rows \in [Records -> Nat]
  BY DEF TypeOK, Tables
<1>3. BatchStamps \subseteq Stamps /\ BatchStamps # {}
  BY <1>1, BatchIsLogged, RecordFacts DEF BatchStamps, At
<1>4. BatchStamps \in SUBSET Nat /\ IsFiniteSet(BatchStamps)
  BY <1>3, RecordFacts, BatchIsFinite
<1>5. tx'.rows = tx.rows
      /\ tx'.rollup = Refreshed(Tally(db.rows, Minutes), tx.rows, BatchStamps)
  BY <1>1, <1>2 DEF RefreshRollup, Tables
<1>6. \A r \in Records : r.ts \in Nat
  BY RecordFacts
<1>7. \A mi \in Minutes : mi \in Nat
  BY RecordFacts
<1>8. tx'.rollup = Tally(tx.rows, Minutes)
  BY <1>1, <1>2, <1>3, <1>4, <1>5, <1>6, <1>7, RefreshRestoresTally
<1> QED BY <1>1, <1>5, <1>8 DEF RollupInv, RollupMatchesRecords

LEMMA RollupStep == TypeOK /\ RollupInv /\ Moves => RollupInv'
<1> SUFFICES ASSUME TypeOK, RollupInv, Moves PROVE RollupInv'
  OBVIOUS
<1>1. CASE Start \/ Plan \/ Begin \/ FinishBatch
  BY <1>1 DEF Start, Plan, Begin, FinishBatch, TypeOK, RollupInv, RollupMatchesRecords
<1>2. CASE Commit
  BY <1>2 DEF Commit, RollupInv, RollupMatchesRecords
<1>3. CASE InsertRaises \/ Crash \/ Exits
  BY <1>3 DEF InsertRaises, Crash, Exits, Down, RollupInv, RollupMatchesRecords
<1>4. CASE UNCHANGED vars
  BY <1>4 DEF vars, RollupInv, RollupMatchesRecords, BatchStamps, At
<1> QED BY <1>1, <1>2, <1>3, <1>4, RollupPublish, RollupInsert, RollupRefresh
        DEF Moves, Arrivals, Next, QueryStep, Publish

\* The committed agg_dlq_minute is always what the committed dlq_records say.
THEOREM RollupCorrect == Spec => []RollupMatchesRecords
<1>1. RollupInv => RollupMatchesRecords
  BY DEF RollupInv
<1> QED BY TypeCorrect, RollupInit, RollupStep, NextMoves, <1>1, PTL DEF Spec

-----------------------------------------------------------------------------
(***************************************************************************)
(* One row per event id.  Both the committed rows and those of the open      *)
(* transaction have it; that the latter keep it is where the deduplication   *)
(* of the batch and the ON CONFLICT clause meet: neither suffices alone.     *)
(***************************************************************************)
OnePerId(rows) ==
    \A r, s \in Stored(rows) : rows[r] = 1 /\ (r.id = s.id => r = s)
OnceInv == OnePerId(db.rows) /\ OnePerId(tx.rows)

LEMMA OnceInsert == ASSUME TypeOK, OnceInv, InsertDlq PROVE OnceInv'
<1>1. ASSUME NEW r \in NewRecords, NEW s \in NewRecords, r.id = s.id PROVE r = s
  <2>1. PICK i \in Dedupe(records) : r = log[i]
    BY DEF NewRecords, At
  <2>2. PICK j \in Dedupe(records) : s = log[j]
    BY DEF NewRecords, At
  <2>3. i \in Nat /\ j \in Nat /\ i \in records /\ j \in records
    BY BatchIsLogged DEF Dedupe
  <2>4. ~(i < j) /\ ~(j < i)
    BY <1>1, <2>1, <2>2, <2>3 DEF Dedupe
  <2> QED BY <2>1, <2>2, <2>3, <2>4
<1>2. ASSUME NEW r \in NewRecords, NEW s \in Stored(tx.rows) PROVE r.id # s.id
  BY DEF NewRecords
<1>3. ASSUME NEW r \in NewRecords PROVE tx'.rows[r] = 1
  <2>1. r \in Records /\ r \notin Stored(tx.rows)
    BY <1>2, NewAreRecords
  <2>2. tx.rows[r] \in Nat /\ ~(tx.rows[r] > 0)
    BY <2>1 DEF Stored, TypeOK, Tables
  <2> QED BY <2>1, <2>2, InsertRows
<1>4. ASSUME NEW r \in Stored(tx.rows) PROVE tx'.rows[r] = 1
  <2>1. r \in Records \ NewRecords
    BY <1>2 DEF Stored
  <2> QED BY <2>1, InsertRows DEF OnceInv, OnePerId
<1>5. OnePerId(tx'.rows)
  <2> SUFFICES ASSUME NEW r \in Stored(tx'.rows), NEW s \in Stored(tx'.rows)
               PROVE  tx'.rows[r] = 1 /\ (r.id = s.id => r = s)
    BY DEF OnePerId
  <2> QED BY <1>1, <1>2, <1>3, <1>4, InsertRows DEF OnceInv, OnePerId
<1> QED BY <1>5 DEF OnceInv, InsertDlq

LEMMA OnceInit == Init => OnceInv
BY DEF Init, OnceInv, OnePerId, Stored, NoRows

LEMMA OnceStep == TypeOK /\ OnceInv /\ Moves => OnceInv'
<1> SUFFICES ASSUME TypeOK, OnceInv, Moves PROVE OnceInv'
  OBVIOUS
<1>1. CASE RefreshRollup
  <2>1. tx'.rows = tx.rows /\ db' = db
    BY <1>1 DEF RefreshRollup, TypeOK, Tables
  <2> QED BY <2>1 DEF OnceInv, OnePerId
<1>2. CASE Arrivals \/ Start \/ Plan \/ Begin \/ FinishBatch
  BY <1>2 DEF Arrivals, Arrive, Start, Plan, Begin, FinishBatch, OnceInv
<1>3. CASE Commit \/ InsertRaises \/ Crash \/ Exits
  BY <1>3 DEF Commit, InsertRaises, Crash, Exits, Down, OnceInv
<1>4. CASE UNCHANGED vars
  BY <1>4 DEF vars, OnceInv
<1> QED BY <1>1, <1>2, <1>3, <1>4, OnceInsert
        DEF Moves, Arrivals, Next, QueryStep, Publish

\* However often rejections are republished and batches replayed, dlq_records
\* has at most one row per event id.
THEOREM StoredOnce == Spec => []RejectionsStoredOnce
<1>1. OnceInv => RejectionsStoredOnce
  BY DEF OnceInv, OnePerId, RejectionsStoredOnce
<1> QED BY TypeCorrect, OnceInit, OnceStep, NextMoves, <1>1, PTL DEF Spec

-----------------------------------------------------------------------------
(***************************************************************************)
(* No rejection is lost, and none that is stored is replaced.  The invariant *)
(* follows a batch through its transaction: every well-formed message of     *)
(* the planned batch is among its records, and from the INSERT on each of    *)
(* them has a row with its id.                                              *)
(***************************************************************************)
Covered(rows, i) == \E s \in Stored(rows) : s.id = log[i].id
KeptInv ==
    /\ Stored(db.rows) \subseteq Stored(tx.rows)
    /\ NoRejectionLost
    /\ pc \in {"insert", "rollup", "commit", "finish"} =>
          \A i \in (done + 1)..planned : log[i].wellFormed => i \in records
    /\ pc \in {"rollup", "commit", "finish"} =>
          \A i \in records : Covered(tx.rows, i)

LEMMA KeptInit == Init => KeptInv
<1> SUFFICES ASSUME Init PROVE KeptInv
  OBVIOUS
<1>1. done = 0 /\ pc = "down" /\ tx = db
  BY DEF Init
<1>2. 1..done = {}
  BY <1>1
<1> QED BY <1>1, <1>2 DEF KeptInv, NoRejectionLost

LEMMA KeptPublish ==
    ASSUME TypeOK, KeptInv, NEW r \in Records, Arrive(r)
    PROVE  KeptInv'
<1>1. UNCHANGED <<planned, done, pc, records, tx, db>>
  BY DEF Arrive
<1>2. \A i \in records \cup ((done + 1)..planned) \cup (1..done) : log'[i] = log[i]
  BY PublishKeepsLog, BatchIsLogged
<1> QED BY <1>1, <1>2 DEF KeptInv, NoRejectionLost, Covered

LEMMA KeptBegin == ASSUME TypeOK, KeptInv, Begin PROVE KeptInv'
<1>1. /\ records' = {i \in (done + 1)..planned : log[i].wellFormed}
      /\ pc' = IF records' = {} THEN "finish" ELSE "insert"
      /\ UNCHANGED <<log, planned, done, tx, db>>
  BY DEF Begin
<1>2. NoRejectionLost'
  BY <1>1 DEF KeptInv, NoRejectionLost
<1> QED BY <1>1, <1>2 DEF KeptInv

\* The first record of the batch with a given id is inserted, unless its id is
\* in the table already.
LEMMA KeptInsert == ASSUME TypeOK, KeptInv, InsertDlq PROVE KeptInv'
<1>1. /\ UNCHANGED <<log, planned, done, records, db>>
      /\ pc = "insert" /\ pc' = "rollup"
  BY DEF InsertDlq
<1>2. Stored(tx'.rows) = Stored(tx.rows) \cup NewRecords
  BY InsertRows
<1>3. ASSUME NEW i \in records PROVE Covered(tx'.rows, i)
  <2> DEFINE S == {j \in records : log[j].id = log[i].id}
  <2>1. IsFiniteSet(records) /\ records \subseteq Nat
    BY BatchIsFinite
  <2>2. S \in SUBSET Nat /\ IsFiniteSet(S) /\ S # {}
    <3>1. S \subseteq records /\ i \in S
      OBVIOUS
    <3> QED BY <2>1, <3>1, FS_Subset
  <2>3. PICK j \in S : \A k \in S : j <= k
    <3> HIDE DEF S
    <3> QED BY <2>2, FiniteHasBounds
  <2>4. j \in Dedupe(records)
    <3>1. ASSUME NEW k \in records, k < j PROVE log[k].id # log[j].id
      <4>1. k \in Nat /\ j \in Nat
        BY <2>1
      <4> QED BY <2>3, <3>1, <4>1
    <3> QED BY <3>1 DEF Dedupe
  <2>5. log[j] \in At(Dedupe(records)) /\ log[j].id = log[i].id
    BY <2>4 DEF At
  <2>6. CASE log[j] \in NewRecords
    BY <1>2, <2>5, <2>6 DEF Covered
  <2>7. CASE log[j] \notin NewRecords
    <3>1. \E s \in Stored(tx.rows) : s.id = log[j].id
      BY <2>5, <2>7 DEF NewRecords
    <3> QED BY <1>2, <2>5, <3>1 DEF Covered
  <2> QED BY <2>6, <2>7
<1>4. NoRejectionLost'
  BY <1>1 DEF KeptInv, NoRejectionLost
<1>5. \A i \in records : Covered(tx.rows, i)'
  BY <1>1, <1>3 DEF Covered
<1> QED BY <1>1, <1>2, <1>4, <1>5 DEF KeptInv

LEMMA KeptRefresh == ASSUME TypeOK, KeptInv, RefreshRollup PROVE KeptInv'
<1>1. /\ tx'.rows = tx.rows /\ pc = "rollup" /\ pc' = "commit"
      /\ UNCHANGED <<log, planned, done, records, db>>
  BY DEF RefreshRollup, TypeOK, Tables
<1> QED BY <1>1 DEF KeptInv, NoRejectionLost, Covered

LEMMA KeptCommit == ASSUME TypeOK, KeptInv, Commit PROVE KeptInv'
<1>1. /\ db' = tx /\ pc = "commit" /\ pc' = "finish"
      /\ UNCHANGED <<log, planned, done, records, tx>>
  BY DEF Commit
<1>2. NoRejectionLost'
  BY <1>1 DEF KeptInv, NoRejectionLost
<1> QED BY <1>1, <1>2 DEF KeptInv, Covered

LEMMA KeptFinish == ASSUME TypeOK, KeptInv, FinishBatch PROVE KeptInv'
<1>1. /\ done' = planned /\ pc = "finish" /\ pc' = "idle" /\ tx = db
      /\ UNCHANGED <<log, planned, tx, db>>
      /\ done \in Nat /\ planned \in Nat
  BY DEF FinishBatch, TypeOK
<1>2. 1..planned = (1..done) \cup ((done + 1)..planned)
  BY <1>1 DEF TypeOK
<1>3. NoRejectionLost'
  <2> SUFFICES ASSUME NEW i \in 1..planned, log[i].wellFormed
               PROVE  \E s \in Stored(db.rows) : s.id = log[i].id
    BY <1>1 DEF NoRejectionLost
  <2>1. CASE i \in 1..done
    BY <2>1 DEF KeptInv, NoRejectionLost
  <2>2. CASE i \in (done + 1)..planned
    BY <1>1, <2>2 DEF KeptInv, Covered
  <2> QED BY <1>2, <2>1, <2>2
<1> QED BY <1>1, <1>3 DEF KeptInv

LEMMA KeptDown == ASSUME KeptInv, Down PROVE KeptInv'
BY DEF KeptInv, NoRejectionLost, Down

LEMMA KeptStep == TypeOK /\ KeptInv /\ Moves => KeptInv'
<1> SUFFICES ASSUME TypeOK, KeptInv, Moves PROVE KeptInv'
  OBVIOUS
<1>1. CASE Start \/ Plan
  BY <1>1 DEF Start, Plan, KeptInv, NoRejectionLost, TypeOK
<1>2. CASE InsertRaises \/ Crash \/ Exits
  BY <1>2, KeptDown DEF InsertRaises, Crash, Exits
<1>3. CASE UNCHANGED vars
  BY <1>3 DEF vars, KeptInv, NoRejectionLost, Covered
<1> QED BY <1>1, <1>2, <1>3, KeptPublish, KeptBegin, KeptInsert, KeptRefresh,
           KeptCommit, KeptFinish
        DEF Moves, Arrivals, Next, QueryStep, Publish

\* Every well-formed record of a finished batch is in dlq_records, itself or an
\* earlier copy of its event id, whatever crashes and replays there were.
THEOREM NothingLost == Spec => []NoRejectionLost
<1>1. KeptInv => NoRejectionLost
  BY DEF KeptInv
<1> QED BY TypeCorrect, KeptInit, KeptStep, NextMoves, <1>1, PTL DEF Spec

\* Only Commit changes the committed rows, and its transaction has kept them all.
LEMMA KeptRows ==
    ASSUME KeptInv, Moves
    PROVE  Stored(db.rows) \subseteq Stored(db'.rows)
<1>1. CASE Commit
  BY <1>1 DEF Commit, KeptInv
<1>2. CASE ~Commit
  <2>1. db' = db
    BY <1>2 DEF Moves, Exits, Arrivals, Next, QueryStep, Publish, Arrive, Start, Plan, Begin,
                InsertDlq, InsertRaises, RefreshRollup, FinishBatch, Crash, Down, vars
  <2> QED BY <2>1
<1> QED BY <1>1, <1>2

\* A stored rejection is never replaced or removed.
THEOREM FirstStays == Spec => FirstCopyStays
<1>1. KeptInv /\ [Next]_vars => [Stored(db.rows) \subseteq Stored(db'.rows)]_vars
  BY KeptRows, NextMoves
<1> QED BY TypeCorrect, KeptInit, KeptStep, NextMoves, <1>1, PTL DEF Spec, FirstCopyStays

-----------------------------------------------------------------------------
(* Every stored record arrived on the topic.                               *)

SourceInv == Stored(tx.rows) \cup Stored(db.rows) \subseteq At(DOMAIN log)

LEMMA SourceInit == Init => SourceInv
BY DEF Init, SourceInv, Stored, NoRows

LEMMA SourceStep == TypeOK /\ SourceInv /\ Moves => SourceInv'
<1> SUFFICES ASSUME TypeOK, SourceInv, Moves PROVE SourceInv'
  OBVIOUS
<1>1. ASSUME NEW r \in Records, Arrive(r) PROVE SourceInv'
  <2>1. UNCHANGED <<tx, db>> /\ \A i \in 1..Len(log) : log'[i] = log[i]
    BY <1>1, PublishKeepsLog DEF Arrive
  <2>2. DOMAIN log = 1..Len(log) /\ DOMAIN log' = 1..Len(log') /\ Len(log) <= Len(log')
        /\ Len(log) \in Nat /\ Len(log') \in Nat
    BY <1>1, PublishKeepsLog DEF TypeOK
  <2>3. DOMAIN log \subseteq DOMAIN log'
    BY <2>2
  <2>4. At(DOMAIN log) \subseteq At(DOMAIN log)'
    BY <2>1, <2>2, <2>3 DEF At
  <2> QED BY <2>1, <2>4 DEF SourceInv, Stored
<1>2. CASE InsertDlq
  <2>1. UNCHANGED <<log, db>> /\ DOMAIN log = 1..Len(log)
    BY <1>2 DEF InsertDlq, TypeOK
  <2>2. NewRecords \subseteq At(DOMAIN log)
    BY <2>1, BatchIsLogged DEF NewRecords, At, Dedupe
  <2>3. Stored(tx'.rows) \subseteq At(DOMAIN log)
    BY <1>2, <2>2, InsertRows DEF SourceInv
  <2>4. At(DOMAIN log)' = At(DOMAIN log)
    BY <2>1 DEF At
  <2> QED BY <2>1, <2>3, <2>4 DEF SourceInv, Stored
<1>3. CASE RefreshRollup
  <2>1. tx'.rows = tx.rows /\ UNCHANGED <<log, db>>
    BY <1>3 DEF RefreshRollup, TypeOK, Tables
  <2> QED BY <2>1 DEF SourceInv, Stored, At
<1>4. CASE \/ Start \/ Plan \/ Begin \/ FinishBatch \/ Commit \/ InsertRaises \/ Crash
           \/ Exits \/ UNCHANGED vars
  <2>1. UNCHANGED log /\ tx' \in {tx, db} /\ db' \in {tx, db}
    BY <1>4 DEF Start, Plan, Begin, FinishBatch, Commit, InsertRaises, Crash, Exits, Down,
                vars
  <2> QED BY <2>1 DEF SourceInv, Stored, At
<1> QED BY <1>1, <1>2, <1>3, <1>4 DEF Moves, Arrivals, Next, QueryStep, Publish

-----------------------------------------------------------------------------
(* All of the query's invariants together.                                 *)

QueryInv == TypeOK /\ RollupInv /\ OnceInv /\ KeptInv /\ SourceInv

LEMMA QueryInvInit == Init => QueryInv
BY TypeInit, RollupInit, OnceInit, KeptInit, SourceInit DEF QueryInv

LEMMA QueryInvStep == QueryInv /\ Moves => QueryInv'
<1> SUFFICES ASSUME QueryInv, Moves PROVE QueryInv'
  OBVIOUS
<1> QED BY TypeStep, RollupStep, OnceStep, KeptStep, SourceStep DEF QueryInv

LEMMA QueryPromises ==
    QueryInv => /\ TypeOK /\ RollupMatchesRecords /\ RejectionsStoredOnce
                /\ NoRejectionLost
BY DEF QueryInv, RollupInv, OnceInv, OnePerId, RejectionsStoredOnce, KeptInv
=============================================================================
