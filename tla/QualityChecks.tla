---------------------------- MODULE QualityChecks ----------------------------
(***************************************************************************)
(* quality/run_checks.py beside the events query: load_tables reads the      *)
(* warehouse table by table while batches are committed, and the suites      *)
(* compare what it has read.  The suites on values are in module Quality;     *)
(* here are those on keys and references.                                  *)
(***************************************************************************)
EXTENDS EventsQuery

VARIABLES
    reads,      \* how many of the tables load_tables has read
    tables      \* the rows it has read of each

checks == <<reads, tables>>

\* The tables that change, in the order of the list in load_tables; dim_bundle and
\* dim_tower, which it reads as well, are seeded once.
LoadOrder == <<"dim_subscriber", "fact_recharges", "fact_bundle_sales", "fact_calls",
               "fact_data_usage", "tower_status_current">>
Loaded == {LoadOrder[i] : i \in DOMAIN LoadOrder}
FactsLoaded == Loaded \ {"dim_subscriber", "tower_status_current"}

TopicOf(table) ==
    CASE table = "fact_recharges" -> "airtime_purchase"
      [] table = "fact_bundle_sales" -> "bundle_purchase"
      [] table = "fact_calls" -> "voice_call"
      [] table = "fact_data_usage" -> "data_usage"

\* SELECT * FROM table.
Rows(table) ==
    CASE table = "dim_subscriber" -> db.subs
      [] table = "tower_status_current" -> db.towers
      [] table \in FactsLoaded -> {m \in Stored(db.facts) : m.topic = TopicOf(table)}

CInit == Init /\ reads = 0 /\ tables = [t \in Loaded |-> {}]

\* One pd.read_sql of load_tables.  All are in one transaction, but psycopg2's
\* default isolation is READ COMMITTED: each sees what is committed by then.
ReadTable ==
    /\ reads < Len(LoadOrder)
    /\ reads' = reads + 1
    /\ tables' = [tables EXCEPT ![LoadOrder[reads + 1]] = Rows(LoadOrder[reads + 1])]
    /\ UNCHANGED vars

\* run returns the results; some time later the checks are run again.
Report ==
    /\ reads = Len(LoadOrder)
    /\ reads' = 0
    /\ tables' = [t \in Loaded |-> {}]
    /\ UNCHANGED vars

CNext == (Next /\ UNCHANGED checks) \/ ReadTable \/ Report

CSpec == CInit /\ [][CNext]_<<vars, checks>>
-----------------------------------------------------------------------------
\* fact_common: event ids are unique within a table, and each subscriber_key is
\* in the value set of the keys read from dim_subscriber.
FactsExpected(table) ==
    /\ \A f, g \in tables[table] : f.id = g.id => f = g
    /\ \A f \in tables[table] : \E s \in tables["dim_subscriber"] : s.key = f.key

SubscribersExpected ==
    \A s, r \in tables["dim_subscriber"] : s.key = r.key \/ s.msisdn = r.msisdn => s = r

(* Properties.                                                             *)

\* What test_quality.py:1 says of the suites on the live warehouse: they must pass
\* on real pipeline output, of which every fact has its subscriber (KeysHold).
SuitesPass ==
    reads = Len(LoadOrder) =>
        SubscribersExpected /\ \A table \in FactsLoaded : FactsExpected(table)
=============================================================================
