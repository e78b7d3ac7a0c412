---------------------------- MODULE MinuteWindow ----------------------------
(***************************************************************************)
(* The minute arithmetic and the range refresh that both queries of the    *)
(* streaming job use to keep the minute rollups (agg_*_minute) in step      *)
(* with the rows they aggregate: sinks._minute_params and the two refresh   *)
(* statements.                                                             *)
(*                                                                         *)
(* Time is a natural number of seconds.  A table is a function from the     *)
(* records that may be in it, each with a field ts, to the number of its    *)
(* rows holding that record.  A rollup maps a minute, named by its first    *)
(* second, to such a function: how often each record is counted in that     *)
(* minute.  The sums and counts of the aggregate rows follow from it.       *)
(***************************************************************************)
EXTENDS Integers, FiniteSetsExt

\* datetime.replace(second=0, microsecond=0), and date_trunc('minute', _).
MinuteOf(t) == t - (t % 60)

\* The bounds the refresh is run with, from the stamps of the batch.
Window(stamps) ==
    [lo     |-> MinuteOf(Min(stamps)),
     hi     |-> MinuteOf(Max(stamps)),
     hiNext |-> MinuteOf(Max(stamps)) + 60]

\* Faulty variants, bugs the code could have had: an upsert that adds to the
\* old sums in place of the delete, and a window that ends with its last minute.
RefreshedByAdding(rollup, table, stamps) ==
    LET w == Window(stamps)
        added(mi, r) == IF w.lo <= r.ts /\ r.ts < w.hiNext /\ MinuteOf(r.ts) = mi
                          THEN table[r] ELSE 0
    IN  [mi \in DOMAIN rollup |->
            [r \in DOMAIN table |-> rollup[mi][r] + added(mi, r)]]
RefreshedShort(rollup, table, stamps) ==
    LET w == Window(stamps)
        kept(mi, r)  == IF w.lo <= mi /\ mi <= w.hi THEN 0 ELSE rollup[mi][r]
        added(mi, r) == IF w.lo <= r.ts /\ r.ts <= w.hi /\ MinuteOf(r.ts) = mi
                          THEN table[r] ELSE 0
    IN  [mi \in DOMAIN rollup |->
            [r \in DOMAIN table |-> kept(mi, r) + added(mi, r)]]

\* DELETE ... WHERE minute BETWEEN lo AND hi, then INSERT ... SELECT from the
\* rows with lo <= ts < hiNext, grouped by their minute.
Refreshed(rollup, table, stamps) ==
    LET w == Window(stamps)
        kept(mi, r)  == IF w.lo <= mi /\ mi <= w.hi THEN 0 ELSE rollup[mi][r]
        added(mi, r) == IF w.lo <= r.ts /\ r.ts < w.hiNext /\ MinuteOf(r.ts) = mi
                          THEN table[r] ELSE 0
    IN  [mi \in DOMAIN rollup |->
            [r \in DOMAIN table |-> kept(mi, r) + added(mi, r)]]

\* What a rollup of a table is meant to be: every row counted in its minute.
Tally(table, minutes) ==
    [mi \in minutes |->
        [r \in DOMAIN table |-> IF MinuteOf(r.ts) = mi THEN table[r] ELSE 0]]
=============================================================================
