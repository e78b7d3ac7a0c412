----------------------------- MODULE MCDlqQuery -----------------------------
(***************************************************************************)
(* Small instances of DlqQuery for TLC.                                    *)
(***************************************************************************)
EXTENDS DlqQuery

Make(id, reason, ts) ==
    [id |-> id, reason |-> reason, ts |-> ts, wellFormed |-> TRUE, fits |-> TRUE]

\* Two copies of one rejection in different minutes, a declined payment, a
\* message that is no DLQ record.
First    == Make("e1", "RULE_VIOLATION", 30)
Again    == Make("e1", "RULE_VIOLATION", 100)
Declined == Make("e3", "PAYMENT_DECLINED", 200)
Junk     == [Make("e4", "PAYMENT_DECLINED", 60) EXCEPT !.wellFormed = FALSE]

\* Records the table refuses: the payload of a parse error, a reason too wide.
Parse    == Make("e5", "PARSE_ERROR", 61)
Wide     == [Make("e6", "SCHEMA_VIOLATION", 130) EXCEPT !.fits = FALSE]

DlqRecords == {First, Again, Declined, Junk, Parse}
PoisonRecords == {First, Wide, Parse}
=============================================================================
