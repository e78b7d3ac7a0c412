--------------------------- MODULE MCQualityChecks ---------------------------
(***************************************************************************)
(* A small instance of QualityChecks for TLC: a subscriber and a recharge of   *)
(* theirs.                                                                 *)
(***************************************************************************)
EXTENDS QualityChecks

Make(topic, id, ts) ==
    [topic |-> topic, id |-> id, key |-> "A", msisdn |-> "A", ts |-> ts,
     fault |-> "none", seeded |-> TRUE, storable |-> TRUE]

SoundMsgs == {Make("subscriber_created", "e1", 0), Make("airtime_purchase", "e2", 59)}
NoMsgs == {}
=============================================================================
