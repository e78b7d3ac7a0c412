---------------------------- MODULE MCEventsQuery ----------------------------
(***************************************************************************)
(* Small instances of EventsQuery for TLC.                                 *)
(***************************************************************************)
EXTENDS EventsIntake

Make(topic, id, key, ts) ==
    [topic |-> topic, id |-> id, key |-> key, msisdn |-> key, ts |-> ts,
     fault |-> "none", seeded |-> TRUE, storable |-> TRUE]

\* Subscriber A registers; its facts fall in several minutes, one of them (sms)
\* in no rollup; B never registers.
SubA      == Make("subscriber_created", "e1", "A", 0)
BuyA      == Make("airtime_purchase", "e2", "A", 59)
CallA     == Make("voice_call", "e3", "A", 60)
SmsA      == Make("sms", "e5", "A", 61)
CallB     == Make("voice_call", "e6", "B", 70)
TowerNew  == Make("tower_status", "e8", "T", 30)
TowerOld  == Make("tower_status", "e9", "T", 20)
SubA2     == [Make("subscriber_created", "e10", "A", 5) EXCEPT !.msisdn = "A2"]
\* Dated ahead of the first clock reading, and breaking a rule besides.
EarlyBad  == [Make("voice_call", "e12", "A", 100) EXCEPT !.fault = "rule"]

\* A row no fact table takes (its date is outside dim_date), a tower the
\* warehouse has no row for, two payloads under one event id.
LateDate  == [Make("airtime_purchase", "e13", "A", 15) EXCEPT !.storable = FALSE]
NoTower   == [Make("voice_call", "e14", "A", 40) EXCEPT !.seeded = FALSE]
TwinBuyA  == Make("airtime_purchase", "e2", "A", 130)

\* Facts over three minutes, before and after their subscriber.
CoreMsgs == {SubA, BuyA, CallA, TwinBuyA, CallB}
NoMsgs == {}

\* Dimensions and statuses: re-registration, out-of-order statuses; a rejection
\* whose stamp is within the clock skew.
SkewBad   == [Make("voice_call", "e15", "A", 20) EXCEPT !.fault = "rule"]
DimMsgs == {SubA, SubA2, TowerNew, TowerOld, SkewBad, SmsA}

\* Rows the database refuses, one for each way it can: a subscriber with a
\* name too long, one with the msisdn of A, a tower with no dimension row, a
\* fact dated outside dim_date; with a subscriber, a fact the join drops,
\* sent twice, and another under that one's event id.
LongName  == [Make("subscriber_created", "e16", "C", 3) EXCEPT !.storable = FALSE]
ClashA    == [Make("subscriber_created", "e17", "D", 4) EXCEPT !.msisdn = "A"]
NoDimRow  == [Make("tower_status", "e18", "U", 30) EXCEPT !.seeded = FALSE]
NoTwin    == Make("voice_call", "e14", "A", 45)
RefusedMsgs == {SubA, LongName, ClashA, NoDimRow, LateDate, NoTower, NoTwin}
ResentMsgs == {NoTower}

\* For the findings.
ClockMsgs == {SubA, EarlyBad}
LostMsgs == {BuyA, CallB}
=============================================================================
