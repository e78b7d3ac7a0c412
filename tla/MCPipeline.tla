----------------------------- MODULE MCPipeline -----------------------------
(***************************************************************************)
(* Small instances of Pipeline for TLC.                                    *)
(***************************************************************************)
EXTENDS Pipeline

Make(topic, id, key, ts) ==
    [topic |-> topic, id |-> id, key |-> key, msisdn |-> key, ts |-> ts,
     fault |-> "none", seeded |-> TRUE, storable |-> TRUE, fits |-> TRUE]

\* A subscriber; a call of theirs that is rejected when it is read before the
\* subscriber, and whose row no table takes when it is read after; a message with
\* an unexpected field of a long name, whose rejection dlq_records does not take; a
\* declined payment.
SubA     == Make("subscriber_created", "e1", "A", 0)
LateCall == [Make("voice_call", "e3", "A", 20) EXCEPT !.storable = FALSE]
Wide     == [Make("sms", "e5", "A", 21) EXCEPT !.fault = "schema", !.fits = FALSE]

FailingMsgs == {SubA, LateCall, Wide}

\* Rows every table takes: the subscriber and a call of theirs.
CallA == [LateCall EXCEPT !.storable = TRUE]
SoundMsgs == {SubA, CallA}
NoMsgs == {}

Declined == [id |-> <<[payment |-> "p1"], "PAYMENT_DECLINED">>, reason |-> "PAYMENT_DECLINED",
             ts |-> 59, wellFormed |-> TRUE, fits |-> TRUE]
OnePayment == {Declined}
=============================================================================
