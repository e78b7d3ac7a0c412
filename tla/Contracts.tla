----------------------------- MODULE Contracts -----------------------------
(***************************************************************************)
(* The pandera contracts of producer/contracts.py for the seven domain       *)
(* events: the second reading of docs/event-schemas.md, which unit tests     *)
(* hold the generators to.  EventRules has the first, which the stream uses.  *)
(* The two have the catalog in common and nothing else: each has its own     *)
(* table of fields, limits, form of an msisdn and way to read a time.        *)
(*                                                                         *)
(* A column has a type, taken strictly, and a check on its values; a frame    *)
(* with a column missing or one too many fails (strict=True).                *)
(***************************************************************************)
EXTENDS EventRules

CONTRACT_CALL_SECONDS == 6 * 60 * 60
CONTRACT_SESSION_MB == 10240000
CONTRACT_RECHARGE == 1000000
CONTRACT_SMS_LENGTH == 1600
CLOCK_SKEW_SECONDS == 30

\* The columns of _envelope and of SCHEMAS.
EnvelopeColumns == [event_id |-> "str", event_type |-> "str", timestamp |-> "str",
                    schema_version |-> "int"]

BodyColumns(type) ==
    CASE type = "subscriber_created" ->
           [subscriber_id |-> "int", msisdn |-> "str", plan |-> "str", province |-> "str"]
      [] type = "airtime_purchase" ->
           [subscriber_id |-> "int", amount |-> "float", payment_method |-> "str"]
      [] type = "bundle_purchase" ->
           [subscriber_id |-> "int", bundle_code |-> "str", price |-> "float"]
      [] type = "voice_call" ->
           [caller_id |-> "int", receiver_msisdn |-> "str", duration_seconds |-> "int",
            tower_id |-> "str", dropped |-> "bool"]
      [] type = "sms" ->
           [sender_id |-> "int", receiver_msisdn |-> "str", length |-> "int"]
      [] type = "data_usage" ->
           [subscriber_id |-> "int", mb_used |-> "float", session_seconds |-> "int",
            tower_id |-> "str", technology |-> "str"]
      [] type = "tower_status" ->
           [tower_id |-> "str", technology |-> "str", signal_strength |-> "int",
            connected_devices |-> "int", status |-> "str"]

FrameColumns(type) == Merged(BodyColumns(type), EnvelopeColumns)

\* A frame of one event has the column's dtype: an int is an int64, and an int where
\* a float is expected makes the column one of ints.
HasDtype(v, type) == v.type = type /\ (type = "int" => Int64(v))

UuidOK(v) == v.val = "uuid"
MatchesMsisdn(v) == v.val.prefix = "27" /\ v.val.digits \in {"plain", "newline"}
Positive(v) == v.val > 0

\* Variant: Check.lt in place of Check.le.
WithinStrict(v, lo, hi) == lo <= v.val /\ v.val < hi
Within(v, lo, hi) == lo <= v.val /\ v.val <= hi

\* _timestamps_valid: what pandas cannot read is NaT.
TimestampValid(v, now) ==
    v.val.form \in {"iso", "pandas"} /\ v.val.at <= now + CLOCK_SKEW_SECONDS

Envelope(type, e, now) ==
    /\ UuidOK(e.event_id)
    /\ e.event_type.val = type
    /\ TimestampValid(e.timestamp, now)
    /\ e.schema_version.val >= 1

Columns(type, e) ==
    CASE type = "subscriber_created" ->
           /\ Positive(e.subscriber_id) /\ MatchesMsisdn(e.msisdn)
           /\ e.plan.val \in PLANS /\ e.province.val \in PROVINCES
      [] type = "airtime_purchase" ->
           /\ Positive(e.subscriber_id) /\ Within(e.amount, 1, CONTRACT_RECHARGE)
           /\ e.payment_method.val \in PAYMENT_METHODS
      [] type = "bundle_purchase" ->
           /\ Positive(e.subscriber_id) /\ Positive(e.price)
           /\ e.bundle_code.val \in DOMAIN BUNDLE_PRICES
      [] type = "voice_call" ->
           /\ Positive(e.caller_id) /\ MatchesMsisdn(e.receiver_msisdn)
           /\ Within(e.duration_seconds, 0, CONTRACT_CALL_SECONDS)
           /\ e.tower_id.val \in TOWER_IDS
      [] type = "sms" ->
           /\ Positive(e.sender_id) /\ MatchesMsisdn(e.receiver_msisdn)
           /\ Within(e.length, 1, CONTRACT_SMS_LENGTH)
      [] type = "data_usage" ->
           /\ Positive(e.subscriber_id) /\ Within(e.mb_used, 1, CONTRACT_SESSION_MB)
           /\ Positive(e.session_seconds)
           /\ e.tower_id.val \in TOWER_IDS /\ e.technology.val \in TECHNOLOGIES
      [] type = "tower_status" ->
           /\ e.tower_id.val \in TOWER_IDS /\ e.technology.val \in TECHNOLOGIES
           /\ Within(e.signal_strength, 0, 100) /\ e.connected_devices.val >= 0
           /\ e.status.val \in TOWER_STATUSES

\* validate, of one event.
MeetsContract(type, e, now) ==
    /\ LET columns == FrameColumns(type)
       IN  DOMAIN e = DOMAIN columns /\ \A f \in DOMAIN e : HasDtype(e[f], columns[f])
    /\ Envelope(type, e, now) /\ Columns(type, e)
=============================================================================
