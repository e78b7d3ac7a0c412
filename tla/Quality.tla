------------------------------ MODULE Quality ------------------------------
(***************************************************************************)
(* The at-rest suites of quality/suites.py: what Great Expectations requires  *)
(* of the values in the tables, once the warehouse has rounded them.  Its     *)
(* expectations on keys, duplicates and references are those of the schema's   *)
(* own constraints, and KeysHold of EventsQuery states them.                 *)
(***************************************************************************)
EXTENDS EventRules

\* numeric(10,2) and numeric(12,2) keep hundredths and round half up; the suites
\* read the result.
Rounded(v) == (Float(v) + 5) \div 10
Hundredths(n) == n \div 10

(* The suites' own limits and regex.                                        *)
SUITE_CALL_SECONDS == 6 * 60 * 60
SUITE_SESSION_MB == 10240000
SUITE_RECHARGE == 1000000
MatchesRegex(v) == v.val.prefix = "27" /\ v.val.digits \in {"plain", "newline"}

CEILING == 60       \* _ts_ceiling, in seconds

\* The suites have no entry for fact_sms, and look at times in the facts only.
TimeExpected(type, e, now) ==
    type \in DOMAIN SUBSCRIBER_FIELD \ {"sms"} => e.timestamp.val.at <= now + CEILING

\* The expectations on the row written from an event of a type.
Expected(type, e, now) ==
    /\ TimeExpected(type, e, now)
    /\ CASE type = "subscriber_created" ->
              MatchesRegex(e.msisdn) /\ e.plan.val \in PLANS /\ e.province.val \in PROVINCES
         [] type = "airtime_purchase" -> Rounded(e.amount) \in 1..Hundredths(SUITE_RECHARGE)
         [] type = "bundle_purchase" -> Rounded(e.price) > 0
         [] type = "voice_call" -> e.duration_seconds.val \in 0..SUITE_CALL_SECONDS
         [] type = "sms" -> TRUE
         [] type = "data_usage" ->
              /\ Rounded(e.mb_used) \in 1..Hundredths(SUITE_SESSION_MB)
              /\ e.technology.val \in TECHNOLOGIES
         [] type = "tower_status" ->
              e.signal_strength.val \in 0..100 /\ e.status.val \in TOWER_STATUSES
=============================================================================
