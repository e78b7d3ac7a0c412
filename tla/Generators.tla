----------------------------- MODULE Generators -----------------------------
(***************************************************************************)
(* The event generators of the producer: for each event type the events      *)
(* generate may return, and those corrupt may make of one of them.          *)
(*                                                                         *)
(* Calls and sessions take their limits from the contracts.  Where a generator *)
(* draws a number from a range, the ends of the range stand for it.          *)
(***************************************************************************)
EXTENDS Contracts

\* random.choice from a list whose members every rule treats alike: one of them.
Choice(S) == {CHOOSE x \in S : TRUE}

AIRTIME_DENOMINATIONS == {5000, 500000}     \* the least and the greatest of nine
UnknownSubscriber == 999999999
Future == 2 * 60 * 60                       \* future_timestamp

\* The bundle and the towers corrupt makes up are not in the catalog.
ASSUME UnknownAssumption ==
    /\ "DATA_999GB" \notin DOMAIN BUNDLE_PRICES
    /\ {"ATL-XXX-999", "XYZ-000-000", "GHOST-001"} \cap TOWER_IDS = {}

NewEnvelope(type) ==
    [event_id |-> Str("uuid"), event_type |-> Str(type), timestamp |-> Time(0),
     schema_version |-> Number(1)]

\* The event with that envelope and the fields of body.
Event(type, body) == Merged(NewEnvelope(type), body)

\* A subscriber [id, msisdn] as its registration announces it.
Announcement(s) ==
    {Event("subscriber_created",
           [subscriber_id |-> Number(s.id), msisdn |-> Msisdn("27", s.msisdn),
            plan |-> Str(p), province |-> Str(v)]) : p \in Choice(PLANS), v \in Choice(PROVINCES)}

\* The status a tower reports at a signal strength.
StatusAt(signal) == CASE signal < 45 -> "DOWN"
                      [] signal \in 45..59 -> "DEGRADED"
                      [] signal >= 60 -> "HEALTHY"

Volumes == {0, 10, CONTRACT_SESSION_MB}          \* round(min(expovariate, MAX), 2)
Technologies == Choice(UNION {TOWERS[t] : t \in Choice(TOWER_IDS)})     \* of the tower drawn

(* generate, of the types other than subscriber_created, about the subscriber s  *)
(* and, where there is a receiver, r.                                          *)

AirtimePurchases(s) ==
    {[subscriber_id |-> Number(s.id), amount |-> Decimal(a), payment_method |-> Str(p)] :
        a \in AIRTIME_DENOMINATIONS, p \in Choice(PAYMENT_METHODS)}

BundlePurchases(s) ==
    {[subscriber_id |-> Number(s.id), bundle_code |-> Str(b),
      price |-> Decimal(BUNDLE_PRICES[b])] : b \in Choice(DOMAIN BUNDLE_PRICES)}

VoiceCalls(s, r) ==
    {[caller_id |-> Number(s.id), receiver_msisdn |-> Msisdn("27", r.msisdn),
      duration_seconds |-> Number(d), tower_id |-> Str(t), dropped |-> Bool(d = 0)] :
        d \in {0, CONTRACT_CALL_SECONDS}, t \in Choice(TOWER_IDS)}

SmsMessages(s, r) ==
    {[sender_id |-> Number(s.id), receiver_msisdn |-> Msisdn("27", r.msisdn),
      length |-> Number(n)] : n \in {1, 320}}

DataSessions(s) ==
    {[subscriber_id |-> Number(s.id), mb_used |-> Decimal(mb), session_seconds |-> Number(10),
      tower_id |-> Str(t), technology |-> Str(g)] :
        mb \in Volumes, t \in Choice(TOWER_IDS), g \in Technologies}

TowerStatuses ==
    {[tower_id |-> Str(t), technology |-> Str(g), signal_strength |-> Number(n),
      connected_devices |-> Number(50), status |-> Str(StatusAt(n))] :
        n \in {35, 45, 60, 100}, t \in Choice(TOWER_IDS), g \in Technologies}

Generated(type, s, r) ==
    {Event(type, body) : body \in
       CASE type = "airtime_purchase" -> AirtimePurchases(s)
         [] type = "bundle_purchase" -> BundlePurchases(s)
         [] type = "voice_call" -> VoiceCalls(s, r)
         [] type = "sms" -> SmsMessages(s, r)
         [] type = "data_usage" -> DataSessions(s)
         [] type = "tower_status" -> TowerStatuses}

(* corrupt, applied to an event generate has returned.                         *)

CorruptSubscriber(e) ==
    {[e EXCEPT !.msisdn = Msisdn("0", @.val.number)],
     [e EXCEPT !.plan = Str("Unlimited")], [e EXCEPT !.timestamp = Time(Future)]}

CorruptAirtime(e) ==
    {[e EXCEPT !.amount = Decimal(-(@.val))],
     [e EXCEPT !.subscriber_id = Number(UnknownSubscriber)],
     [e EXCEPT !.timestamp = Time(Future)]}

CorruptBundle(e) ==
    {[e EXCEPT !.bundle_code = Str("DATA_999GB")],
     [e EXCEPT !.price = Decimal(BUNDLE_PRICES[e.bundle_code.val] + 50000)],
     [e EXCEPT !.subscriber_id = Number(UnknownSubscriber)]}

CorruptCall(e) ==
    {[e EXCEPT !.duration_seconds = Number(CONTRACT_CALL_SECONDS + 3600)],
     [e EXCEPT !.tower_id = Str("ATL-XXX-999")],
     [e EXCEPT !.duration_seconds = Number(-30)]}

CorruptSms(e) ==
    {[e EXCEPT !.length = Number(0)], [e EXCEPT !.length = Number(5000)],
     [e EXCEPT !.sender_id = Number(UnknownSubscriber)]}

CorruptSession(e) ==
    {[e EXCEPT !.mb_used = Decimal(10 * CONTRACT_SESSION_MB)],
     [e EXCEPT !.tower_id = Str("XYZ-000-000")],
     [e EXCEPT !.session_seconds = Number(0)]}

CorruptStatus(e) ==
    {[e EXCEPT !.signal_strength = Number(250)], [e EXCEPT !.tower_id = Str("GHOST-001")],
     [e EXCEPT !.status = Str("ON_FIRE")]}

Corrupted(type, e) ==
    CASE type = "subscriber_created" -> CorruptSubscriber(e)
      [] type = "airtime_purchase" -> CorruptAirtime(e)
      [] type = "bundle_purchase" -> CorruptBundle(e)
      [] type = "voice_call" -> CorruptCall(e)
      [] type = "sms" -> CorruptSms(e)
      [] type = "data_usage" -> CorruptSession(e)
      [] type = "tower_status" -> CorruptStatus(e)

\* payment_failure_event, around a declined purchase.
PaymentFailure ==
    Event("dlq_record",
          [source_topic |-> Str("airtime-purchases"),
           rejection_reason |-> Str("PAYMENT_DECLINED"), original_payload |-> Str("purchase")])
=============================================================================
