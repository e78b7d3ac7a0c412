----------------------------- MODULE EventRules -----------------------------
(***************************************************************************)
(* What the stream accepts: the catalog, the field definitions of schemas.py *)
(* and the business rules of rules.py, as operators on decoded events.      *)
(*                                                                         *)
(* A decoded event is a function from field names to JSON values, a value a  *)
(* record of its JSON type and its content.  Amounts are in thousandths.  A  *)
(* string is down to what its readers tell apart.  A timestamp has the second *)
(* it denotes, from the moment the event is made, and a form: "iso", what    *)
(* only fromisoformat reads ("python": an ISO week date, or a year outside   *)
(* pandas's range), what only pandas reads ("pandas": a month), or "none".   *)
(* An msisdn has a prefix, a number, and digits that are "plain",            *)
(* "superscript" (isdigit holds, the regex \d does not), or followed by a     *)
(* "newline" (which the regex $ allows).  An event id is a "uuid" as str of  *)
(* one writes it, a "UUID" in another of PostgreSQL's spellings, or neither.  *)
(* What is not a JSON object is a function with no fields: both fail          *)
(* schema_violations.                                                       *)
(***************************************************************************)
EXTENDS Integers, Sequences, FiniteSets, TLC

CONSTANTS
    TOWERS,         \* the technologies of each tower in the catalog
    BUNDLE_PRICES,  \* the price of each bundle code, in thousandths
    SEEDED_TOWERS,  \* the towers of the catalog the database was created with
    SEEDED_BUNDLES, \* and its bundle codes
    INT_MAX,        \* 2^31 - 1, or a number that stands for it: TLC counts no further
    BIGINT_MAX      \* 2^63 - 1, likewise

PROVINCES == {"Gauteng", "Western Cape"}            \* two of the nine
PLANS == {"Prepaid", "Contract", "TopUp"}
PAYMENT_METHODS == {"Voucher", "Card", "EFT", "USSD"}
TECHNOLOGIES == {"3G", "LTE", "5G"}
TOWER_STATUSES == {"HEALTHY", "DEGRADED", "DOWN"}
TOWER_IDS == DOMAIN TOWERS

\* The catalog is not empty, its prices are in cents, and its names fit the columns.
ASSUME CatalogAssumption ==
    /\ TOWER_IDS # {}
    /\ \A t \in TOWER_IDS : TOWERS[t] \subseteq TECHNOLOGIES /\ TOWERS[t] # {}
    /\ DOMAIN BUNDLE_PRICES # {}
    /\ \A b \in DOMAIN BUNDLE_PRICES : BUNDLE_PRICES[b] \in Nat \ {0} /\ BUNDLE_PRICES[b] % 10 = 0
    /\ "TooLong" \notin TOWER_IDS \cup DOMAIN BUNDLE_PRICES

(* JSON values. *)
Value(type, val) == [type |-> type, val |-> val]
Str(s) == Value("str", s)
Number(n) == Value("int", n)
Decimal(n) == Value("float", n)     \* n thousandths
Bool(b) == Value("bool", IF b THEN 1 ELSE 0)     \* True counts as 1 in Python
Instant(form, t) == Str([form |-> form, at |-> t])
Time(t) == Instant("iso", t)
Msisdn(prefix, number) == Str([prefix |-> prefix, number |-> number, digits |-> "plain"])
MsisdnIn(digits) == Str([prefix |-> "27", number |-> 0, digits |-> digits])

\* float(value), in thousandths: json.loads reads 199 as an int.
Float(v) == IF v.type = "int" THEN 1000 * v.val ELSE v.val

\* A number of 32 and of 64 bits.
Int32(v) == -(INT_MAX + 1) <= v.val /\ v.val <= INT_MAX
Int64(v) == -(BIGINT_MAX + 1) <= v.val /\ v.val <= BIGINT_MAX

-----------------------------------------------------------------------------
(* schemas.py *)

ENVELOPE_FIELDS == [event_id |-> "str", event_type |-> "str", timestamp |-> "str",
                    schema_version |-> "int"]

EVENT_FIELDS ==
    [subscriber_created |-> [subscriber_id |-> "int", msisdn |-> "str",
                             plan |-> "str", province |-> "str"],
     airtime_purchase |-> [subscriber_id |-> "int", amount |-> "float",
                           payment_method |-> "str"],
     bundle_purchase |-> [subscriber_id |-> "int", bundle_code |-> "str",
                          price |-> "float"],
     voice_call |-> [caller_id |-> "int", receiver_msisdn |-> "str",
                     duration_seconds |-> "int", tower_id |-> "str",
                     dropped |-> "bool"],
     sms |-> [sender_id |-> "int", receiver_msisdn |-> "str", length |-> "int"],
     data_usage |-> [subscriber_id |-> "int", mb_used |-> "float",
                     session_seconds |-> "int", tower_id |-> "str",
                     technology |-> "str"],
     tower_status |-> [tower_id |-> "str", technology |-> "str",
                       signal_strength |-> "int", connected_devices |-> "int",
                       status |-> "str"],
     dlq_record |-> [source_topic |-> "str", rejection_reason |-> "str",
                     original_payload |-> "str"]]

EventTypes == DOMAIN EVENT_FIELDS \ {"dlq_record"}

\* The fields of f, and those of g that f does not have.
Merged(f, g) == [x \in DOMAIN f \cup DOMAIN g |-> IF x \in DOMAIN f THEN f[x] ELSE g[x]]
Fields(type) == Merged(EVENT_FIELDS[type], ENVELOPE_FIELDS)

\* Strict, but for an int where a float is expected.
HasType(v, type) == v.type = type \/ (type = "float" /\ v.type = "int")

\* schema_violations: no field missing, none unexpected, each of its type.
Conforms(type, e) ==
    LET fields == Fields(type)
    IN  DOMAIN e = DOMAIN fields /\ \A f \in DOMAIN e : HasType(e[f], fields[f])

-----------------------------------------------------------------------------
(* rules.py *)

MAX_CALL_SECONDS == 6 * 60 * 60
MAX_SESSION_MB == 10240000      \* 10240.0
MAX_RECHARGE == 1000000         \* 1000.0
MAX_SMS_LENGTH == 1600
CLOCK_SKEW == 30

\* The rules' limits are within the columns' ranges.
ASSUME RangeAssumption ==
    /\ INT_MAX \in Nat /\ BIGINT_MAX \in Nat
    /\ MAX_CALL_SECONDS <= INT_MAX /\ MAX_SMS_LENGTH <= INT_MAX /\ INT_MAX < BIGINT_MAX

\* datetime.fromisoformat
PythonReads(v) == v.val.form \in {"iso", "python"}

\* Variants are faulty versions of the definition that follows: any time that parses.
InstantOKAny(v, now) == PythonReads(v)

InstantOK(v, now) == PythonReads(v) /\ v.val.at <= now + CLOCK_SKEW

\* Variant: eleven digits, whatever the first two.
MsisdnOKLocal(v) == v.val.prefix \in {"27", "0"} /\ v.val.digits \in {"plain", "superscript"}
MsisdnOK(v) == v.val.prefix = "27" /\ v.val.digits \in {"plain", "superscript"}

\* Variant: > in place of >=.
NotNegativeStrict(v) == v.val > 0
NotNegative(v) == v.val >= 0

\* Variant: a tower is known if it is named at all.
KnownTowerAny(v) == v.val # ""
KnownTower(v) == v.val \in TOWER_IDS

\* The rules of an event type after the first, common one: for each whether an
\* event of the right structure satisfies it.
DomainRules(type, e) ==
    CASE type = "subscriber_created" ->
           [msisdn_format |-> MsisdnOK(e.msisdn),
            plan_known |-> e.plan.val \in PLANS,
            province_known |-> e.province.val \in PROVINCES]
      [] type = "airtime_purchase" ->
           [amount_positive |-> Float(e.amount) > 0,
            amount_within_limit |-> Float(e.amount) <= MAX_RECHARGE,
            payment_method_known |-> e.payment_method.val \in PAYMENT_METHODS]
      [] type = "bundle_purchase" ->
           [bundle_exists |-> e.bundle_code.val \in DOMAIN BUNDLE_PRICES,
            price_matches_catalog |->
                /\ e.bundle_code.val \in DOMAIN BUNDLE_PRICES
                /\ Float(e.price) = BUNDLE_PRICES[e.bundle_code.val]]
      [] type = "voice_call" ->
           [duration_not_negative |-> NotNegative(e.duration_seconds),
            duration_within_limit |-> e.duration_seconds.val <= MAX_CALL_SECONDS,
            tower_exists |-> KnownTower(e.tower_id),
            receiver_msisdn_format |-> MsisdnOK(e.receiver_msisdn)]
      [] type = "sms" ->
           [length_positive |-> e.length.val >= 1,
            length_within_limit |-> e.length.val <= MAX_SMS_LENGTH,
            receiver_msisdn_format |-> MsisdnOK(e.receiver_msisdn)]
      [] type = "data_usage" ->
           [volume_positive |-> Float(e.mb_used) > 0,
            volume_within_limit |-> Float(e.mb_used) <= MAX_SESSION_MB,
            session_positive |-> e.session_seconds.val > 0,
            tower_exists |-> KnownTower(e.tower_id),
            technology_known |-> e.technology.val \in TECHNOLOGIES]
      [] type = "tower_status" ->
           [signal_in_range |-> e.signal_strength.val \in 0..100,
            devices_not_negative |-> NotNegative(e.connected_devices),
            tower_exists |-> KnownTower(e.tower_id),
            status_known |-> e.status.val \in TOWER_STATUSES]

\* apply_rules: the names of the rules an event violates at a clock reading.
Violations(type, e, now) ==
    LET rules == DomainRules(type, e)
    IN  {r \in DOMAIN rules : ~rules[r]}
            \cup {r \in {"timestamp_not_in_future"} : ~InstantOK(e.timestamp, now)}

\* _validate lets the event through.
Accepted(type, e, now) == Conforms(type, e) /\ Violations(type, e, now) = {}

\* The field naming an event's subscriber, where it has one.
SUBSCRIBER_FIELD ==
    [airtime_purchase |-> "subscriber_id", bundle_purchase |-> "subscriber_id",
     voice_call |-> "caller_id", sms |-> "sender_id", data_usage |-> "subscriber_id"]

-----------------------------------------------------------------------------
(* What the lake and the tables of schema.sql take, beyond the keys and joins *)
(* of the sinks.                                                            *)

\* createDataFrame: every int is a LongType.
FitsLake(type, e) ==
    LET fields == Fields(type)
    IN  \A f \in DOMAIN e : fields[f] = "int" => Int64(e[f])

\* The days of dim_date, 2026-01-01 to 2027-12-31, in seconds from the first.
DimDates == [first |-> 0, last |-> 730 * 24 * 60 * 60 - 1]

IntColumns ==
    {"duration_seconds", "length", "session_seconds", "signal_strength", "connected_devices"}
MsisdnColumns == {"msisdn", "receiver_msisdn"}      \* varchar(11)

UuidCasts(v) == v.val \in {"uuid", "UUID"}
Varchar11Fits(v) == v.val.digits # "newline"
VarcharFits(v) == v.val # "TooLong"     \* any text its column refuses

\* The row of an event made at a moment refers to a day of dim_date ...
Dated(e, made) == made + e.timestamp.val.at \in DimDates.first..DimDates.last

\* ... and to a tower and a bundle the database was created with.
Seeded(e) ==
    /\ "tower_id" \in DOMAIN e => e.tower_id.val \in SEEDED_TOWERS
    /\ "bundle_code" \in DOMAIN e => e.bundle_code.val \in SEEDED_BUNDLES

\* Every column takes the event's value, and the rows it refers to are there: what
\* EventsQuery calls storable and seeded.  Rules and catalog keep the amounts far
\* below the numeric columns' limits.
FitsTable(type, e, made) ==
    /\ type \in DOMAIN SUBSCRIBER_FIELD => UuidCasts(e.event_id) /\ Dated(e, made)
    /\ type = "subscriber_created" => Int64(e.subscriber_id)
    /\ \A f \in DOMAIN e \cap IntColumns : Int32(e[f])
    /\ \A f \in DOMAIN e \cap MsisdnColumns : Varchar11Fits(e[f])
    /\ \A f \in DOMAIN EVENT_FIELDS[type] \ MsisdnColumns :
          EVENT_FIELDS[type][f] = "str" => VarcharFits(e[f])
    /\ Seeded(e)
=============================================================================
