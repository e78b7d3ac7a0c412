--------------------------- MODULE Producer_proofs ---------------------------
(***************************************************************************)
(* Theorems about Producer, for every value of its constants: what one run *)
(* announces, whom its events name, what becomes of the events it hands to *)
(* the client, and how the events generate and corrupt make stand with the *)
(* stream's rules, the producer's contracts, the warehouse's tables and    *)
(* the quality suites.                                                     *)
(***************************************************************************)
EXTENDS Producer, SequenceTheorems, TLAPS

-----------------------------------------------------------------------------
(* Whom an event names, generated or spoilt.                               *)

EnvelopeFields == {"event_id", "event_type", "timestamp", "schema_version"}
Namers == {"subscriber_id", "caller_id", "sender_id"}

\* An event has the fields of its envelope and those of its body.
LEMMA EventShape ==
    ASSUME NEW type, NEW body
    PROVE  /\ DOMAIN Event(type, body) = EnvelopeFields \cup DOMAIN body
           /\ \A f \in DOMAIN body \ EnvelopeFields : Event(type, body)[f] = body[f]
BY DEF Event, Merged, NewEnvelope, EnvelopeFields

\* The envelope names no one.
LEMMA EventNames ==
    ASSUME NEW type, NEW body
    PROVE  /\ DOMAIN Event(type, body) \cap Namers = DOMAIN body \cap Namers
           /\ \A f \in DOMAIN body \cap Namers : Event(type, body)[f] = body[f]
<1>1. Namers \cap EnvelopeFields = {}
  BY DEF Namers, EnvelopeFields
<1> QED BY <1>1, EventShape

\* Whom an event names, by the one field that names someone.
LEMMA NamedBy ==
    ASSUME NEW e
    PROVE  /\ DOMAIN e \cap Namers = {"subscriber_id"} => Named(e) = e.subscriber_id.val
           /\ DOMAIN e \cap Namers = {"caller_id"} => Named(e) = e.caller_id.val
           /\ DOMAIN e \cap Namers = {"sender_id"} => Named(e) = e.sender_id.val
           /\ DOMAIN e \cap Namers = {} => Named(e) = NoOne
<1>1. CASE DOMAIN e \cap Namers = {"subscriber_id"}
  <2>1. "subscriber_id" \in DOMAIN e /\ "caller_id" \notin DOMAIN e /\ "sender_id" \notin DOMAIN e
    BY <1>1 DEF Namers
  <2> QED BY <1>1, <2>1 DEF Named
<1>2. CASE DOMAIN e \cap Namers = {"caller_id"}
  <2>1. "subscriber_id" \notin DOMAIN e /\ "caller_id" \in DOMAIN e /\ "sender_id" \notin DOMAIN e
    BY <1>2 DEF Namers
  <2> QED BY <1>2, <2>1 DEF Named
<1>3. CASE DOMAIN e \cap Namers = {"sender_id"}
  <2>1. "subscriber_id" \notin DOMAIN e /\ "caller_id" \notin DOMAIN e /\ "sender_id" \in DOMAIN e
    BY <1>3 DEF Namers
  <2> QED BY <1>3, <2>1 DEF Named
<1>4. CASE DOMAIN e \cap Namers = {}
  <2>1. "subscriber_id" \notin DOMAIN e /\ "caller_id" \notin DOMAIN e /\ "sender_id" \notin DOMAIN e
    BY <1>4 DEF Namers
  <2> QED BY <1>4, <2>1 DEF Named
<1> QED BY <1>1, <1>2, <1>3, <1>4

\* An airtime purchase names its subscriber, or the unknown one.
LEMMA AirtimeNames ==
    ASSUME NEW s, NEW body \in AirtimePurchases(s), NEW e,
           e = Event("airtime_purchase", body), NEW c \in {e} \cup CorruptAirtime(e)
    PROVE  Named(c) \in {s.id, UnknownSubscriber}
<1>1. DOMAIN body \cap Namers = {"subscriber_id"} /\ body.subscriber_id = Number(s.id)
  <2>1. PICK x, y : body =
        [subscriber_id |-> Number(s.id), amount |-> Decimal(x), payment_method |-> Str(y)]
    BY DEF AirtimePurchases
  <2> QED BY <2>1 DEF Namers
<1>2. DOMAIN e \cap Namers = {"subscriber_id"} /\ e.subscriber_id = Number(s.id)
  BY <1>1, EventNames
<1>3. DOMAIN c = DOMAIN e /\ c.subscriber_id \in {Number(s.id), Number(UnknownSubscriber)}
  BY <1>2 DEF CorruptAirtime
<1> QED BY <1>2, <1>3, NamedBy DEF Number, Value

\* So does a bundle purchase.
LEMMA BundleNames ==
    ASSUME NEW s, NEW body \in BundlePurchases(s), NEW e,
           e = Event("bundle_purchase", body), NEW c \in {e} \cup CorruptBundle(e)
    PROVE  Named(c) \in {s.id, UnknownSubscriber}
<1>1. DOMAIN body \cap Namers = {"subscriber_id"} /\ body.subscriber_id = Number(s.id)
  <2>1. PICK x : body = [subscriber_id |-> Number(s.id), bundle_code |-> Str(x),
                               price |-> Decimal(BUNDLE_PRICES[x])]
    BY DEF BundlePurchases
  <2> QED BY <2>1 DEF Namers
<1>2. DOMAIN e \cap Namers = {"subscriber_id"} /\ e.subscriber_id = Number(s.id)
  BY <1>1, EventNames
<1>3. DOMAIN c = DOMAIN e /\ c.subscriber_id \in {Number(s.id), Number(UnknownSubscriber)}
  BY <1>2 DEF CorruptBundle
<1> QED BY <1>2, <1>3, NamedBy DEF Number, Value

\* A voice call names its caller, spoilt or not.
LEMMA CallNames ==
    ASSUME NEW s, NEW r, NEW body \in VoiceCalls(s, r), NEW e,
           e = Event("voice_call", body), NEW c \in {e} \cup CorruptCall(e)
    PROVE  Named(c) = s.id
<1>1. DOMAIN body \cap Namers = {"caller_id"} /\ body.caller_id = Number(s.id)
  <2>1. PICK x, y : body = [caller_id |-> Number(s.id), receiver_msisdn |-> Msisdn("27", r.msisdn),
                               duration_seconds |-> Number(x), tower_id |-> Str(y), dropped |-> Bool(x = 0)]
    BY DEF VoiceCalls
  <2> QED BY <2>1 DEF Namers
<1>2. DOMAIN e \cap Namers = {"caller_id"} /\ e.caller_id = Number(s.id)
  BY <1>1, EventNames
<1>3. DOMAIN c = DOMAIN e /\ c.caller_id = Number(s.id)
  BY <1>2 DEF CorruptCall
<1> QED BY <1>2, <1>3, NamedBy DEF Number, Value

\* An sms names its sender, or the unknown one.
LEMMA SmsNames ==
    ASSUME NEW s, NEW r, NEW body \in SmsMessages(s, r), NEW e,
           e = Event("sms", body), NEW c \in {e} \cup CorruptSms(e)
    PROVE  Named(c) \in {s.id, UnknownSubscriber}
<1>1. DOMAIN body \cap Namers = {"sender_id"} /\ body.sender_id = Number(s.id)
  <2>1. PICK x : body = [sender_id |-> Number(s.id), receiver_msisdn |-> Msisdn("27", r.msisdn),
                               length |-> Number(x)]
    BY DEF SmsMessages
  <2> QED BY <2>1 DEF Namers
<1>2. DOMAIN e \cap Namers = {"sender_id"} /\ e.sender_id = Number(s.id)
  BY <1>1, EventNames
<1>3. DOMAIN c = DOMAIN e /\ c.sender_id \in {Number(s.id), Number(UnknownSubscriber)}
  BY <1>2 DEF CorruptSms
<1> QED BY <1>2, <1>3, NamedBy DEF Number, Value

\* A data session names its subscriber, spoilt or not.
LEMMA SessionNames ==
    ASSUME NEW s, NEW body \in DataSessions(s), NEW e,
           e = Event("data_usage", body), NEW c \in {e} \cup CorruptSession(e)
    PROVE  Named(c) = s.id
<1>1. DOMAIN body \cap Namers = {"subscriber_id"} /\ body.subscriber_id = Number(s.id)
  <2>1. PICK x, y, z : body = [subscriber_id |-> Number(s.id), mb_used |-> Decimal(x),
                               session_seconds |-> Number(10), tower_id |-> Str(y), technology |-> Str(z)]
    BY DEF DataSessions
  <2> QED BY <2>1 DEF Namers
<1>2. DOMAIN e \cap Namers = {"subscriber_id"} /\ e.subscriber_id = Number(s.id)
  BY <1>1, EventNames
<1>3. DOMAIN c = DOMAIN e /\ c.subscriber_id = Number(s.id)
  BY <1>2 DEF CorruptSession
<1> QED BY <1>2, <1>3, NamedBy DEF Number, Value

\* A tower status names no one.
LEMMA StatusNames ==
    ASSUME NEW body \in TowerStatuses, NEW e,
           e = Event("tower_status", body), NEW c \in {e} \cup CorruptStatus(e)
    PROVE  Named(c) = NoOne
<1>1. DOMAIN body \cap Namers = {}
  <2>1. PICK x, y, z : body =
        [tower_id |-> Str(x), technology |-> Str(y), signal_strength |-> Number(z),
                               connected_devices |-> Number(50), status |-> Str(StatusAt(z))]
    BY DEF TowerStatuses
  <2> QED BY <2>1 DEF Namers
<1>2. DOMAIN e \cap Namers = {}
  BY <1>1, EventNames
<1>3. DOMAIN c = DOMAIN e
  BY DEF CorruptStatus
<1> QED BY <1>2, <1>3, NamedBy

\* An announcement names the subscriber it announces, spoilt or not.
LEMMA AnnouncementNames ==
    ASSUME NEW s, NEW e \in Announcement(s), NEW c \in {e} \cup CorruptSubscriber(e)
    PROVE  Named(c) = s.id /\ c.msisdn.val.number = s.msisdn
<1>1. PICK p, v : e = Event("subscriber_created",
                        [subscriber_id |-> Number(s.id), msisdn |-> Msisdn("27", s.msisdn),
                         plan |-> Str(p), province |-> Str(v)])
  BY DEF Announcement
<1> DEFINE body == [subscriber_id |-> Number(s.id), msisdn |-> Msisdn("27", s.msisdn),
                    plan |-> Str(p), province |-> Str(v)]
<1>2. /\ DOMAIN body \cap Namers = {"subscriber_id"} /\ body.subscriber_id = Number(s.id)
      /\ "msisdn" \in DOMAIN body \ EnvelopeFields /\ body.msisdn = Msisdn("27", s.msisdn)
  BY DEF Namers, EnvelopeFields
<1>3. e = Event("subscriber_created", body)
  BY <1>1
<1> HIDE DEF body
<1>4. DOMAIN e \cap Namers = {"subscriber_id"} /\ e.subscriber_id = Number(s.id)
  BY <1>2, <1>3, EventNames
<1>5. "msisdn" \in DOMAIN e /\ e.msisdn = Msisdn("27", s.msisdn)
  <2>1. DOMAIN e = EnvelopeFields \cup DOMAIN body
    BY <1>3, EventShape
  <2>2. \A f \in DOMAIN body \ EnvelopeFields : e[f] = body[f]
    BY <1>3, EventShape
  <2>3. e["msisdn"] = body["msisdn"]
    BY <1>2, <2>2
  <2> QED BY <1>2, <2>1, <2>3
<1>6. e.msisdn.val.number = s.msisdn
  BY <1>5 DEF Msisdn, Str, Value
<1>7. /\ DOMAIN c = DOMAIN e /\ c.subscriber_id = e.subscriber_id
      /\ c.msisdn.val.number = s.msisdn
  BY <1>4, <1>5, <1>6 DEF CorruptSubscriber, Msisdn, Str, Value
<1> QED BY <1>4, <1>7, NamedBy DEF Number, Value

\* A payment failure names no one.
LEMMA PaymentNames == Named(PaymentFailure) = NoOne
<1> DEFINE body == [source_topic |-> Str("airtime-purchases"),
                    rejection_reason |-> Str("PAYMENT_DECLINED"), original_payload |-> Str("purchase")]
<1>1. DOMAIN body \cap Namers = {}
  BY DEF Namers
<1>2. PaymentFailure = Event("dlq_record", body)
  BY DEF PaymentFailure
<1> HIDE DEF body
<1>3. DOMAIN PaymentFailure \cap Namers = {}
  BY <1>1, <1>2, EventNames
<1> QED BY <1>3, NamedBy

\* The event types.
LEMMA EventTypesAre ==
    EventTypes = {"subscriber_created", "airtime_purchase", "bundle_purchase",
                  "voice_call", "sms", "data_usage", "tower_status"}
BY DEF EventTypes, EVENT_FIELDS

\* Every event but an announcement names the subscriber it was made about, no one,
\* or the unknown subscriber corrupt puts in.
LEMMA SpoiltNames ==
    ASSUME NEW type \in EventTypes \ {"subscriber_created"},
           NEW made \in {"generate", "corrupt"}, NEW s, NEW r,
           NEW c \in Spoilt(type, made, Generated(type, s, r))
    PROVE  Named(c) \in {s.id, NoOne, UnknownSubscriber}
<1>1. PICK e \in Generated(type, s, r) : c \in {e} \cup Corrupted(type, e)
  BY DEF Spoilt
<1>2. CASE type = "airtime_purchase"
  <2>1. PICK body \in AirtimePurchases(s) : e = Event("airtime_purchase", body)
    BY <1>2 DEF Generated
  <2>2. Corrupted(type, e) = CorruptAirtime(e)
    BY <1>2 DEF Corrupted
  <2> QED BY <1>1, <2>1, <2>2, AirtimeNames
<1>3. CASE type = "bundle_purchase"
  <2>1. PICK body \in BundlePurchases(s) : e = Event("bundle_purchase", body)
    BY <1>3 DEF Generated
  <2>2. Corrupted(type, e) = CorruptBundle(e)
    BY <1>3 DEF Corrupted
  <2> QED BY <1>1, <2>1, <2>2, BundleNames
<1>4. CASE type = "voice_call"
  <2>1. PICK body \in VoiceCalls(s, r) : e = Event("voice_call", body)
    BY <1>4 DEF Generated
  <2>2. Corrupted(type, e) = CorruptCall(e)
    BY <1>4 DEF Corrupted
  <2> QED BY <1>1, <2>1, <2>2, CallNames
<1>5. CASE type = "sms"
  <2>1. PICK body \in SmsMessages(s, r) : e = Event("sms", body)
    BY <1>5 DEF Generated
  <2>2. Corrupted(type, e) = CorruptSms(e)
    BY <1>5 DEF Corrupted
  <2> QED BY <1>1, <2>1, <2>2, SmsNames
<1>6. CASE type = "data_usage"
  <2>1. PICK body \in DataSessions(s) : e = Event("data_usage", body)
    BY <1>6 DEF Generated
  <2>2. Corrupted(type, e) = CorruptSession(e)
    BY <1>6 DEF Corrupted
  <2> QED BY <1>1, <2>1, <2>2, SessionNames
<1>7. CASE type = "tower_status"
  <2>1. PICK body \in TowerStatuses : e = Event("tower_status", body)
    BY <1>7 DEF Generated
  <2>2. Corrupted(type, e) = CorruptStatus(e)
    BY <1>7 DEF Corrupted
  <2> QED BY <1>1, <2>1, <2>2, StatusNames
<1> QED BY <1>2, <1>3, <1>4, <1>5, <1>6, <1>7, EventTypesAre

-----------------------------------------------------------------------------
(* The invariant.                                                          *)

Ids == {s.id : s \in registry}
Running == pc \in {"seeding", "emitting", "publishing"}

\* What sent will remember of the event under way.
UnderWay == Remembered(event)

\* The event under way announces a subscriber the run has registered and not
\* announced, or names a registered one, no one or the unknown one.
DraftInv ==
    pc = "publishing" =>
        /\ Len(sent) < MaxSends
        /\ UnderWay \in Sends /\ UnderWay.run = run
        /\ UnderWay.announces =>
              /\ [id |-> UnderWay.id, msisdn |-> UnderWay.msisdn] \in registry
              /\ \A j \in DOMAIN sent :
                    sent[j].announces /\ sent[j].run = run =>
                        sent[j].id # UnderWay.id /\ sent[j].msisdn # UnderWay.msisdn
        /\ ~UnderWay.announces => UnderWay.id \in Ids \cup {NoOne, UnknownSubscriber}

\* Events are of runs that have begun; those in the buffer are of the last one.
RunsInv ==
    /\ \A i \in DOMAIN sent : sent[i].run <= run
    /\ \A i \in buffer : sent[i].run = run

\* The registry of the run tells its subscribers apart, and knows each one
\* the run has announced.
RegistryInv ==
    /\ \A s, t \in registry : s.id = t.id \/ s.msisdn = t.msisdn => s = t
    /\ \A i \in DOMAIN sent :
          sent[i].announces /\ sent[i].run = run =>
              [id |-> sent[i].id, msisdn |-> sent[i].msisdn] \in registry

\* A running producer has announced each subscriber it has registered, but for
\* the one whose announcement is under way.
AnnouncedInv ==
    Running => \A s \in registry :
        \/ \E j \in DOMAIN sent : sent[j].announces /\ sent[j].run = run /\ sent[j].id = s.id
        \/ pc = "publishing" /\ UnderWay.announces /\ UnderWay.id = s.id

\* Every event that names someone follows the announcement of its run.
FollowsInv ==
    \A i \in DOMAIN sent :
        sent[i].id \notin {NoOne, UnknownSubscriber} =>
            \E j \in 1..i : /\ sent[j].announces /\ sent[j].id = sent[i].id
                            /\ sent[j].run = sent[i].run

ProducerInv ==
    /\ TypeOK /\ DraftInv /\ RunsInv /\ RegistryInv /\ AnnouncedInv
    /\ OnePersonPerRun /\ FollowsInv /\ NothingLeftBehind

-----------------------------------------------------------------------------
(* What the steps do.                                                      *)

\* An event under way is not the empty sequence.
LEMMA EventThere ==
    ASSUME NEW type, NEW made, NEW body
    PROVE  [type |-> type, made |-> made, body |-> body] # <<>>
<1>1. DOMAIN [type |-> type, made |-> made, body |-> body] # {}
  OBVIOUS
<1>2. DOMAIN <<>> = {}
  OBVIOUS
<1> QED BY <1>1, <1>2

\* Registering a subscriber makes its announcement the event under way.
LEMMA NewSubscriberStep ==
    ASSUME NEW made \in {"generate", "corrupt"}, NewSubscriber(made), run' = run
    PROVE  /\ nextId' = nextId + 1 /\ pc' = "publishing" /\ event' # <<>>
           /\ \E m \in FreshMsisdns :
                 /\ registry' = registry \cup {[id |-> nextId, msisdn |-> m]}
                 /\ UnderWay' = [run |-> run, announces |-> TRUE, id |-> nextId, msisdn |-> m]
<1>1. PICK m \in FreshMsisdns :
        /\ registry' = registry \cup {[id |-> nextId, msisdn |-> m]}
        /\ \E c \in Spoilt("subscriber_created", made, Announcement([id |-> nextId, msisdn |-> m])) :
              Draft("subscriber_created", made, c)
  BY DEF NewSubscriber
<1> DEFINE s == [id |-> nextId, msisdn |-> m]
<1>2. PICK c \in Spoilt("subscriber_created", made, Announcement(s)) :
        Draft("subscriber_created", made, c)
  BY <1>1
<1>3. PICK e \in Announcement(s) : c \in {e} \cup CorruptSubscriber(e)
  <2>1. \A e : Corrupted("subscriber_created", e) = CorruptSubscriber(e)
    BY DEF Corrupted
  <2> QED BY <1>2, <2>1 DEF Spoilt
<1>4. Named(c) = nextId /\ c.msisdn.val.number = m
  <2> HIDE DEF s
  <2>1. Named(c) = s.id /\ c.msisdn.val.number = s.msisdn
    BY <1>3, AnnouncementNames
  <2> QED BY <2>1 DEF s
<1>5. event' = [type |-> "subscriber_created", made |-> made, body |-> c]
  BY <1>2 DEF Draft
<1>6. event'.type = "subscriber_created" /\ event'.body = c
  BY <1>5
<1>7. UnderWay' = [run |-> run, announces |-> TRUE, id |-> nextId, msisdn |-> m]
  BY <1>4, <1>6 DEF UnderWay, Remembered
<1> QED BY <1>1, <1>5, <1>7, EventThere DEF NewSubscriber

\* Seed and EmitOne make one event the event under way.
LEMMA DraftStep ==
    ASSUME TypeOK, Seed \/ EmitOne
    PROVE  /\ pc \in {"seeding", "emitting"} /\ pc' = "publishing" /\ event' # <<>>
           /\ Len(sent) < MaxSends
           /\ UNCHANGED <<run, sent, buffer, copies, givenUp, killed>>
           /\ \/ /\ nextId' = nextId + 1
                 /\ \E m \in FreshMsisdns :
                       /\ registry' = registry \cup {[id |-> nextId, msisdn |-> m]}
                       /\ UnderWay' = [run |-> run, announces |-> TRUE, id |-> nextId, msisdn |-> m]
              \/ /\ UNCHANGED <<registry, nextId>>
                 /\ \E id \in Ids \cup {NoOne, UnknownSubscriber} :
                       UnderWay' = [run |-> run, announces |-> FALSE, id |-> id, msisdn |-> NoOne]
<1>1. CASE Seed
  BY <1>1, NewSubscriberStep DEF Seed, client
<1>2. CASE EmitOne /\ \E made \in {"generate", "corrupt"} : NewSubscriber(made)
  BY <1>2, NewSubscriberStep DEF EmitOne, client
<1>3. ASSUME EmitOne, NEW type, NEW made, NEW c, Draft(type, made, c),
             type # "subscriber_created", pc' = "publishing", UNCHANGED <<registry, nextId>>,
             Named(c) \in Ids \cup {NoOne, UnknownSubscriber}
      PROVE  /\ event' # <<>>
             /\ \E id \in Ids \cup {NoOne, UnknownSubscriber} :
                   UnderWay' = [run |-> run, announces |-> FALSE, id |-> id, msisdn |-> NoOne]
  <2>1. event' = [type |-> type, made |-> made, body |-> c]
    BY <1>3 DEF Draft
  <2>2. event'.type # "subscriber_created" /\ event'.body = c
    BY <1>3, <2>1
  <2>3. run' = run
    BY <1>3 DEF EmitOne
  <2>4. UnderWay' = [run |-> run, announces |-> FALSE, id |-> Named(c), msisdn |-> NoOne]
    BY <2>2, <2>3 DEF UnderWay, Remembered
  <2> QED BY <1>3, <2>1, <2>4, EventThere
<1>4. ASSUME EmitOne, NEW type \in EventTypes \ {"subscriber_created"},
             NEW made \in {"generate", "corrupt"}, NEW s \in registry, NEW r \in registry,
             NEW c \in Spoilt(type, made, Generated(type, s, r))
      PROVE  Named(c) \in Ids \cup {NoOne, UnknownSubscriber}
  BY <1>4, SpoiltNames DEF Ids
<1>5. CASE EmitOne /\ ~\E made \in {"generate", "corrupt"} : NewSubscriber(made)
  <2>1. /\ pc = "emitting" /\ Len(sent) < MaxSends /\ pc' = "publishing"
        /\ UNCHANGED <<registry, nextId>>
        /\ UNCHANGED <<run, sent, buffer, copies, givenUp, killed>>
    BY <1>5 DEF EmitOne, client
  <2>2. \/ \E type \in EventTypes \ {"subscriber_created"}, made \in {"generate", "corrupt"} :
              \E s, r \in registry : \E c \in Spoilt(type, made, Generated(type, s, r)) :
                  Draft(type, made, c)
        \/ Draft("dlq_record", "generate", PaymentFailure)
    BY <1>5 DEF EmitOne
  <2>3. CASE Draft("dlq_record", "generate", PaymentFailure)
    BY <1>3, <1>5, <2>1, <2>3, PaymentNames
  <2>4. CASE \E type \in EventTypes \ {"subscriber_created"}, made \in {"generate", "corrupt"} :
               \E s, r \in registry : \E c \in Spoilt(type, made, Generated(type, s, r)) :
                   Draft(type, made, c)
    <3>1. PICK type \in EventTypes \ {"subscriber_created"}, made \in {"generate", "corrupt"},
               s \in registry, r \in registry :
                 \E c \in Spoilt(type, made, Generated(type, s, r)) : Draft(type, made, c)
      BY <2>4
    <3>2. PICK c \in Spoilt(type, made, Generated(type, s, r)) : Draft(type, made, c)
      BY <3>1
    <3>3. Named(c) \in Ids \cup {NoOne, UnknownSubscriber}
      BY <1>4, <1>5, <3>2
    <3> QED BY <1>3, <1>5, <2>1, <3>2, <3>3
  <2> QED BY <2>1, <2>2, <2>3, <2>4
<1> QED BY <1>1, <1>2, <1>5

\* Publish appends what is to be remembered of the event under way.
LEMMA PublishStep ==
    ASSUME TypeOK, DraftInv, Publish
    PROVE  /\ pc = "publishing" /\ pc' \in {"seeding", "emitting"}
           /\ Len(sent) < MaxSends /\ UnderWay \in Sends /\ UnderWay.run = run
           /\ sent' = Append(sent, UnderWay) /\ Len(sent') = Len(sent) + 1
           /\ DOMAIN sent' = DOMAIN sent \cup {Len(sent) + 1}
           /\ Len(sent) + 1 \notin DOMAIN sent
           /\ sent'[Len(sent) + 1] = UnderWay
           /\ \A i \in DOMAIN sent : sent'[i] = sent[i]
           /\ copies' = Append(copies, 0)
           /\ \A i \in DOMAIN sent : copies'[i] = copies[i]
           /\ buffer' = buffer \cup {Len(sent) + 1}
           /\ UNCHANGED <<run, registry, nextId, givenUp, killed>>
<1>1. sent \in Seq(Sends) /\ UnderWay \in Sends
  BY DEF TypeOK, DraftInv, Publish
<1>2. sent' = Append(sent, UnderWay)
  BY DEF Publish, UnderWay
<1>3. copies \in Seq(0..MaxCopies) /\ Len(copies) = Len(sent) /\ copies' = Append(copies, 0)
  BY DEF TypeOK, Publish
<1> HIDE DEF UnderWay
<1>4. /\ Len(sent') = Len(sent) + 1
      /\ DOMAIN sent' = DOMAIN sent \cup {Len(sent) + 1} /\ Len(sent) + 1 \notin DOMAIN sent
      /\ sent'[Len(sent) + 1] = UnderWay /\ \A i \in DOMAIN sent : sent'[i] = sent[i]
  BY <1>1, <1>2
<1>5. \A i \in DOMAIN sent : copies'[i] = copies[i]
  BY <1>1, <1>3
<1> QED BY <1>1, <1>2, <1>3, <1>4, <1>5 DEF Publish, DraftInv

\* The sender thread touches its own bookkeeping only.
LEMMA SenderStepFrame ==
    ASSUME TypeOK, NEW i \in buffer, Deliver(i) \/ DeliverUnacknowledged(i) \/ GiveUp(i)
    PROVE  /\ UNCHANGED <<pc, run, registry, nextId, event, sent, killed>>
           /\ buffer \ {i} \subseteq buffer' /\ buffer' \subseteq buffer
           /\ givenUp \subseteq givenUp' /\ givenUp' \subseteq DOMAIN sent
           /\ buffer' \cap givenUp' = {}
           /\ copies' \in Seq(0..MaxCopies) /\ Len(copies') = Len(copies)
           /\ \A j \in DOMAIN sent : copies[j] > 0 => copies'[j] > 0
           /\ copies'[i] > 0 \/ i \in buffer' \cup givenUp'
<1>1. i \in DOMAIN sent /\ DOMAIN sent = 1..Len(sent) /\ DOMAIN copies = 1..Len(sent)
  BY DEF TypeOK
<1>2. CASE Deliver(i) \/ DeliverUnacknowledged(i)
  <2>1. copies[i] \in 0..MaxCopies /\ copies[i] < MaxCopies
        /\ copies' = [copies EXCEPT ![i] = @ + 1]
    <3> DEFINE S == 0..MaxCopies
    <3>1. copies \in Seq(S) /\ i \in 1..Len(copies)
      BY <1>1 DEF TypeOK
    <3> HIDE DEF S
    <3>2. copies[i] \in S
      BY <3>1
    <3> QED BY <1>2, <3>2 DEF S, Deliver, DeliverUnacknowledged
  <2>2. copies[i] + 1 \in 0..MaxCopies
    BY <2>1, ProducerAssumption
  <2>3. copies' \in Seq(0..MaxCopies) /\ Len(copies') = Len(copies)
        /\ copies'[i] = copies[i] + 1
        /\ \A j \in DOMAIN sent \ {i} : copies'[j] = copies[j]
    BY <1>1, <2>1, <2>2 DEF TypeOK
  <2> QED BY <1>2, <2>1, <2>3 DEF Deliver, DeliverUnacknowledged, TypeOK, process
<1>3. CASE GiveUp(i)
  BY <1>1, <1>3 DEF GiveUp, TypeOK, process
<1> QED BY <1>2, <1>3

\* Runs are numbers.
LEMMA RunsAreNat ==
    ASSUME TypeOK
    PROVE  run \in Nat /\ \A i \in DOMAIN sent : sent[i].run \in Nat
<1>1. run \in Nat /\ sent \in Seq(Sends)
  BY DEF TypeOK
<1>2. \A x \in Sends : x.run \in Nat
  BY DEF Sends
<1>3. \A i \in DOMAIN sent : sent[i] \in Sends
  BY <1>1
<1> QED BY <1>1, <1>2, <1>3

\* Every step keeps the types ...
LEMMA TypeStep ==
    ASSUME TypeOK, DraftInv, [Next]_vars
    PROVE  TypeOK'
<1>1. CASE Seed \/ EmitOne
  <2>1. registry' \subseteq [id : FirstId..(nextId' - 1), msisdn : Msisdns]
        /\ nextId' \in Nat /\ nextId' >= FirstId
    BY <1>1, DraftStep DEF TypeOK, FreshMsisdns, FirstId
  <2> QED BY <1>1, <2>1, DraftStep DEF TypeOK
<1>2. CASE Publish
  <2>1. event' = <<>> /\ pc' # "publishing" /\ pc' # "down"
    BY <1>2 DEF Publish
  <2>2. sent' \in Seq(Sends) /\ Len(sent') <= MaxSends
    <3>1. sent \in Seq(Sends) /\ UnderWay \in Sends /\ sent' = Append(sent, UnderWay)
          /\ Len(sent') = Len(sent) + 1 /\ Len(sent) < MaxSends
      BY <1>2, PublishStep DEF TypeOK
    <3> HIDE DEF UnderWay
    <3>2. sent' \in Seq(Sends)
      BY <3>1
    <3> QED BY <3>1, <3>2, ProducerAssumption
  <2>3. copies' \in Seq(0..MaxCopies) /\ Len(copies') = Len(sent')
    <3>1. copies \in Seq(0..MaxCopies) /\ copies' = Append(copies, 0) /\ 0 \in 0..MaxCopies
      BY <1>2, PublishStep, ProducerAssumption DEF TypeOK
    <3>2. copies' \in Seq(0..MaxCopies) /\ Len(copies') = Len(copies) + 1
      BY <3>1
    <3> QED BY <1>2, <3>2, PublishStep DEF TypeOK
  <2>4. buffer' \subseteq DOMAIN sent' /\ givenUp' \subseteq DOMAIN sent' /\ buffer' \cap givenUp' = {}
    BY <1>2, PublishStep DEF TypeOK
  <2> QED BY <1>2, <2>1, <2>2, <2>3, <2>4, PublishStep DEF TypeOK
<1>3. CASE Start
  BY <1>3, ProducerAssumption DEF Start, TypeOK, FirstId, client
<1>4. CASE Stop
  BY <1>4 DEF Stop, TypeOK, client
<1>5. CASE Close
  BY <1>5 DEF Close, TypeOK, client
<1>6. CASE Kill
  BY <1>6 DEF Kill, TypeOK
<1>7. CASE \E i \in buffer : Deliver(i) \/ DeliverUnacknowledged(i) \/ GiveUp(i)
  BY <1>7, SenderStepFrame DEF TypeOK
<1>8. CASE UNCHANGED vars
  BY <1>8 DEF vars, process, client, TypeOK
<1> QED BY <1>1, <1>2, <1>3, <1>4, <1>5, <1>6, <1>7, <1>8 DEF Next

\* ... what is known of the event under way ...
LEMMA DraftInvStep ==
    ASSUME ProducerInv, [Next]_vars
    PROVE  DraftInv'
<1> USE DEF ProducerInv
<1>1. CASE Seed \/ EmitOne
  <2>1. /\ pc' = "publishing" /\ Len(sent') < MaxSends
        /\ UNCHANGED <<run, sent>> /\ run \in 1..MaxRuns
    BY <1>1, DraftStep DEF TypeOK
  <2>2. CASE \E m \in FreshMsisdns :
               /\ registry' = registry \cup {[id |-> nextId, msisdn |-> m]}
               /\ UnderWay' = [run |-> run, announces |-> TRUE, id |-> nextId, msisdn |-> m]
    <3>1. PICK m \in FreshMsisdns :
            /\ registry' = registry \cup {[id |-> nextId, msisdn |-> m]}
            /\ UnderWay' = [run |-> run, announces |-> TRUE, id |-> nextId, msisdn |-> m]
      BY <2>2
    <3>2. UnderWay' \in Sends
      BY <2>1, <3>1 DEF Sends, FreshMsisdns, TypeOK
    <3>3. \A s \in registry : s.id # nextId /\ s.msisdn # m
      BY DEF TypeOK, FreshMsisdns, FirstId
    <3>4. \A j \in DOMAIN sent : sent[j].announces /\ sent[j].run = run =>
             sent[j].id # nextId /\ sent[j].msisdn # m
      <4> SUFFICES ASSUME NEW j \in DOMAIN sent, sent[j].announces, sent[j].run = run
                   PROVE  sent[j].id # nextId /\ sent[j].msisdn # m
        OBVIOUS
      <4>1. [id |-> sent[j].id, msisdn |-> sent[j].msisdn] \in registry
        BY DEF RegistryInv
      <4> QED BY <3>3, <4>1
    <3> HIDE DEF ProducerInv
    <3>5. UnderWay'.run = run' /\ UnderWay'.announces
          /\ UnderWay'.id = nextId /\ UnderWay'.msisdn = m
      BY <2>1, <3>1
    <3> QED BY <2>1, <3>1, <3>2, <3>4, <3>5 DEF DraftInv
  <2>3. CASE /\ UNCHANGED <<registry, nextId>>
             /\ \E id \in Ids \cup {NoOne, UnknownSubscriber} :
                   UnderWay' = [run |-> run, announces |-> FALSE, id |-> id, msisdn |-> NoOne]
    <3>1. PICK id \in Ids \cup {NoOne, UnknownSubscriber} :
                   UnderWay' = [run |-> run, announces |-> FALSE, id |-> id, msisdn |-> NoOne]
      BY <2>3
    <3>2. id \in Nat
      BY DEF Ids, TypeOK, NoOne, UnknownSubscriber, FirstId
    <3>3. UnderWay' \in Sends /\ UnderWay'.run = run' /\ ~UnderWay'.announces /\ UnderWay'.id = id
      BY <2>1, <3>1, <3>2 DEF Sends
    <3>4. Ids' = Ids
      BY <2>3 DEF Ids
    <3> QED BY <2>1, <3>1, <3>3, <3>4 DEF DraftInv
  <2> QED BY <1>1, <2>2, <2>3, DraftStep
<1>2. CASE Publish \/ Start \/ Stop \/ Close \/ Kill
  BY <1>2 DEF Publish, Start, Stop, Close, Kill, DraftInv
<1>3. ASSUME UNCHANGED <<pc, run, registry, event, sent>>
      PROVE  DraftInv'
  BY <1>3 DEF DraftInv, UnderWay, Remembered, Ids
<1>4. CASE \E i \in buffer : Deliver(i) \/ DeliverUnacknowledged(i) \/ GiveUp(i)
  BY <1>3, <1>4, SenderStepFrame
<1>5. CASE UNCHANGED vars
  BY <1>3, <1>5 DEF vars, process, client
<1> QED BY <1>1, <1>2, <1>4, <1>5 DEF Next

\* ... the runs of events ...
LEMMA RunsStep ==
    ASSUME ProducerInv, [Next]_vars
    PROVE  RunsInv'
<1> USE DEF ProducerInv
<1>1. CASE Seed \/ EmitOne
  BY <1>1, DraftStep DEF RunsInv
<1>2. CASE Publish
  <2>1. \A i \in DOMAIN sent : sent[i].run <= run
    BY DEF RunsInv
  <2>2. run <= run
    BY DEF TypeOK
  <2>3. \A i \in buffer : i \in DOMAIN sent
    BY DEF TypeOK
  <2> QED BY <1>2, <2>1, <2>2, <2>3, PublishStep DEF RunsInv
<1>3. CASE Start
  <2>1. buffer = {} /\ run' = run + 1 /\ UNCHANGED <<sent, buffer>>
    BY <1>3 DEF Start, client, TypeOK
  <2>2. \A i \in DOMAIN sent : sent[i].run \in Nat /\ sent[i].run <= run /\ run \in Nat
    BY RunsAreNat DEF RunsInv
  <2> QED BY <2>1, <2>2 DEF RunsInv
<1>4. CASE Stop \/ Close \/ Kill
  BY <1>4 DEF Stop, Close, Kill, RunsInv, client
<1>5. CASE \E i \in buffer : Deliver(i) \/ DeliverUnacknowledged(i) \/ GiveUp(i)
  BY <1>5, SenderStepFrame DEF RunsInv
<1>6. CASE UNCHANGED vars
  BY <1>6 DEF vars, process, client, RunsInv
<1> QED BY <1>1, <1>2, <1>3, <1>4, <1>5, <1>6 DEF Next

\* ... the registry and what it announced ...
LEMMA RegistryStep ==
    ASSUME ProducerInv, [Next]_vars
    PROVE  RegistryInv'
<1> USE DEF ProducerInv
<1>1. CASE Seed \/ EmitOne
  <2>1. CASE \E m \in FreshMsisdns : registry' = registry \cup {[id |-> nextId, msisdn |-> m]}
    <3>1. \A m \in FreshMsisdns : \A s \in registry : s.id # nextId /\ s.msisdn # m
      BY DEF TypeOK, FreshMsisdns, FirstId
    <3> QED BY <1>1, <2>1, <3>1, DraftStep DEF RegistryInv
  <2>2. CASE UNCHANGED registry
    BY <1>1, <2>2, DraftStep DEF RegistryInv
  <2> QED BY <1>1, <2>1, <2>2, DraftStep
<1>2. CASE Publish
  <2>1. UnderWay.announces => [id |-> UnderWay.id, msisdn |-> UnderWay.msisdn] \in registry
    BY <1>2, PublishStep DEF DraftInv
  <2> QED BY <1>2, <2>1, PublishStep DEF RegistryInv
<1>3. CASE Start
  <2>1. registry' = {} /\ run' = run + 1 /\ UNCHANGED sent
    BY <1>3 DEF Start, client
  <2>2. \A i \in DOMAIN sent : sent[i].run \in Nat /\ sent[i].run <= run /\ run \in Nat
    BY RunsAreNat DEF RunsInv
  <2>3. \A i \in DOMAIN sent : sent[i].run # run'
    BY <2>1, <2>2
  <2> QED BY <2>1, <2>3 DEF RegistryInv
<1>4. CASE Stop \/ Close \/ Kill
  BY <1>4 DEF Stop, Close, Kill, RegistryInv, client
<1>5. CASE \E i \in buffer : Deliver(i) \/ DeliverUnacknowledged(i) \/ GiveUp(i)
  BY <1>5, SenderStepFrame DEF RegistryInv
<1>6. CASE UNCHANGED vars
  BY <1>6 DEF vars, process, client, RegistryInv
<1> QED BY <1>1, <1>2, <1>3, <1>4, <1>5, <1>6 DEF Next

\* ... that whoever is registered is announced ...
LEMMA AnnouncedStep ==
    ASSUME ProducerInv, [Next]_vars
    PROVE  AnnouncedInv'
<1> USE DEF ProducerInv
<1>1. CASE Seed \/ EmitOne
  <2>1. Running /\ pc # "publishing"
    BY <1>1, DraftStep DEF Running
  <2>2. \A s \in registry :
           \E j \in DOMAIN sent : sent[j].announces /\ sent[j].run = run /\ sent[j].id = s.id
    BY <2>1 DEF AnnouncedInv
  <2> QED BY <1>1, <2>2, DraftStep DEF AnnouncedInv
<1>2. CASE Publish
  BY <1>2, PublishStep DEF AnnouncedInv, Running
<1>3. CASE Start
  BY <1>3 DEF Start, AnnouncedInv
<1>4. CASE Stop \/ Close \/ Kill
  BY <1>4 DEF Stop, Close, Kill, AnnouncedInv, Running
<1>5. ASSUME UNCHANGED <<pc, run, registry, event, sent>>
      PROVE  AnnouncedInv'
  BY <1>5 DEF AnnouncedInv, Running, UnderWay, Remembered
<1>6. CASE \E i \in buffer : Deliver(i) \/ DeliverUnacknowledged(i) \/ GiveUp(i)
  BY <1>5, <1>6, SenderStepFrame
<1>7. CASE UNCHANGED vars
  BY <1>5, <1>7 DEF vars, process, client
<1> QED BY <1>1, <1>2, <1>3, <1>4, <1>6, <1>7 DEF Next

\* ... once ...
LEMMA OnePersonStep ==
    ASSUME ProducerInv, [Next]_vars
    PROVE  OnePersonPerRun'
<1> USE DEF ProducerInv
<1>1. ASSUME UNCHANGED sent
      PROVE  OnePersonPerRun'
  BY <1>1 DEF OnePersonPerRun
<1>2. CASE Publish
  <2>1. UnderWay.announces => \A j \in DOMAIN sent :
            sent[j].announces /\ sent[j].run = run
                => sent[j].id # UnderWay.id /\ sent[j].msisdn # UnderWay.msisdn
    BY <1>2, PublishStep DEF DraftInv
  <2> QED BY <1>2, <2>1, PublishStep DEF OnePersonPerRun
<1>3. CASE Seed \/ EmitOne
  BY <1>1, <1>3, DraftStep
<1>4. CASE Start \/ Stop \/ Close \/ Kill
  BY <1>1, <1>4 DEF Start, Stop, Close, Kill, client
<1>5. CASE \E i \in buffer : Deliver(i) \/ DeliverUnacknowledged(i) \/ GiveUp(i)
  BY <1>1, <1>5, SenderStepFrame
<1>6. CASE UNCHANGED vars
  BY <1>1, <1>6 DEF vars, client
<1> QED BY <1>2, <1>3, <1>4, <1>5, <1>6 DEF Next

\* ... before anyone names them ...
LEMMA FollowsStep ==
    ASSUME ProducerInv, [Next]_vars
    PROVE  FollowsInv'
<1> USE DEF ProducerInv
<1>1. ASSUME UNCHANGED sent
      PROVE  FollowsInv'
  BY <1>1 DEF FollowsInv
<1>2. CASE Publish
  <2>1. DOMAIN sent = 1..Len(sent) /\ Len(sent) \in Nat
    BY DEF TypeOK
  <2>2. \A i \in DOMAIN sent : \A j \in 1..i : j \in DOMAIN sent
    BY <2>1
  <2>3. ASSUME NEW i \in DOMAIN sent', sent'[i].id \notin {NoOne, UnknownSubscriber}
        PROVE  \E j \in 1..i : /\ sent'[j].announces /\ sent'[j].id = sent'[i].id
                               /\ sent'[j].run = sent'[i].run
    <3>1. CASE i \in DOMAIN sent
      <4>1. PICK j \in 1..i : sent[j].announces /\ sent[j].id = sent[i].id /\ sent[j].run = sent[i].run
        BY <1>2, <2>3, <3>1, PublishStep DEF FollowsInv
      <4> QED BY <1>2, <2>2, <3>1, <4>1, PublishStep
    <3>2. CASE i = Len(sent) + 1 /\ UnderWay.announces
      <4>1. i \in 1..i
        BY <2>1, <3>2
      <4> QED BY <1>2, <3>2, <4>1, PublishStep
    <3>3. CASE i = Len(sent) + 1 /\ ~UnderWay.announces
      <4>1. UnderWay.id \in Ids \cup {NoOne, UnknownSubscriber} /\ sent'[i] = UnderWay /\ UnderWay.run = run
        BY <1>2, <3>3, PublishStep DEF DraftInv
      <4>2. PICK s \in registry : s.id = UnderWay.id
        BY <2>3, <4>1 DEF Ids
      <4>3. PICK j \in DOMAIN sent : sent[j].announces /\ sent[j].run = run /\ sent[j].id = s.id
        BY <1>2, <3>3, PublishStep DEF AnnouncedInv, Running
      <4>4. j \in 1..i /\ sent'[j] = sent[j]
        BY <1>2, <2>1, <3>3, PublishStep
      <4> QED BY <4>1, <4>2, <4>3, <4>4
    <3> QED BY <1>2, <2>3, <3>1, <3>2, <3>3, PublishStep
  <2> QED BY <2>3 DEF FollowsInv
<1>3. CASE Seed \/ EmitOne
  BY <1>1, <1>3, DraftStep
<1>4. CASE Start \/ Stop \/ Close \/ Kill
  BY <1>1, <1>4 DEF Start, Stop, Close, Kill, client
<1>5. CASE \E i \in buffer : Deliver(i) \/ DeliverUnacknowledged(i) \/ GiveUp(i)
  BY <1>1, <1>5, SenderStepFrame
<1>6. CASE UNCHANGED vars
  BY <1>1, <1>6 DEF vars, client
<1> QED BY <1>2, <1>3, <1>4, <1>5, <1>6 DEF Next

\* ... and what becomes of an event.
LEMMA LeftBehindStep ==
    ASSUME ProducerInv, [Next]_vars
    PROVE  NothingLeftBehind'
<1> USE DEF ProducerInv
<1>1. ASSUME UNCHANGED <<sent, buffer, copies, givenUp, killed>>
      PROVE  NothingLeftBehind'
  BY <1>1 DEF NothingLeftBehind
<1>2. CASE Publish
  BY <1>2, PublishStep DEF NothingLeftBehind
<1>3. CASE Seed \/ EmitOne
  BY <1>1, <1>3, DraftStep
<1>4. CASE Start \/ Stop \/ Close
  BY <1>1, <1>4 DEF Start, Stop, Close, client
<1>5. CASE Kill
  BY <1>5 DEF Kill, NothingLeftBehind, RunsInv
<1>6. CASE \E i \in buffer : Deliver(i) \/ DeliverUnacknowledged(i) \/ GiveUp(i)
  BY <1>6, SenderStepFrame DEF NothingLeftBehind
<1>7. CASE UNCHANGED vars
  BY <1>1, <1>7 DEF vars, client
<1> QED BY <1>2, <1>3, <1>4, <1>5, <1>6, <1>7 DEF Next

-----------------------------------------------------------------------------
(* The theorems.                                                           *)

\* The invariant holds at first ...
LEMMA InitProducer == Init => ProducerInv
<1> SUFFICES ASSUME Init PROVE ProducerInv
  OBVIOUS
<1>1. DOMAIN sent = {} /\ sent \in Seq(Sends) /\ Len(sent) = 0
  BY DEF Init
<1>2. copies \in Seq(0..MaxCopies) /\ Len(copies) = 0
  BY DEF Init
<1>3. TypeOK
  BY <1>1, <1>2, ProducerAssumption DEF Init, TypeOK, FirstId
<1> QED BY <1>1, <1>3 DEF Init, ProducerInv, DraftInv, RunsInv, RegistryInv, AnnouncedInv,
                          Running, OnePersonPerRun, FollowsInv, NothingLeftBehind

\* ... and always.
LEMMA ProducerInvariant == Spec => []ProducerInv
<1>1. ProducerInv /\ [Next]_vars => ProducerInv'
  <2> SUFFICES ASSUME ProducerInv, [Next]_vars PROVE ProducerInv'
    OBVIOUS
  <2>1. TypeOK'
    BY TypeStep DEF ProducerInv
  <2> QED BY <2>1, DraftInvStep, RunsStep, RegistryStep, AnnouncedStep, OnePersonStep,
             FollowsStep, LeftBehindStep DEF ProducerInv
<1> QED BY <1>1, InitProducer, PTL DEF Spec

\* The announcement an event's subscriber needs was sent, and is accounted for.
LEMMA Accounted == ProducerInv => UnknownExplained
<1> SUFFICES ASSUME ProducerInv, NEW i \in DOMAIN sent,
                    sent[i].id \notin {NoOne, UnknownSubscriber}
             PROVE  \E j \in 1..i : /\ sent[j].announces /\ sent[j].id = sent[i].id
                                    /\ sent[j].run = sent[i].run
                                    /\ \/ copies[j] > 0
                                       \/ j \in buffer \cup givenUp
                                       \/ sent[j].run \in killed
  BY DEF UnknownExplained
<1>1. PICK j \in 1..i : /\ sent[j].announces /\ sent[j].id = sent[i].id
                        /\ sent[j].run = sent[i].run
  BY DEF ProducerInv, FollowsInv
<1>2. j \in DOMAIN sent
  BY DEF ProducerInv, TypeOK
<1> QED BY <1>1, <1>2 DEF ProducerInv, NothingLeftBehind

\* Every variable of the producer keeps its type.
THEOREM TypeCorrect == Spec => []TypeOK
BY ProducerInvariant, PTL DEF ProducerInv

\* However many runs, kills and spoilt events there are: one run never announces
\* an id or an msisdn twice.
THEOREM OnePerson == Spec => []OnePersonPerRun
BY ProducerInvariant, PTL DEF ProducerInv

\* An event that was handed to the client is on its topic, given up, still
\* buffered, or of a run that was killed: a run that closed left nothing behind.
THEOREM NothingLeft == Spec => []NothingLeftBehind
BY ProducerInvariant, PTL DEF ProducerInv

\* Every event that names a subscriber follows the announcement of that
\* subscriber, and what became of the announcement is known.
THEOREM Explained == Spec => []UnknownExplained
BY ProducerInvariant, Accounted, PTL

-----------------------------------------------------------------------------
(* The rules and the fields of each event type.                            *)

\* An event violates no rule if the common one and those of its type hold.
LEMMA NoViolations ==
    ASSUME NEW type, NEW e, NEW now
    PROVE  Violations(type, e, now) = {} <=>
              /\ InstantOK(e.timestamp, now)
              /\ \A rule \in DOMAIN DomainRules(type, e) : DomainRules(type, e)[rule]
BY DEF Violations

\* The rules of an announcement, spelt out.
LEMMA SubscriberRules ==
    ASSUME NEW e, NEW now
    PROVE  Violations("subscriber_created", e, now) = {} <=>
              /\ InstantOK(e.timestamp, now)
              /\ MsisdnOK(e.msisdn)
              /\ e.plan.val \in PLANS
              /\ e.province.val \in PROVINCES
<1> DEFINE rules == DomainRules("subscriber_created", e)
<1>1. rules = [msisdn_format |-> MsisdnOK(e.msisdn),
               plan_known |-> e.plan.val \in PLANS,
               province_known |-> e.province.val \in PROVINCES]
  BY DEF DomainRules
<1>2. DOMAIN rules = {"msisdn_format", "plan_known", "province_known"}
  BY <1>1
<1>3. rules["msisdn_format"] = (MsisdnOK(e.msisdn))
  BY <1>1
<1>4. rules["plan_known"] = (e.plan.val \in PLANS)
  BY <1>1
<1>5. rules["province_known"] = (e.province.val \in PROVINCES)
  BY <1>1
<1>6. (\A rule \in DOMAIN rules : rules[rule])
          <=> rules["msisdn_format"] /\ rules["plan_known"] /\ rules["province_known"]
  BY <1>2, Zenon
<1> QED BY <1>3, <1>4, <1>5, <1>6, NoViolations

\* The rules of an airtime purchase, spelt out.
LEMMA AirtimeRules ==
    ASSUME NEW e, NEW now
    PROVE  Violations("airtime_purchase", e, now) = {} <=>
              /\ InstantOK(e.timestamp, now)
              /\ Float(e.amount) > 0
              /\ Float(e.amount) <= MAX_RECHARGE
              /\ e.payment_method.val \in PAYMENT_METHODS
<1> DEFINE rules == DomainRules("airtime_purchase", e)
<1>1. rules = [amount_positive |-> Float(e.amount) > 0,
               amount_within_limit |-> Float(e.amount) <= MAX_RECHARGE,
               payment_method_known |-> e.payment_method.val \in PAYMENT_METHODS]
  BY DEF DomainRules
<1>2. DOMAIN rules = {"amount_positive", "amount_within_limit", "payment_method_known"}
  BY <1>1
<1>3. rules["amount_positive"] = (Float(e.amount) > 0)
  BY <1>1
<1>4. rules["amount_within_limit"] = (Float(e.amount) <= MAX_RECHARGE)
  BY <1>1
<1>5. rules["payment_method_known"] = (e.payment_method.val \in PAYMENT_METHODS)
  BY <1>1
<1>6. (\A rule \in DOMAIN rules : rules[rule])
          <=> rules["amount_positive"] /\ rules["amount_within_limit"] /\ rules["payment_method_known"]
  BY <1>2, Zenon
<1> QED BY <1>3, <1>4, <1>5, <1>6, NoViolations

\* The rules of a bundle purchase, spelt out.
LEMMA BundleRules ==
    ASSUME NEW e, NEW now
    PROVE  Violations("bundle_purchase", e, now) = {} <=>
              /\ InstantOK(e.timestamp, now)
              /\ e.bundle_code.val \in DOMAIN BUNDLE_PRICES
              /\ e.bundle_code.val \in DOMAIN BUNDLE_PRICES
              /\ Float(e.price) = BUNDLE_PRICES[e.bundle_code.val]
<1> DEFINE rules == DomainRules("bundle_purchase", e)
<1>1. rules = [bundle_exists |-> e.bundle_code.val \in DOMAIN BUNDLE_PRICES,
               price_matches_catalog |->
                   e.bundle_code.val \in DOMAIN BUNDLE_PRICES
                     /\ Float(e.price) = BUNDLE_PRICES[e.bundle_code.val]]
  BY DEF DomainRules
<1>2. DOMAIN rules = {"bundle_exists", "price_matches_catalog"}
  BY <1>1
<1>3. rules["bundle_exists"] = (e.bundle_code.val \in DOMAIN BUNDLE_PRICES)
  BY <1>1
<1>4. rules["price_matches_catalog"] =
          (e.bundle_code.val \in DOMAIN BUNDLE_PRICES
             /\ Float(e.price) = BUNDLE_PRICES[e.bundle_code.val])
  BY <1>1
<1>5. (\A rule \in DOMAIN rules : rules[rule]) <=> rules["bundle_exists"] /\ rules["price_matches_catalog"]
  BY <1>2, Zenon
<1> QED BY <1>3, <1>4, <1>5, NoViolations

\* The rules of a voice call, spelt out.
LEMMA CallRules ==
    ASSUME NEW e, NEW now
    PROVE  Violations("voice_call", e, now) = {} <=>
              /\ InstantOK(e.timestamp, now)
              /\ NotNegative(e.duration_seconds)
              /\ e.duration_seconds.val <= MAX_CALL_SECONDS
              /\ KnownTower(e.tower_id)
              /\ MsisdnOK(e.receiver_msisdn)
<1> DEFINE rules == DomainRules("voice_call", e)
<1>1. rules = [duration_not_negative |-> NotNegative(e.duration_seconds),
               duration_within_limit |-> e.duration_seconds.val <= MAX_CALL_SECONDS,
               tower_exists |-> KnownTower(e.tower_id),
               receiver_msisdn_format |-> MsisdnOK(e.receiver_msisdn)]
  BY DEF DomainRules
<1>2. DOMAIN rules
          = {"duration_not_negative", "duration_within_limit", "tower_exists", "receiver_msisdn_format"}
  BY <1>1
<1>3. rules["duration_not_negative"] = (NotNegative(e.duration_seconds))
  BY <1>1
<1>4. rules["duration_within_limit"] = (e.duration_seconds.val <= MAX_CALL_SECONDS)
  BY <1>1
<1>5. rules["tower_exists"] = (KnownTower(e.tower_id))
  BY <1>1
<1>6. rules["receiver_msisdn_format"] = (MsisdnOK(e.receiver_msisdn))
  BY <1>1
<1>7. (\A rule \in DOMAIN rules : rules[rule])
          <=> rules["duration_not_negative"] /\ rules["duration_within_limit"] /\ rules["tower_exists"] /\
              rules["receiver_msisdn_format"]
  BY <1>2, Zenon
<1> QED BY <1>3, <1>4, <1>5, <1>6, <1>7, NoViolations

\* The rules of an sms, spelt out.
LEMMA SmsRules ==
    ASSUME NEW e, NEW now
    PROVE  Violations("sms", e, now) = {} <=>
              /\ InstantOK(e.timestamp, now)
              /\ e.length.val >= 1
              /\ e.length.val <= MAX_SMS_LENGTH
              /\ MsisdnOK(e.receiver_msisdn)
<1> DEFINE rules == DomainRules("sms", e)
<1>1. rules = [length_positive |-> e.length.val >= 1,
               length_within_limit |-> e.length.val <= MAX_SMS_LENGTH,
               receiver_msisdn_format |-> MsisdnOK(e.receiver_msisdn)]
  BY DEF DomainRules
<1>2. DOMAIN rules = {"length_positive", "length_within_limit", "receiver_msisdn_format"}
  BY <1>1
<1>3. rules["length_positive"] = (e.length.val >= 1)
  BY <1>1
<1>4. rules["length_within_limit"] = (e.length.val <= MAX_SMS_LENGTH)
  BY <1>1
<1>5. rules["receiver_msisdn_format"] = (MsisdnOK(e.receiver_msisdn))
  BY <1>1
<1>6. (\A rule \in DOMAIN rules : rules[rule])
          <=> rules["length_positive"] /\ rules["length_within_limit"] /\ rules["receiver_msisdn_format"]
  BY <1>2, Zenon
<1> QED BY <1>3, <1>4, <1>5, <1>6, NoViolations

\* The rules of a data session, spelt out.
LEMMA SessionRules ==
    ASSUME NEW e, NEW now
    PROVE  Violations("data_usage", e, now) = {} <=>
              /\ InstantOK(e.timestamp, now)
              /\ Float(e.mb_used) > 0
              /\ Float(e.mb_used) <= MAX_SESSION_MB
              /\ e.session_seconds.val > 0
              /\ KnownTower(e.tower_id)
              /\ e.technology.val \in TECHNOLOGIES
<1> DEFINE rules == DomainRules("data_usage", e)
<1>1. rules = [volume_positive |-> Float(e.mb_used) > 0,
               volume_within_limit |-> Float(e.mb_used) <= MAX_SESSION_MB,
               session_positive |-> e.session_seconds.val > 0,
               tower_exists |-> KnownTower(e.tower_id),
               technology_known |-> e.technology.val \in TECHNOLOGIES]
  BY DEF DomainRules
<1>2. DOMAIN rules
          = {"volume_positive", "volume_within_limit", "session_positive", "tower_exists",
             "technology_known"}
  BY <1>1
<1>3. rules["volume_positive"] = (Float(e.mb_used) > 0)
  BY <1>1
<1>4. rules["volume_within_limit"] = (Float(e.mb_used) <= MAX_SESSION_MB)
  BY <1>1
<1>5. rules["session_positive"] = (e.session_seconds.val > 0)
  BY <1>1
<1>6. rules["tower_exists"] = (KnownTower(e.tower_id))
  BY <1>1
<1>7. rules["technology_known"] = (e.technology.val \in TECHNOLOGIES)
  BY <1>1
<1>8. (\A rule \in DOMAIN rules : rules[rule])
          <=> rules["volume_positive"] /\ rules["volume_within_limit"] /\ rules["session_positive"] /\
              rules["tower_exists"] /\ rules["technology_known"]
  BY <1>2, Zenon
<1> QED BY <1>3, <1>4, <1>5, <1>6, <1>7, <1>8, NoViolations

\* The rules of a tower status, spelt out.
LEMMA StatusRules ==
    ASSUME NEW e, NEW now
    PROVE  Violations("tower_status", e, now) = {} <=>
              /\ InstantOK(e.timestamp, now)
              /\ e.signal_strength.val \in 0..100
              /\ NotNegative(e.connected_devices)
              /\ KnownTower(e.tower_id)
              /\ e.status.val \in TOWER_STATUSES
<1> DEFINE rules == DomainRules("tower_status", e)
<1>1. rules = [signal_in_range |-> e.signal_strength.val \in 0..100,
               devices_not_negative |-> NotNegative(e.connected_devices),
               tower_exists |-> KnownTower(e.tower_id),
               status_known |-> e.status.val \in TOWER_STATUSES]
  BY DEF DomainRules
<1>2. DOMAIN rules = {"signal_in_range", "devices_not_negative", "tower_exists", "status_known"}
  BY <1>1
<1>3. rules["signal_in_range"] = (e.signal_strength.val \in 0..100)
  BY <1>1
<1>4. rules["devices_not_negative"] = (NotNegative(e.connected_devices))
  BY <1>1
<1>5. rules["tower_exists"] = (KnownTower(e.tower_id))
  BY <1>1
<1>6. rules["status_known"] = (e.status.val \in TOWER_STATUSES)
  BY <1>1
<1>7. (\A rule \in DOMAIN rules : rules[rule])
          <=> rules["signal_in_range"] /\ rules["devices_not_negative"] /\ rules["tower_exists"] /\
              rules["status_known"]
  BY <1>2, Zenon
<1> QED BY <1>3, <1>4, <1>5, <1>6, <1>7, NoViolations

\* The fields of an announcement.
LEMMA SubscriberFields ==
    /\ DOMAIN Fields("subscriber_created")
           = {"subscriber_id", "msisdn", "plan", "province"} \cup EnvelopeFields
    /\ Fields("subscriber_created").subscriber_id = "int"
    /\ Fields("subscriber_created").msisdn = "str"
    /\ Fields("subscriber_created").plan = "str"
    /\ Fields("subscriber_created").province = "str"
    /\ Fields("subscriber_created").event_id = "str"
    /\ Fields("subscriber_created").event_type = "str"
    /\ Fields("subscriber_created").timestamp = "str"
    /\ Fields("subscriber_created").schema_version = "int"
<1>1. EVENT_FIELDS["subscriber_created"]
          = [subscriber_id |-> "int", msisdn |-> "str", plan |-> "str", province |-> "str"]
  BY DEF EVENT_FIELDS
<1>2. Fields("subscriber_created")
          = [f \in DOMAIN EVENT_FIELDS["subscriber_created"] \cup DOMAIN ENVELOPE_FIELDS |->
          IF f \in DOMAIN EVENT_FIELDS["subscriber_created"] THEN EVENT_FIELDS["subscriber_created"][f]
            ELSE ENVELOPE_FIELDS[f]]
  BY DEF Fields, Merged
<1> QED BY <1>1, <1>2 DEF ENVELOPE_FIELDS, EnvelopeFields

\* The fields of an airtime purchase.
LEMMA AirtimeFields ==
    /\ DOMAIN Fields("airtime_purchase") = {"subscriber_id", "amount", "payment_method"} \cup EnvelopeFields
    /\ Fields("airtime_purchase").subscriber_id = "int"
    /\ Fields("airtime_purchase").amount = "float"
    /\ Fields("airtime_purchase").payment_method = "str"
    /\ Fields("airtime_purchase").event_id = "str"
    /\ Fields("airtime_purchase").event_type = "str"
    /\ Fields("airtime_purchase").timestamp = "str"
    /\ Fields("airtime_purchase").schema_version = "int"
<1>1. EVENT_FIELDS["airtime_purchase"]
          = [subscriber_id |-> "int", amount |-> "float", payment_method |-> "str"]
  BY DEF EVENT_FIELDS
<1>2. Fields("airtime_purchase")
          = [f \in DOMAIN EVENT_FIELDS["airtime_purchase"] \cup DOMAIN ENVELOPE_FIELDS |->
          IF f \in DOMAIN EVENT_FIELDS["airtime_purchase"] THEN EVENT_FIELDS["airtime_purchase"][f]
            ELSE ENVELOPE_FIELDS[f]]
  BY DEF Fields, Merged
<1> QED BY <1>1, <1>2 DEF ENVELOPE_FIELDS, EnvelopeFields

\* The fields of a bundle purchase.
LEMMA BundleFields ==
    /\ DOMAIN Fields("bundle_purchase") = {"subscriber_id", "bundle_code", "price"} \cup EnvelopeFields
    /\ Fields("bundle_purchase").subscriber_id = "int"
    /\ Fields("bundle_purchase").bundle_code = "str"
    /\ Fields("bundle_purchase").price = "float"
    /\ Fields("bundle_purchase").event_id = "str"
    /\ Fields("bundle_purchase").event_type = "str"
    /\ Fields("bundle_purchase").timestamp = "str"
    /\ Fields("bundle_purchase").schema_version = "int"
<1>1. EVENT_FIELDS["bundle_purchase"] = [subscriber_id |-> "int", bundle_code |-> "str", price |-> "float"]
  BY DEF EVENT_FIELDS
<1>2. Fields("bundle_purchase")
          = [f \in DOMAIN EVENT_FIELDS["bundle_purchase"] \cup DOMAIN ENVELOPE_FIELDS |->
          IF f \in DOMAIN EVENT_FIELDS["bundle_purchase"] THEN EVENT_FIELDS["bundle_purchase"][f]
            ELSE ENVELOPE_FIELDS[f]]
  BY DEF Fields, Merged
<1> QED BY <1>1, <1>2 DEF ENVELOPE_FIELDS, EnvelopeFields

\* The fields of a voice call.
LEMMA CallFields ==
    /\ DOMAIN Fields("voice_call")
           = {"caller_id", "receiver_msisdn", "duration_seconds", "tower_id", "dropped"} \cup EnvelopeFields
    /\ Fields("voice_call").caller_id = "int"
    /\ Fields("voice_call").receiver_msisdn = "str"
    /\ Fields("voice_call").duration_seconds = "int"
    /\ Fields("voice_call").tower_id = "str"
    /\ Fields("voice_call").dropped = "bool"
    /\ Fields("voice_call").event_id = "str"
    /\ Fields("voice_call").event_type = "str"
    /\ Fields("voice_call").timestamp = "str"
    /\ Fields("voice_call").schema_version = "int"
<1>1. EVENT_FIELDS["voice_call"]
          = [caller_id |-> "int", receiver_msisdn |-> "str", duration_seconds |-> "int",
             tower_id |-> "str", dropped |-> "bool"]
  BY DEF EVENT_FIELDS
<1>2. Fields("voice_call") = [f \in DOMAIN EVENT_FIELDS["voice_call"] \cup DOMAIN ENVELOPE_FIELDS |->
          IF f \in DOMAIN EVENT_FIELDS["voice_call"] THEN EVENT_FIELDS["voice_call"][f]
            ELSE ENVELOPE_FIELDS[f]]
  BY DEF Fields, Merged
<1> QED BY <1>1, <1>2 DEF ENVELOPE_FIELDS, EnvelopeFields

\* The fields of an sms.
LEMMA SmsFields ==
    /\ DOMAIN Fields("sms") = {"sender_id", "receiver_msisdn", "length"} \cup EnvelopeFields
    /\ Fields("sms").sender_id = "int"
    /\ Fields("sms").receiver_msisdn = "str"
    /\ Fields("sms").length = "int"
    /\ Fields("sms").event_id = "str"
    /\ Fields("sms").event_type = "str"
    /\ Fields("sms").timestamp = "str"
    /\ Fields("sms").schema_version = "int"
<1>1. EVENT_FIELDS["sms"] = [sender_id |-> "int", receiver_msisdn |-> "str", length |-> "int"]
  BY DEF EVENT_FIELDS
<1>2. Fields("sms") = [f \in DOMAIN EVENT_FIELDS["sms"] \cup DOMAIN ENVELOPE_FIELDS |->
          IF f \in DOMAIN EVENT_FIELDS["sms"] THEN EVENT_FIELDS["sms"][f]
            ELSE ENVELOPE_FIELDS[f]]
  BY DEF Fields, Merged
<1> QED BY <1>1, <1>2 DEF ENVELOPE_FIELDS, EnvelopeFields

\* The fields of a data session.
LEMMA SessionFields ==
    /\ DOMAIN Fields("data_usage")
           = {"subscriber_id", "mb_used", "session_seconds", "tower_id", "technology"} \cup EnvelopeFields
    /\ Fields("data_usage").subscriber_id = "int"
    /\ Fields("data_usage").mb_used = "float"
    /\ Fields("data_usage").session_seconds = "int"
    /\ Fields("data_usage").tower_id = "str"
    /\ Fields("data_usage").technology = "str"
    /\ Fields("data_usage").event_id = "str"
    /\ Fields("data_usage").event_type = "str"
    /\ Fields("data_usage").timestamp = "str"
    /\ Fields("data_usage").schema_version = "int"
<1>1. EVENT_FIELDS["data_usage"]
          = [subscriber_id |-> "int", mb_used |-> "float", session_seconds |-> "int", tower_id |-> "str",
             technology |-> "str"]
  BY DEF EVENT_FIELDS
<1>2. Fields("data_usage") = [f \in DOMAIN EVENT_FIELDS["data_usage"] \cup DOMAIN ENVELOPE_FIELDS |->
          IF f \in DOMAIN EVENT_FIELDS["data_usage"] THEN EVENT_FIELDS["data_usage"][f]
            ELSE ENVELOPE_FIELDS[f]]
  BY DEF Fields, Merged
<1> QED BY <1>1, <1>2 DEF ENVELOPE_FIELDS, EnvelopeFields

\* The fields of a tower status.
LEMMA StatusFields ==
    /\ DOMAIN Fields("tower_status")
           = {"tower_id", "technology", "signal_strength", "connected_devices", "status"} \cup
               EnvelopeFields
    /\ Fields("tower_status").tower_id = "str"
    /\ Fields("tower_status").technology = "str"
    /\ Fields("tower_status").signal_strength = "int"
    /\ Fields("tower_status").connected_devices = "int"
    /\ Fields("tower_status").status = "str"
    /\ Fields("tower_status").event_id = "str"
    /\ Fields("tower_status").event_type = "str"
    /\ Fields("tower_status").timestamp = "str"
    /\ Fields("tower_status").schema_version = "int"
<1>1. EVENT_FIELDS["tower_status"]
          = [tower_id |-> "str", technology |-> "str", signal_strength |-> "int",
             connected_devices |-> "int", status |-> "str"]
  BY DEF EVENT_FIELDS
<1>2. Fields("tower_status") = [f \in DOMAIN EVENT_FIELDS["tower_status"] \cup DOMAIN ENVELOPE_FIELDS |->
          IF f \in DOMAIN EVENT_FIELDS["tower_status"] THEN EVENT_FIELDS["tower_status"][f]
            ELSE ENVELOPE_FIELDS[f]]
  BY DEF Fields, Merged
<1> QED BY <1>1, <1>2 DEF ENVELOPE_FIELDS, EnvelopeFields

-----------------------------------------------------------------------------
(* Stream, contracts, tables and suites, on any event of integral numbers.  *)

\* What the rules compute with is a number.
Numeric(type, e) ==
    /\ e.timestamp.val.at \in Int
    /\ \A f \in DOMAIN Fields(type) : Fields(type)[f] \in {"int", "float"} => e[f].val \in Int

\* Whom an event names, by its type.
LEMMA NamedByType ==
    ASSUME NEW type \in EventTypes, NEW e, DOMAIN e = DOMAIN Fields(type)
    PROVE  Named(e) =
             CASE type \in {"subscriber_created", "airtime_purchase", "bundle_purchase", "data_usage"}
                     -> e.subscriber_id.val
                        [] type = "voice_call" -> e.caller_id.val
                        [] type = "sms" -> e.sender_id.val
                        [] type = "tower_status" -> NoOne

<1>1. CASE type = "subscriber_created"
  <2>1. DOMAIN e \cap Namers = {"subscriber_id"}
    BY <1>1, SubscriberFields DEF Namers, EnvelopeFields
  <2> QED BY <1>1, <2>1, NamedBy
<1>2. CASE type = "airtime_purchase"
  <2>1. DOMAIN e \cap Namers = {"subscriber_id"}
    BY <1>2, AirtimeFields DEF Namers, EnvelopeFields
  <2> QED BY <1>2, <2>1, NamedBy
<1>3. CASE type = "bundle_purchase"
  <2>1. DOMAIN e \cap Namers = {"subscriber_id"}
    BY <1>3, BundleFields DEF Namers, EnvelopeFields
  <2> QED BY <1>3, <2>1, NamedBy
<1>4. CASE type = "voice_call"
  <2>1. DOMAIN e \cap Namers = {"caller_id"}
    BY <1>4, CallFields DEF Namers, EnvelopeFields
  <2> QED BY <1>4, <2>1, NamedBy
<1>5. CASE type = "sms"
  <2>1. DOMAIN e \cap Namers = {"sender_id"}
    BY <1>5, SmsFields DEF Namers, EnvelopeFields
  <2> QED BY <1>5, <2>1, NamedBy
<1>6. CASE type = "data_usage"
  <2>1. DOMAIN e \cap Namers = {"subscriber_id"}
    BY <1>6, SessionFields DEF Namers, EnvelopeFields
  <2> QED BY <1>6, <2>1, NamedBy
<1>7. CASE type = "tower_status"
  <2>1. DOMAIN e \cap Namers = {}
    BY <1>7, StatusFields DEF Namers, EnvelopeFields
  <2> QED BY <1>7, <2>1, NamedBy
<1> QED BY <1>1, <1>2, <1>3, <1>4, <1>5, <1>6, <1>7, EventTypesAre

\* The envelope's fields of any type.
LEMMA EnvelopeOf ==
    ASSUME NEW type \in EventTypes
    PROVE  /\ EnvelopeFields \subseteq DOMAIN Fields(type)
           /\ Fields(type).event_id = "str" /\ Fields(type).event_type = "str"
           /\ Fields(type).timestamp = "str" /\ Fields(type).schema_version = "int"
BY EventTypesAre, SubscriberFields, AirtimeFields, BundleFields, CallFields, SmsFields, SessionFields,
   StatusFields

\* The stream's fields and the contracts' columns are the same.
LEMMA SameFields ==
    ASSUME NEW type \in EventTypes
    PROVE  FrameColumns(type) = Fields(type)
<1>1. BodyColumns(type) = EVENT_FIELDS[type]
  <2>1. BodyColumns("subscriber_created") = EVENT_FIELDS["subscriber_created"]
    BY DEF BodyColumns, EVENT_FIELDS
  <2>2. BodyColumns("airtime_purchase") = EVENT_FIELDS["airtime_purchase"]
    BY DEF BodyColumns, EVENT_FIELDS
  <2>3. BodyColumns("bundle_purchase") = EVENT_FIELDS["bundle_purchase"]
    BY DEF BodyColumns, EVENT_FIELDS
  <2>4. BodyColumns("voice_call") = EVENT_FIELDS["voice_call"]
    BY DEF BodyColumns, EVENT_FIELDS
  <2>5. BodyColumns("sms") = EVENT_FIELDS["sms"]
    BY DEF BodyColumns, EVENT_FIELDS
  <2>6. BodyColumns("data_usage") = EVENT_FIELDS["data_usage"]
    BY DEF BodyColumns, EVENT_FIELDS
  <2>7. BodyColumns("tower_status") = EVENT_FIELDS["tower_status"]
    BY DEF BodyColumns, EVENT_FIELDS
  <2> QED BY <2>1, <2>2, <2>3, <2>4, <2>5, <2>6, <2>7, EventTypesAre
<1>2. EnvelopeColumns = ENVELOPE_FIELDS
  BY DEF EnvelopeColumns, ENVELOPE_FIELDS
<1> QED BY <1>1, <1>2 DEF FrameColumns, Fields

\* But for the gaps, a structure and an envelope right to the stream are right to the
\* contracts ...
LEMMA StreamStructure ==
    ASSUME NEW type \in EventTypes, NEW e, NEW now, Numeric(type, e),
           Conforms(type, e), InstantOK(e.timestamp, now), ~StreamLenient(type, e)
    PROVE  /\ DOMAIN e = DOMAIN FrameColumns(type)
           /\ \A f \in DOMAIN e : HasDtype(e[f], FrameColumns(type)[f])
           /\ Envelope(type, e, now)
<1>1. DOMAIN e = DOMAIN Fields(type) /\ \A f \in DOMAIN e : HasType(e[f], Fields(type)[f])
  BY DEF Conforms
<1>2. \A f \in DOMAIN e : /\ ~(Fields(type)[f] = "float" /\ e[f].type = "int")
                          /\ e[f].type = "int" => Int64(e[f])
  BY DEF StreamLenient
<1>3. \A f \in DOMAIN e : HasDtype(e[f], Fields(type)[f])
  BY <1>1, <1>2 DEF HasType, HasDtype
<1>4. UuidOK(e.event_id) /\ e.event_type.val = type /\ ~(e.schema_version.val < 1)
  BY DEF StreamLenient
<1>5. e.schema_version.val \in Int
  BY EnvelopeOf DEF Numeric, EnvelopeFields
<1>6. e.schema_version.val >= 1
  BY <1>4, <1>5
<1>7. TimestampValid(e.timestamp, now)
  BY DEF StreamLenient, InstantOK, PythonReads, TimestampValid, CLOCK_SKEW, CLOCK_SKEW_SECONDS
<1> QED BY <1>1, <1>3, <1>4, <1>6, <1>7, SameFields DEF Envelope

\* ... and conversely.
LEMMA ContractStructure ==
    ASSUME NEW type \in EventTypes, NEW e, NEW now, MeetsContract(type, e, now),
           ~ContractLenient(type, e)
    PROVE  Conforms(type, e) /\ InstantOK(e.timestamp, now)
<1>1. /\ DOMAIN e = DOMAIN Fields(type)
      /\ \A f \in DOMAIN e : e[f].type = Fields(type)[f]
  BY SameFields DEF MeetsContract, HasDtype
<1>2. InstantOK(e.timestamp, now)
  BY DEF MeetsContract, Envelope, TimestampValid, ContractLenient, InstantOK, PythonReads,
         CLOCK_SKEW, CLOCK_SKEW_SECONDS
<1> QED BY <1>1, <1>2 DEF Conforms, HasType

\* But for the gaps, an event that names someone names a subscriber's id.
LEMMA NamesSomeone ==
    ASSUME NEW type \in EventTypes \ {"tower_status"}, NEW e, Named(e) \in Int
    PROVE  StreamLenient(type, e) \/ Named(e) > 0
BY DEF StreamLenient

\* But for the gaps, what is an msisdn to one is one to the other.
LEMMA SameMsisdn ==
    ASSUME NEW type, NEW e, NEW f \in DOMAIN e \cap MsisdnColumns
    PROVE  /\ MsisdnOK(e[f]) => MatchesMsisdn(e[f]) \/ StreamLenient(type, e)
           /\ MatchesMsisdn(e[f]) => MsisdnOK(e[f]) \/ ContractLenient(type, e)
BY DEF MsisdnOK, MatchesMsisdn, StreamLenient, ContractLenient

\* The rules and the contract of an announcement agree, but for the gaps.
LEMMA SubscriberAgrees ==
    ASSUME NEW e, NEW now, Numeric("subscriber_created", e), DOMAIN e = DOMAIN Fields("subscriber_created"),
           \A f \in DOMAIN e : e[f].type = Fields("subscriber_created")[f]
    PROVE  /\ Violations("subscriber_created", e, now) = {} /\ ~StreamLenient("subscriber_created", e)
                => Columns("subscriber_created", e)
           /\ InstantOK(e.timestamp, now) /\ Columns("subscriber_created", e)
                /\ ~ContractLenient("subscriber_created", e)
                => Violations("subscriber_created", e, now) = {}
<1>1. e.subscriber_id.val \in Int
  BY SubscriberFields DEF Numeric
<1>2. Named(e) = e.subscriber_id.val
  BY NamedByType, EventTypesAre
<1>3. StreamLenient("subscriber_created", e) \/ e.subscriber_id.val > 0
  BY <1>1, <1>2, NamesSomeone, EventTypesAre
<1>4. "msisdn" \in DOMAIN e \cap MsisdnColumns
  BY SubscriberFields DEF MsisdnColumns
<1>5. /\ MsisdnOK(e.msisdn) => MatchesMsisdn(e.msisdn) \/ StreamLenient("subscriber_created", e)
      /\ MatchesMsisdn(e.msisdn) => MsisdnOK(e.msisdn) \/ ContractLenient("subscriber_created", e)
  BY <1>4, SameMsisdn
<1>6. Columns("subscriber_created", e) <=>
         /\ Positive(e.subscriber_id)
         /\ MatchesMsisdn(e.msisdn)
         /\ e.plan.val \in PLANS
         /\ e.province.val \in PROVINCES
  BY DEF Columns
<1>7. Violations("subscriber_created", e, now) = {} <=>
         /\ InstantOK(e.timestamp, now)
         /\ MsisdnOK(e.msisdn)
         /\ e.plan.val \in PLANS
         /\ e.province.val \in PROVINCES
  BY SubscriberRules
<1> QED BY <1>1, <1>3, <1>5, <1>6, <1>7
       DEF Positive

\* The rules and the contract of an airtime purchase agree, but for the gaps.
LEMMA AirtimeAgrees ==
    ASSUME NEW e, NEW now, Numeric("airtime_purchase", e), DOMAIN e = DOMAIN Fields("airtime_purchase"),
           \A f \in DOMAIN e : e[f].type = Fields("airtime_purchase")[f]
    PROVE  /\ Violations("airtime_purchase", e, now) = {} /\ ~StreamLenient("airtime_purchase", e)
                => Columns("airtime_purchase", e)
           /\ InstantOK(e.timestamp, now) /\ Columns("airtime_purchase", e)
                /\ ~ContractLenient("airtime_purchase", e)
                => Violations("airtime_purchase", e, now) = {}
<1>1. e.subscriber_id.val \in Int /\ e.amount.val \in Int
  BY AirtimeFields DEF Numeric
<1>2. Named(e) = e.subscriber_id.val
  BY NamedByType, EventTypesAre
<1>3. StreamLenient("airtime_purchase", e) \/ e.subscriber_id.val > 0
  BY <1>1, <1>2, NamesSomeone, EventTypesAre
<1>4. Float(e.amount) = e.amount.val
  BY AirtimeFields DEF Float
<1>5. Columns("airtime_purchase", e) <=>
         /\ Positive(e.subscriber_id)
         /\ Within(e.amount, 1, CONTRACT_RECHARGE)
         /\ e.payment_method.val \in PAYMENT_METHODS
  BY DEF Columns
<1>6. Violations("airtime_purchase", e, now) = {} <=>
         /\ InstantOK(e.timestamp, now)
         /\ Float(e.amount) > 0
         /\ Float(e.amount) <= MAX_RECHARGE
         /\ e.payment_method.val \in PAYMENT_METHODS
  BY AirtimeRules
<1> QED BY <1>1, <1>3, <1>4, <1>5, <1>6
       DEF Positive, Within, MAX_RECHARGE, CONTRACT_RECHARGE

\* The rules and the contract of a bundle purchase agree, but for the gaps.
LEMMA BundleAgrees ==
    ASSUME NEW e, NEW now, Numeric("bundle_purchase", e), DOMAIN e = DOMAIN Fields("bundle_purchase"),
           \A f \in DOMAIN e : e[f].type = Fields("bundle_purchase")[f]
    PROVE  /\ Violations("bundle_purchase", e, now) = {} /\ ~StreamLenient("bundle_purchase", e)
                => Columns("bundle_purchase", e)
           /\ InstantOK(e.timestamp, now) /\ Columns("bundle_purchase", e)
                /\ ~ContractLenient("bundle_purchase", e)
                => Violations("bundle_purchase", e, now) = {}
<1>1. e.subscriber_id.val \in Int /\ e.price.val \in Int
  BY BundleFields DEF Numeric
<1>2. Named(e) = e.subscriber_id.val
  BY NamedByType, EventTypesAre
<1>3. StreamLenient("bundle_purchase", e) \/ e.subscriber_id.val > 0
  BY <1>1, <1>2, NamesSomeone, EventTypesAre
<1>4. Float(e.price) = e.price.val
  BY BundleFields DEF Float
<1>5. Columns("bundle_purchase", e) <=>
         /\ Positive(e.subscriber_id)
         /\ Positive(e.price)
         /\ e.bundle_code.val \in DOMAIN BUNDLE_PRICES
  BY DEF Columns
<1>6. Violations("bundle_purchase", e, now) = {} <=>
         /\ InstantOK(e.timestamp, now)
         /\ e.bundle_code.val \in DOMAIN BUNDLE_PRICES
         /\ Float(e.price) = BUNDLE_PRICES[e.bundle_code.val]
  BY BundleRules
<1> QED BY <1>1, <1>3, <1>4, <1>5, <1>6, CatalogAssumption
       DEF Positive, ContractLenient

\* The rules and the contract of a voice call agree, but for the gaps.
LEMMA CallAgrees ==
    ASSUME NEW e, NEW now, Numeric("voice_call", e), DOMAIN e = DOMAIN Fields("voice_call"),
           \A f \in DOMAIN e : e[f].type = Fields("voice_call")[f]
    PROVE  /\ Violations("voice_call", e, now) = {} /\ ~StreamLenient("voice_call", e)
                => Columns("voice_call", e)
           /\ InstantOK(e.timestamp, now) /\ Columns("voice_call", e)
                /\ ~ContractLenient("voice_call", e)
                => Violations("voice_call", e, now) = {}
<1>1. e.caller_id.val \in Int /\ e.duration_seconds.val \in Int
  BY CallFields DEF Numeric
<1>2. Named(e) = e.caller_id.val
  BY NamedByType, EventTypesAre
<1>3. StreamLenient("voice_call", e) \/ e.caller_id.val > 0
  BY <1>1, <1>2, NamesSomeone, EventTypesAre
<1>4. "receiver_msisdn" \in DOMAIN e \cap MsisdnColumns
  BY CallFields DEF MsisdnColumns
<1>5. /\ MsisdnOK(e.receiver_msisdn) => MatchesMsisdn(e.receiver_msisdn) \/ StreamLenient("voice_call", e)
      /\ MatchesMsisdn(e.receiver_msisdn) => MsisdnOK(e.receiver_msisdn) \/ ContractLenient("voice_call", e)
  BY <1>4, SameMsisdn
<1>6. Columns("voice_call", e) <=>
         /\ Positive(e.caller_id)
         /\ MatchesMsisdn(e.receiver_msisdn)
         /\ Within(e.duration_seconds, 0, CONTRACT_CALL_SECONDS)
         /\ e.tower_id.val \in TOWER_IDS
  BY DEF Columns
<1>7. Violations("voice_call", e, now) = {} <=>
         /\ InstantOK(e.timestamp, now)
         /\ NotNegative(e.duration_seconds)
         /\ e.duration_seconds.val <= MAX_CALL_SECONDS
         /\ KnownTower(e.tower_id)
         /\ MsisdnOK(e.receiver_msisdn)
  BY CallRules
<1> QED BY <1>1, <1>3, <1>5, <1>6, <1>7
       DEF Positive, NotNegative, Within, KnownTower, MAX_CALL_SECONDS, CONTRACT_CALL_SECONDS

\* The rules and the contract of an sms agree, but for the gaps.
LEMMA SmsAgrees ==
    ASSUME NEW e, NEW now, Numeric("sms", e), DOMAIN e = DOMAIN Fields("sms"),
           \A f \in DOMAIN e : e[f].type = Fields("sms")[f]
    PROVE  /\ Violations("sms", e, now) = {} /\ ~StreamLenient("sms", e)
                => Columns("sms", e)
           /\ InstantOK(e.timestamp, now) /\ Columns("sms", e)
                /\ ~ContractLenient("sms", e)
                => Violations("sms", e, now) = {}
<1>1. e.sender_id.val \in Int /\ e.length.val \in Int
  BY SmsFields DEF Numeric
<1>2. Named(e) = e.sender_id.val
  BY NamedByType, EventTypesAre
<1>3. StreamLenient("sms", e) \/ e.sender_id.val > 0
  BY <1>1, <1>2, NamesSomeone, EventTypesAre
<1>4. "receiver_msisdn" \in DOMAIN e \cap MsisdnColumns
  BY SmsFields DEF MsisdnColumns
<1>5. /\ MsisdnOK(e.receiver_msisdn) => MatchesMsisdn(e.receiver_msisdn) \/ StreamLenient("sms", e)
      /\ MatchesMsisdn(e.receiver_msisdn) => MsisdnOK(e.receiver_msisdn) \/ ContractLenient("sms", e)
  BY <1>4, SameMsisdn
<1>6. Columns("sms", e) <=>
         /\ Positive(e.sender_id)
         /\ MatchesMsisdn(e.receiver_msisdn)
         /\ Within(e.length, 1, CONTRACT_SMS_LENGTH)
  BY DEF Columns
<1>7. Violations("sms", e, now) = {} <=>
         /\ InstantOK(e.timestamp, now)
         /\ e.length.val >= 1
         /\ e.length.val <= MAX_SMS_LENGTH
         /\ MsisdnOK(e.receiver_msisdn)
  BY SmsRules
<1> QED BY <1>1, <1>3, <1>5, <1>6, <1>7
       DEF Positive, Within, MAX_SMS_LENGTH, CONTRACT_SMS_LENGTH

\* The rules and the contract of a data session agree, but for the gaps.
LEMMA SessionAgrees ==
    ASSUME NEW e, NEW now, Numeric("data_usage", e), DOMAIN e = DOMAIN Fields("data_usage"),
           \A f \in DOMAIN e : e[f].type = Fields("data_usage")[f]
    PROVE  /\ Violations("data_usage", e, now) = {} /\ ~StreamLenient("data_usage", e)
                => Columns("data_usage", e)
           /\ InstantOK(e.timestamp, now) /\ Columns("data_usage", e)
                /\ ~ContractLenient("data_usage", e)
                => Violations("data_usage", e, now) = {}
<1>1. e.subscriber_id.val \in Int /\ e.mb_used.val \in Int /\ e.session_seconds.val \in Int
  BY SessionFields DEF Numeric
<1>2. Named(e) = e.subscriber_id.val
  BY NamedByType, EventTypesAre
<1>3. StreamLenient("data_usage", e) \/ e.subscriber_id.val > 0
  BY <1>1, <1>2, NamesSomeone, EventTypesAre
<1>4. Float(e.mb_used) = e.mb_used.val
  BY SessionFields DEF Float
<1>5. Columns("data_usage", e) <=>
         /\ Positive(e.subscriber_id)
         /\ Within(e.mb_used, 1, CONTRACT_SESSION_MB)
         /\ Positive(e.session_seconds)
         /\ e.tower_id.val \in TOWER_IDS
         /\ e.technology.val \in TECHNOLOGIES
  BY DEF Columns
<1>6. Violations("data_usage", e, now) = {} <=>
         /\ InstantOK(e.timestamp, now)
         /\ Float(e.mb_used) > 0
         /\ Float(e.mb_used) <= MAX_SESSION_MB
         /\ e.session_seconds.val > 0
         /\ KnownTower(e.tower_id)
         /\ e.technology.val \in TECHNOLOGIES
  BY SessionRules
<1> QED BY <1>1, <1>3, <1>4, <1>5, <1>6
       DEF Positive, Within, KnownTower, MAX_SESSION_MB, CONTRACT_SESSION_MB

\* The rules and the contract of a tower status agree, but for the gaps.
LEMMA StatusAgrees ==
    ASSUME NEW e, NEW now, Numeric("tower_status", e), DOMAIN e = DOMAIN Fields("tower_status"),
           \A f \in DOMAIN e : e[f].type = Fields("tower_status")[f]
    PROVE  /\ Violations("tower_status", e, now) = {} /\ ~StreamLenient("tower_status", e)
                => Columns("tower_status", e)
           /\ InstantOK(e.timestamp, now) /\ Columns("tower_status", e)
                /\ ~ContractLenient("tower_status", e)
                => Violations("tower_status", e, now) = {}
<1>1. e.signal_strength.val \in Int /\ e.connected_devices.val \in Int
  BY StatusFields DEF Numeric
<1>2. Columns("tower_status", e) <=>
         /\ e.tower_id.val \in TOWER_IDS
         /\ e.technology.val \in TECHNOLOGIES
         /\ Within(e.signal_strength, 0, 100)
         /\ e.connected_devices.val >= 0
         /\ e.status.val \in TOWER_STATUSES
  BY DEF Columns
<1>3. Violations("tower_status", e, now) = {} <=>
         /\ InstantOK(e.timestamp, now)
         /\ e.signal_strength.val \in 0..100
         /\ NotNegative(e.connected_devices)
         /\ KnownTower(e.tower_id)
         /\ e.status.val \in TOWER_STATUSES
  BY StatusRules
<1> QED BY <1>1, <1>2, <1>3
       DEF NotNegative, Within, KnownTower, StreamLenient

\* Of the columns that contracts and rules have in common, they say the same.
LEMMA ColumnsAgree ==
    ASSUME NEW type \in EventTypes, NEW e, NEW now, Numeric(type, e), DOMAIN e = DOMAIN Fields(type),
           \A f \in DOMAIN e : e[f].type = Fields(type)[f]
    PROVE  /\ Violations(type, e, now) = {} /\ ~StreamLenient(type, e) => Columns(type, e)
           /\ InstantOK(e.timestamp, now) /\ Columns(type, e) /\ ~ContractLenient(type, e)
                => Violations(type, e, now) = {}
BY EventTypesAre, SubscriberAgrees, AirtimeAgrees, BundleAgrees, CallAgrees, SmsAgrees, SessionAgrees,
   StatusAgrees

\* Every event of integral numbers the stream takes meets the contract, and conversely, but
\* for the gaps: at any clock reading, not only for neighbours of generated events.
LEMMA Agreement ==
    ASSUME NEW type \in EventTypes, NEW e, NEW now, Numeric(type, e)
    PROVE  /\ Accepted(type, e, now) => MeetsContract(type, e, now) \/ StreamLenient(type, e)
           /\ MeetsContract(type, e, now) => Accepted(type, e, now) \/ ContractLenient(type, e)
<1>1. ASSUME Accepted(type, e, now), ~StreamLenient(type, e)
      PROVE  MeetsContract(type, e, now)
  <2>1. Conforms(type, e) /\ Violations(type, e, now) = {} /\ InstantOK(e.timestamp, now)
    BY <1>1, NoViolations DEF Accepted
  <2>2. /\ DOMAIN e = DOMAIN FrameColumns(type)
        /\ \A f \in DOMAIN e : HasDtype(e[f], FrameColumns(type)[f])
        /\ Envelope(type, e, now)
    BY <1>1, <2>1, StreamStructure
  <2>3. DOMAIN e = DOMAIN Fields(type) /\ \A f \in DOMAIN e : e[f].type = Fields(type)[f]
    BY <2>2, SameFields DEF HasDtype
  <2>4. Columns(type, e)
    BY <1>1, <2>1, <2>3, ColumnsAgree
  <2> QED BY <2>2, <2>4 DEF MeetsContract
<1>2. ASSUME MeetsContract(type, e, now), ~ContractLenient(type, e)
      PROVE  Accepted(type, e, now)
  <2>1. Conforms(type, e) /\ InstantOK(e.timestamp, now)
    BY <1>2, ContractStructure
  <2>2. DOMAIN e = DOMAIN Fields(type) /\ \A f \in DOMAIN e : e[f].type = Fields(type)[f]
    BY <1>2, SameFields DEF MeetsContract, HasDtype
  <2>3. Violations(type, e, now) = {}
    BY <1>2, <2>1, <2>2, ColumnsAgree DEF MeetsContract
  <2> QED BY <2>1, <2>3 DEF Accepted
<1> QED BY <1>1, <1>2

\* A number the columns of 32 bits take, those of 64 take.
LEMMA FitsColumns ==
    ASSUME NEW v, v.val \in Int, 0 <= v.val, v.val <= INT_MAX
    PROVE  Int32(v) /\ Int64(v)
BY RangeAssumption DEF Int32, Int64

\* But for the gaps, whom an event names fits a column of 64 bits.
LEMMA NamerFits ==
    ASSUME NEW type, NEW e, NEW made, ~Unfit(type, e, made), NEW v, v.val \in Int, v.val = Named(e)
    PROVE  Int64(v)
BY RangeAssumption DEF Unfit, Int64

\* The row of an announcement the rules let through fits lake and table, but for the gaps.
LEMMA SubscriberFits ==
    ASSUME NEW e, NEW made, Numeric("subscriber_created", e), Accepted("subscriber_created", e, 0),
           ~Unfit("subscriber_created", e, made)
    PROVE  FitsLake("subscriber_created", e) /\ FitsTable("subscriber_created", e, made)
<1>1. DOMAIN e = DOMAIN Fields("subscriber_created")
  BY DEF Accepted, Conforms
<1>2. /\ MsisdnOK(e.msisdn)
      /\ e.plan.val \in PLANS
      /\ e.province.val \in PROVINCES
  BY SubscriberRules DEF Accepted
<1>3. /\ Int64(e.schema_version)
      /\ Int64(e.subscriber_id)
  <2>1. Int64(e.schema_version)
    BY DEF Unfit
  <2>2. e.subscriber_id.val \in Int
    BY SubscriberFields DEF Numeric
  <2>3. Named(e) = e.subscriber_id.val
    BY <1>1, NamedByType, EventTypesAre
  <2>4. Int64(e.subscriber_id)
    BY <2>2, <2>3, NamerFits
  <2> QED BY <2>1, <2>4
<1>4. FitsLake("subscriber_created", e)
  BY <1>1, <1>3, SubscriberFields DEF FitsLake, EnvelopeFields
<1>5. \A f \in DOMAIN e \cap IntColumns : Int32(e[f])
  BY <1>1, <1>3, SubscriberFields DEF IntColumns, EnvelopeFields
<1>6. \A f \in DOMAIN e \cap MsisdnColumns : Varchar11Fits(e[f])
  BY <1>1, <1>2, SubscriberFields DEF MsisdnColumns, MsisdnOK, Varchar11Fits, EnvelopeFields
<1>7. \A f \in DOMAIN EVENT_FIELDS["subscriber_created"] \ MsisdnColumns :
          EVENT_FIELDS["subscriber_created"][f] = "str" => VarcharFits(e[f])
  <2>1. EVENT_FIELDS["subscriber_created"]
            = [subscriber_id |-> "int", msisdn |-> "str", plan |-> "str", province |-> "str"]
    BY DEF EVENT_FIELDS
  <2>2. VarcharFits(e.plan) /\ VarcharFits(e.province)
    BY <1>2, CatalogAssumption DEF VarcharFits, PLANS, PROVINCES
  <2> QED BY <2>1, <2>2 DEF MsisdnColumns
<1>8. Seeded(e)
  BY <1>1, <1>2, SubscriberFields DEF Unfit, Seeded, KnownTower, EnvelopeFields
<1>9. UuidCasts(e.event_id) /\ Dated(e, made)
  BY DEF Unfit
<1> QED BY <1>3, <1>4, <1>5, <1>6, <1>7, <1>8, <1>9 DEF FitsTable

\* The row of an airtime purchase the rules let through fits lake and table, but for the gaps.
LEMMA AirtimeFits ==
    ASSUME NEW e, NEW made, Numeric("airtime_purchase", e), Accepted("airtime_purchase", e, 0),
           ~Unfit("airtime_purchase", e, made)
    PROVE  FitsLake("airtime_purchase", e) /\ FitsTable("airtime_purchase", e, made)
<1>1. DOMAIN e = DOMAIN Fields("airtime_purchase")
  BY DEF Accepted, Conforms
<1>2. /\ Float(e.amount) > 0
      /\ Float(e.amount) <= MAX_RECHARGE
      /\ e.payment_method.val \in PAYMENT_METHODS
  BY AirtimeRules DEF Accepted
<1>3. /\ Int64(e.schema_version)
      /\ Int64(e.subscriber_id)
  <2>1. Int64(e.schema_version)
    BY DEF Unfit
  <2>2. e.subscriber_id.val \in Int
    BY AirtimeFields DEF Numeric
  <2>3. Named(e) = e.subscriber_id.val
    BY <1>1, NamedByType, EventTypesAre
  <2>4. Int64(e.subscriber_id)
    BY <2>2, <2>3, NamerFits
  <2> QED BY <2>1, <2>4
<1>4. FitsLake("airtime_purchase", e)
  BY <1>1, <1>3, AirtimeFields DEF FitsLake, EnvelopeFields
<1>5. \A f \in DOMAIN e \cap IntColumns : Int32(e[f])
  BY <1>1, <1>3, AirtimeFields DEF IntColumns, EnvelopeFields
<1>6. \A f \in DOMAIN e \cap MsisdnColumns : Varchar11Fits(e[f])
  BY <1>1, <1>2, AirtimeFields DEF MsisdnColumns, MsisdnOK, Varchar11Fits, EnvelopeFields
<1>7. \A f \in DOMAIN EVENT_FIELDS["airtime_purchase"] \ MsisdnColumns :
          EVENT_FIELDS["airtime_purchase"][f] = "str" => VarcharFits(e[f])
  <2>1. EVENT_FIELDS["airtime_purchase"]
            = [subscriber_id |-> "int", amount |-> "float", payment_method |-> "str"]
    BY DEF EVENT_FIELDS
  <2>2. VarcharFits(e.payment_method)
    BY <1>2, CatalogAssumption DEF VarcharFits, PAYMENT_METHODS
  <2> QED BY <2>1, <2>2 DEF MsisdnColumns
<1>8. Seeded(e)
  BY <1>1, <1>2, AirtimeFields DEF Unfit, Seeded, KnownTower, EnvelopeFields
<1>9. UuidCasts(e.event_id) /\ Dated(e, made)
  BY DEF Unfit
<1> QED BY <1>3, <1>4, <1>5, <1>6, <1>7, <1>8, <1>9 DEF FitsTable

\* The row of a bundle purchase the rules let through fits lake and table, but for the gaps.
LEMMA BundleFits ==
    ASSUME NEW e, NEW made, Numeric("bundle_purchase", e), Accepted("bundle_purchase", e, 0),
           ~Unfit("bundle_purchase", e, made)
    PROVE  FitsLake("bundle_purchase", e) /\ FitsTable("bundle_purchase", e, made)
<1>1. DOMAIN e = DOMAIN Fields("bundle_purchase")
  BY DEF Accepted, Conforms
<1>2. /\ e.bundle_code.val \in DOMAIN BUNDLE_PRICES
      /\ Float(e.price) = BUNDLE_PRICES[e.bundle_code.val]
  BY BundleRules DEF Accepted
<1>3. /\ Int64(e.schema_version)
      /\ Int64(e.subscriber_id)
  <2>1. Int64(e.schema_version)
    BY DEF Unfit
  <2>2. e.subscriber_id.val \in Int
    BY BundleFields DEF Numeric
  <2>3. Named(e) = e.subscriber_id.val
    BY <1>1, NamedByType, EventTypesAre
  <2>4. Int64(e.subscriber_id)
    BY <2>2, <2>3, NamerFits
  <2> QED BY <2>1, <2>4
<1>4. FitsLake("bundle_purchase", e)
  BY <1>1, <1>3, BundleFields DEF FitsLake, EnvelopeFields
<1>5. \A f \in DOMAIN e \cap IntColumns : Int32(e[f])
  BY <1>1, <1>3, BundleFields DEF IntColumns, EnvelopeFields
<1>6. \A f \in DOMAIN e \cap MsisdnColumns : Varchar11Fits(e[f])
  BY <1>1, <1>2, BundleFields DEF MsisdnColumns, MsisdnOK, Varchar11Fits, EnvelopeFields
<1>7. \A f \in DOMAIN EVENT_FIELDS["bundle_purchase"] \ MsisdnColumns :
          EVENT_FIELDS["bundle_purchase"][f] = "str" => VarcharFits(e[f])
  <2>1. EVENT_FIELDS["bundle_purchase"]
            = [subscriber_id |-> "int", bundle_code |-> "str", price |-> "float"]
    BY DEF EVENT_FIELDS
  <2>2. VarcharFits(e.bundle_code)
    BY <1>2, CatalogAssumption DEF VarcharFits
  <2> QED BY <2>1, <2>2 DEF MsisdnColumns
<1>8. Seeded(e)
  BY <1>1, <1>2, BundleFields DEF Unfit, Seeded, KnownTower, EnvelopeFields
<1>9. UuidCasts(e.event_id) /\ Dated(e, made)
  BY DEF Unfit
<1> QED BY <1>3, <1>4, <1>5, <1>6, <1>7, <1>8, <1>9 DEF FitsTable

\* The row of a voice call the rules let through fits lake and table, but for the gaps.
LEMMA CallFits ==
    ASSUME NEW e, NEW made, Numeric("voice_call", e), Accepted("voice_call", e, 0),
           ~Unfit("voice_call", e, made)
    PROVE  FitsLake("voice_call", e) /\ FitsTable("voice_call", e, made)
<1>1. DOMAIN e = DOMAIN Fields("voice_call")
  BY DEF Accepted, Conforms
<1>2. /\ NotNegative(e.duration_seconds)
      /\ e.duration_seconds.val <= MAX_CALL_SECONDS
      /\ KnownTower(e.tower_id)
      /\ MsisdnOK(e.receiver_msisdn)
  BY CallRules DEF Accepted
<1>3. /\ Int64(e.schema_version)
      /\ Int64(e.caller_id)
      /\ Int32(e.duration_seconds) /\ Int64(e.duration_seconds)
  <2>1. Int64(e.schema_version)
    BY DEF Unfit
  <2>2. e.caller_id.val \in Int /\ e.duration_seconds.val \in Int
    BY CallFields DEF Numeric
  <2>3. Named(e) = e.caller_id.val
    BY <1>1, NamedByType, EventTypesAre
  <2>4. Int64(e.caller_id)
    BY <2>2, <2>3, NamerFits
  <2>5. 0 <= e.duration_seconds.val /\ e.duration_seconds.val <= INT_MAX
    BY <1>2, <2>2, RangeAssumption DEF MAX_CALL_SECONDS, NotNegative
  <2>6. Int32(e.duration_seconds) /\ Int64(e.duration_seconds)
    BY <2>2, <2>5, FitsColumns
  <2> QED BY <2>1, <2>4, <2>6
<1>4. FitsLake("voice_call", e)
  BY <1>1, <1>3, CallFields DEF FitsLake, EnvelopeFields
<1>5. \A f \in DOMAIN e \cap IntColumns : Int32(e[f])
  BY <1>1, <1>3, CallFields DEF IntColumns, EnvelopeFields
<1>6. \A f \in DOMAIN e \cap MsisdnColumns : Varchar11Fits(e[f])
  BY <1>1, <1>2, CallFields DEF MsisdnColumns, MsisdnOK, Varchar11Fits, EnvelopeFields
<1>7. \A f \in DOMAIN EVENT_FIELDS["voice_call"] \ MsisdnColumns :
          EVENT_FIELDS["voice_call"][f] = "str" => VarcharFits(e[f])
  <2>1. EVENT_FIELDS["voice_call"]
            = [caller_id |-> "int", receiver_msisdn |-> "str", duration_seconds |-> "int",
               tower_id |-> "str", dropped |-> "bool"]
    BY DEF EVENT_FIELDS
  <2>2. VarcharFits(e.tower_id)
    BY <1>2, CatalogAssumption DEF VarcharFits, KnownTower
  <2> QED BY <2>1, <2>2 DEF MsisdnColumns
<1>8. Seeded(e)
  BY <1>1, <1>2, CallFields DEF Unfit, Seeded, KnownTower, EnvelopeFields
<1>9. UuidCasts(e.event_id) /\ Dated(e, made)
  BY DEF Unfit
<1> QED BY <1>3, <1>4, <1>5, <1>6, <1>7, <1>8, <1>9 DEF FitsTable

\* The row of an sms the rules let through fits lake and table, but for the gaps.
LEMMA SmsFits ==
    ASSUME NEW e, NEW made, Numeric("sms", e), Accepted("sms", e, 0),
           ~Unfit("sms", e, made)
    PROVE  FitsLake("sms", e) /\ FitsTable("sms", e, made)
<1>1. DOMAIN e = DOMAIN Fields("sms")
  BY DEF Accepted, Conforms
<1>2. /\ e.length.val >= 1
      /\ e.length.val <= MAX_SMS_LENGTH
      /\ MsisdnOK(e.receiver_msisdn)
  BY SmsRules DEF Accepted
<1>3. /\ Int64(e.schema_version)
      /\ Int64(e.sender_id)
      /\ Int32(e.length) /\ Int64(e.length)
  <2>1. Int64(e.schema_version)
    BY DEF Unfit
  <2>2. e.sender_id.val \in Int /\ e.length.val \in Int
    BY SmsFields DEF Numeric
  <2>3. Named(e) = e.sender_id.val
    BY <1>1, NamedByType, EventTypesAre
  <2>4. Int64(e.sender_id)
    BY <2>2, <2>3, NamerFits
  <2>5. 0 <= e.length.val /\ e.length.val <= INT_MAX
    BY <1>2, <2>2, RangeAssumption DEF MAX_SMS_LENGTH
  <2>6. Int32(e.length) /\ Int64(e.length)
    BY <2>2, <2>5, FitsColumns
  <2> QED BY <2>1, <2>4, <2>6
<1>4. FitsLake("sms", e)
  BY <1>1, <1>3, SmsFields DEF FitsLake, EnvelopeFields
<1>5. \A f \in DOMAIN e \cap IntColumns : Int32(e[f])
  BY <1>1, <1>3, SmsFields DEF IntColumns, EnvelopeFields
<1>6. \A f \in DOMAIN e \cap MsisdnColumns : Varchar11Fits(e[f])
  BY <1>1, <1>2, SmsFields DEF MsisdnColumns, MsisdnOK, Varchar11Fits, EnvelopeFields
<1>7. \A f \in DOMAIN EVENT_FIELDS["sms"] \ MsisdnColumns :
          EVENT_FIELDS["sms"][f] = "str" => VarcharFits(e[f])
  <2>1. EVENT_FIELDS["sms"]
            = [sender_id |-> "int", receiver_msisdn |-> "str", length |-> "int"]
    BY DEF EVENT_FIELDS
  <2> QED BY <2>1 DEF MsisdnColumns
<1>8. Seeded(e)
  BY <1>1, <1>2, SmsFields DEF Unfit, Seeded, KnownTower, EnvelopeFields
<1>9. UuidCasts(e.event_id) /\ Dated(e, made)
  BY DEF Unfit
<1> QED BY <1>3, <1>4, <1>5, <1>6, <1>7, <1>8, <1>9 DEF FitsTable

\* The row of a data session the rules let through fits lake and table, but for the gaps.
LEMMA SessionFits ==
    ASSUME NEW e, NEW made, Numeric("data_usage", e), Accepted("data_usage", e, 0),
           ~Unfit("data_usage", e, made)
    PROVE  FitsLake("data_usage", e) /\ FitsTable("data_usage", e, made)
<1>1. DOMAIN e = DOMAIN Fields("data_usage")
  BY DEF Accepted, Conforms
<1>2. /\ Float(e.mb_used) > 0
      /\ Float(e.mb_used) <= MAX_SESSION_MB
      /\ e.session_seconds.val > 0
      /\ KnownTower(e.tower_id)
      /\ e.technology.val \in TECHNOLOGIES
  BY SessionRules DEF Accepted
<1>3. /\ Int64(e.schema_version)
      /\ Int64(e.subscriber_id)
      /\ Int32(e.session_seconds) /\ Int64(e.session_seconds)
  <2>1. Int64(e.schema_version)
    BY DEF Unfit
  <2>2. e.subscriber_id.val \in Int /\ e.session_seconds.val \in Int
    BY SessionFields DEF Numeric
  <2>3. Named(e) = e.subscriber_id.val
    BY <1>1, NamedByType, EventTypesAre
  <2>4. Int64(e.subscriber_id)
    BY <2>2, <2>3, NamerFits
  <2>5. 0 <= e.session_seconds.val /\ e.session_seconds.val <= INT_MAX
    BY <1>2, <2>2, RangeAssumption DEF Unfit
  <2>6. Int32(e.session_seconds) /\ Int64(e.session_seconds)
    BY <2>2, <2>5, FitsColumns
  <2> QED BY <2>1, <2>4, <2>6
<1>4. FitsLake("data_usage", e)
  BY <1>1, <1>3, SessionFields DEF FitsLake, EnvelopeFields
<1>5. \A f \in DOMAIN e \cap IntColumns : Int32(e[f])
  BY <1>1, <1>3, SessionFields DEF IntColumns, EnvelopeFields
<1>6. \A f \in DOMAIN e \cap MsisdnColumns : Varchar11Fits(e[f])
  BY <1>1, <1>2, SessionFields DEF MsisdnColumns, MsisdnOK, Varchar11Fits, EnvelopeFields
<1>7. \A f \in DOMAIN EVENT_FIELDS["data_usage"] \ MsisdnColumns :
          EVENT_FIELDS["data_usage"][f] = "str" => VarcharFits(e[f])
  <2>1. EVENT_FIELDS["data_usage"]
            = [subscriber_id |-> "int", mb_used |-> "float", session_seconds |-> "int",
               tower_id |-> "str", technology |-> "str"]
    BY DEF EVENT_FIELDS
  <2>2. VarcharFits(e.tower_id) /\ VarcharFits(e.technology)
    BY <1>2, CatalogAssumption DEF VarcharFits, KnownTower, TECHNOLOGIES
  <2> QED BY <2>1, <2>2 DEF MsisdnColumns
<1>8. Seeded(e)
  BY <1>1, <1>2, SessionFields DEF Unfit, Seeded, KnownTower, EnvelopeFields
<1>9. UuidCasts(e.event_id) /\ Dated(e, made)
  BY DEF Unfit
<1> QED BY <1>3, <1>4, <1>5, <1>6, <1>7, <1>8, <1>9 DEF FitsTable

\* The row of a tower status the rules let through fits lake and table, but for the gaps.
LEMMA StatusFits ==
    ASSUME NEW e, NEW made, Numeric("tower_status", e), Accepted("tower_status", e, 0),
           ~Unfit("tower_status", e, made)
    PROVE  FitsLake("tower_status", e) /\ FitsTable("tower_status", e, made)
<1>1. DOMAIN e = DOMAIN Fields("tower_status")
  BY DEF Accepted, Conforms
<1>2. /\ e.signal_strength.val \in 0..100
      /\ NotNegative(e.connected_devices)
      /\ KnownTower(e.tower_id)
      /\ e.status.val \in TOWER_STATUSES
  BY StatusRules DEF Accepted
<1>3. /\ Int64(e.schema_version)
      /\ Int32(e.signal_strength) /\ Int64(e.signal_strength)
      /\ Int32(e.connected_devices) /\ Int64(e.connected_devices)
  <2>1. Int64(e.schema_version)
    BY DEF Unfit
  <2>2. e.signal_strength.val \in Int /\ e.connected_devices.val \in Int
    BY StatusFields DEF Numeric
  <2>3. 0 <= e.signal_strength.val /\ e.signal_strength.val <= INT_MAX
    BY <1>2, <2>2, RangeAssumption DEF MAX_CALL_SECONDS
  <2>4. Int32(e.signal_strength) /\ Int64(e.signal_strength)
    BY <2>2, <2>3, FitsColumns
  <2>5. 0 <= e.connected_devices.val /\ e.connected_devices.val <= INT_MAX
    BY <1>2, <2>2, RangeAssumption DEF NotNegative, Unfit
  <2>6. Int32(e.connected_devices) /\ Int64(e.connected_devices)
    BY <2>2, <2>5, FitsColumns
  <2> QED BY <2>1, <2>4, <2>6
<1>4. FitsLake("tower_status", e)
  BY <1>1, <1>3, StatusFields DEF FitsLake, EnvelopeFields
<1>5. \A f \in DOMAIN e \cap IntColumns : Int32(e[f])
  BY <1>1, <1>3, StatusFields DEF IntColumns, EnvelopeFields
<1>6. \A f \in DOMAIN e \cap MsisdnColumns : Varchar11Fits(e[f])
  BY <1>1, <1>2, StatusFields DEF MsisdnColumns, MsisdnOK, Varchar11Fits, EnvelopeFields
<1>7. \A f \in DOMAIN EVENT_FIELDS["tower_status"] \ MsisdnColumns :
          EVENT_FIELDS["tower_status"][f] = "str" => VarcharFits(e[f])
  <2>1. EVENT_FIELDS["tower_status"]
            = [tower_id |-> "str", technology |-> "str", signal_strength |-> "int",
               connected_devices |-> "int", status |-> "str"]
    BY DEF EVENT_FIELDS
  <2>2. VarcharFits(e.tower_id) /\ VarcharFits(e.technology) /\ VarcharFits(e.status)
    BY <1>2, CatalogAssumption DEF VarcharFits, KnownTower, TECHNOLOGIES, TOWER_STATUSES, Unfit
  <2> QED BY <2>1, <2>2 DEF MsisdnColumns
<1>8. Seeded(e)
  BY <1>1, <1>2, StatusFields DEF Unfit, Seeded, KnownTower, EnvelopeFields
<1>9. UuidCasts(e.event_id) /\ Dated(e, made)
  BY DEF Unfit
<1> QED BY <1>3, <1>4, <1>5, <1>6, <1>7, <1>8, <1>9 DEF FitsTable

\* So the row of any event the rules let through fits lake and table, but for the gaps.
LEMMA RowsFit ==
    ASSUME NEW type \in EventTypes, NEW e, NEW made, Numeric(type, e), Accepted(type, e, 0)
    PROVE  (FitsLake(type, e) /\ FitsTable(type, e, made)) \/ Unfit(type, e, made)
BY EventTypesAre, SubscriberFits, AirtimeFits, BundleFits, CallFits, SmsFits, SessionFits, StatusFits

\* An amount within its limit is within it when rounded.
LEMMA RoundedWithin ==
    ASSUME NEW v, NEW m \in Nat, NEW limit, limit = 10 * m,
           Float(v) \in Int, 0 < Float(v), Float(v) <= limit, Rounded(v) # 0
    PROVE  Rounded(v) \in 1..Hundredths(limit)
<1> DEFINE n == Float(v)
<1>1. /\ n \in Int
      /\ 0 < n
      /\ n <= 10 * m
      /\ Rounded(v) = (n + 5) \div 10
      /\ Hundredths(limit) = (10 * m) \div 10
  BY DEF Rounded, Hundredths
<1> HIDE DEF n
<1>2. (n + 5) \div 10 \in 0..m /\ (10 * m) \div 10 = m
  BY <1>1, SMT
<1> QED BY <1>1, <1>2, SMT

\* The row of an announcement the rules let through is what its suite expects.
LEMMA SubscriberExpected ==
    ASSUME NEW e, Numeric("subscriber_created", e), Accepted("subscriber_created", e, 0),
           ~Suspect("subscriber_created", e)
    PROVE  Expected("subscriber_created", e, 0)
<1>1. /\ DOMAIN e = DOMAIN Fields("subscriber_created")
      /\ \A f \in DOMAIN e : HasType(e[f], Fields("subscriber_created")[f])
  BY DEF Accepted, Conforms
<1>2. /\ InstantOK(e.timestamp, 0)
      /\ MsisdnOK(e.msisdn)
      /\ e.plan.val \in PLANS
      /\ e.province.val \in PROVINCES
  BY SubscriberRules DEF Accepted
<1>3. TimeExpected("subscriber_created", e, 0)
  BY <1>2 DEF TimeExpected, InstantOK, CLOCK_SKEW, CEILING, Numeric
<1>4. MatchesRegex(e.msisdn)
  BY <1>2 DEF MsisdnOK, MatchesRegex, Suspect
<1>5. Expected("subscriber_created", e, 0)
          <=> TimeExpected("subscriber_created", e, 0) /\ MatchesRegex(e.msisdn) /\ e.plan.val \in PLANS /\
              e.province.val \in PROVINCES
  BY DEF Expected
<1> QED BY <1>2, <1>3, <1>4, <1>5

\* The row of an airtime purchase the rules let through is what its suite expects.
LEMMA AirtimeExpected ==
    ASSUME NEW e, Numeric("airtime_purchase", e), Accepted("airtime_purchase", e, 0),
           ~Suspect("airtime_purchase", e)
    PROVE  Expected("airtime_purchase", e, 0)
<1>1. /\ DOMAIN e = DOMAIN Fields("airtime_purchase")
      /\ \A f \in DOMAIN e : HasType(e[f], Fields("airtime_purchase")[f])
  BY DEF Accepted, Conforms
<1>2. /\ InstantOK(e.timestamp, 0)
      /\ Float(e.amount) > 0
      /\ Float(e.amount) <= MAX_RECHARGE
      /\ e.payment_method.val \in PAYMENT_METHODS
  BY AirtimeRules DEF Accepted
<1>3. TimeExpected("airtime_purchase", e, 0)
  BY <1>2 DEF TimeExpected, InstantOK, CLOCK_SKEW, CEILING, Numeric
<1>4. Rounded(e.amount) \in 1..Hundredths(SUITE_RECHARGE)
  <2>1. "amount" \in DOMAIN e /\ e.amount.val \in Int
    BY <1>1, AirtimeFields DEF Numeric
  <2>2. Rounded(e.amount) # 0
    BY <1>2, <2>1 DEF Suspect
  <2>3. Float(e.amount) \in Int
    BY <2>1 DEF Float
  <2>4. SUITE_RECHARGE = 10 * 100000 /\ MAX_RECHARGE = SUITE_RECHARGE
    BY SMT DEF SUITE_RECHARGE, MAX_RECHARGE
  <2>5. 0 < Float(e.amount) /\ Float(e.amount) <= SUITE_RECHARGE
    BY <1>2, <2>3, <2>4, SMT
  <2> QED BY <2>2, <2>3, <2>4, <2>5, RoundedWithin, SMT
<1>5. Expected("airtime_purchase", e, 0)
          <=> TimeExpected("airtime_purchase", e, 0) /\ Rounded(e.amount) \in 1..Hundredths(SUITE_RECHARGE)
  BY DEF Expected
<1> QED BY <1>2, <1>3, <1>4, <1>5

\* The row of a bundle purchase the rules let through is what its suite expects.
LEMMA BundleExpected ==
    ASSUME NEW e, Numeric("bundle_purchase", e), Accepted("bundle_purchase", e, 0),
           ~Suspect("bundle_purchase", e)
    PROVE  Expected("bundle_purchase", e, 0)
<1>1. /\ DOMAIN e = DOMAIN Fields("bundle_purchase")
      /\ \A f \in DOMAIN e : HasType(e[f], Fields("bundle_purchase")[f])
  BY DEF Accepted, Conforms
<1>2. /\ InstantOK(e.timestamp, 0)
      /\ e.bundle_code.val \in DOMAIN BUNDLE_PRICES
      /\ e.bundle_code.val \in DOMAIN BUNDLE_PRICES /\ Float(e.price) = BUNDLE_PRICES[e.bundle_code.val]
  BY BundleRules DEF Accepted
<1>3. TimeExpected("bundle_purchase", e, 0)
  BY <1>2 DEF TimeExpected, InstantOK, CLOCK_SKEW, CEILING, Numeric
<1>4. Rounded(e.price) > 0
  <2>1. Float(e.price) = BUNDLE_PRICES[e.bundle_code.val] /\ e.bundle_code.val \in DOMAIN BUNDLE_PRICES
    BY <1>2
  <2>2. BUNDLE_PRICES[e.bundle_code.val] \in Nat \ {0} /\ BUNDLE_PRICES[e.bundle_code.val] % 10 = 0
    BY <2>1, CatalogAssumption
  <2>3. BUNDLE_PRICES[e.bundle_code.val] >= 10
    BY <2>2
  <2> QED BY <2>1, <2>2, <2>3 DEF Rounded
<1>5. Expected("bundle_purchase", e, 0) <=> TimeExpected("bundle_purchase", e, 0) /\ Rounded(e.price) > 0
  BY DEF Expected
<1> QED BY <1>2, <1>3, <1>4, <1>5

\* The row of a voice call the rules let through is what its suite expects.
LEMMA CallExpected ==
    ASSUME NEW e, Numeric("voice_call", e), Accepted("voice_call", e, 0),
           ~Suspect("voice_call", e)
    PROVE  Expected("voice_call", e, 0)
<1>1. DOMAIN e = DOMAIN Fields("voice_call") /\ \A f \in DOMAIN e : HasType(e[f], Fields("voice_call")[f])
  BY DEF Accepted, Conforms
<1>2. /\ InstantOK(e.timestamp, 0)
      /\ NotNegative(e.duration_seconds)
      /\ e.duration_seconds.val <= MAX_CALL_SECONDS
      /\ KnownTower(e.tower_id)
      /\ MsisdnOK(e.receiver_msisdn)
  BY CallRules DEF Accepted
<1>3. TimeExpected("voice_call", e, 0)
  BY <1>2 DEF TimeExpected, InstantOK, CLOCK_SKEW, CEILING, Numeric
<1>4. e.duration_seconds.val \in 0..SUITE_CALL_SECONDS
  <2>1. e.duration_seconds.val \in Int
    BY CallFields DEF Numeric
  <2>2. SUITE_CALL_SECONDS \in Int /\ MAX_CALL_SECONDS = SUITE_CALL_SECONDS
    BY SMT DEF SUITE_CALL_SECONDS, MAX_CALL_SECONDS
  <2> QED BY <1>2, <2>1, <2>2 DEF NotNegative
<1>5. Expected("voice_call", e, 0)
          <=> TimeExpected("voice_call", e, 0) /\ e.duration_seconds.val \in 0..SUITE_CALL_SECONDS
  BY DEF Expected
<1> QED BY <1>2, <1>3, <1>4, <1>5

\* The row of an sms the rules let through is what its suite expects.
LEMMA SmsExpected ==
    ASSUME NEW e, Numeric("sms", e), Accepted("sms", e, 0),
           ~Suspect("sms", e)
    PROVE  Expected("sms", e, 0)
<1>1. DOMAIN e = DOMAIN Fields("sms") /\ \A f \in DOMAIN e : HasType(e[f], Fields("sms")[f])
  BY DEF Accepted, Conforms
<1>2. /\ InstantOK(e.timestamp, 0)
      /\ e.length.val >= 1
      /\ e.length.val <= MAX_SMS_LENGTH
      /\ MsisdnOK(e.receiver_msisdn)
  BY SmsRules DEF Accepted
<1>3. TimeExpected("sms", e, 0)
  BY <1>2 DEF TimeExpected, InstantOK, CLOCK_SKEW, CEILING, Numeric
<1>4. Expected("sms", e, 0) <=> TimeExpected("sms", e, 0)
  BY DEF Expected
<1> QED BY <1>2, <1>3, <1>4

\* The row of a data session the rules let through is what its suite expects.
LEMMA SessionExpected ==
    ASSUME NEW e, Numeric("data_usage", e), Accepted("data_usage", e, 0),
           ~Suspect("data_usage", e)
    PROVE  Expected("data_usage", e, 0)
<1>1. DOMAIN e = DOMAIN Fields("data_usage") /\ \A f \in DOMAIN e : HasType(e[f], Fields("data_usage")[f])
  BY DEF Accepted, Conforms
<1>2. /\ InstantOK(e.timestamp, 0)
      /\ Float(e.mb_used) > 0
      /\ Float(e.mb_used) <= MAX_SESSION_MB
      /\ e.session_seconds.val > 0
      /\ KnownTower(e.tower_id)
      /\ e.technology.val \in TECHNOLOGIES
  BY SessionRules DEF Accepted
<1>3. TimeExpected("data_usage", e, 0)
  BY <1>2 DEF TimeExpected, InstantOK, CLOCK_SKEW, CEILING, Numeric
<1>4. Rounded(e.mb_used) \in 1..Hundredths(SUITE_SESSION_MB)
  <2>1. "mb_used" \in DOMAIN e /\ e.mb_used.val \in Int
    BY <1>1, SessionFields DEF Numeric
  <2>2. Rounded(e.mb_used) # 0
    BY <1>2, <2>1 DEF Suspect
  <2>3. Float(e.mb_used) \in Int
    BY <2>1 DEF Float
  <2>4. SUITE_SESSION_MB = 10 * 1024000 /\ MAX_SESSION_MB = SUITE_SESSION_MB
    BY SMT DEF SUITE_SESSION_MB, MAX_SESSION_MB
  <2>5. 0 < Float(e.mb_used) /\ Float(e.mb_used) <= SUITE_SESSION_MB
    BY <1>2, <2>3, <2>4, SMT
  <2> QED BY <2>2, <2>3, <2>4, <2>5, RoundedWithin, SMT
<1>5. Expected("data_usage", e, 0)
          <=> TimeExpected("data_usage", e, 0) /\ Rounded(e.mb_used) \in 1..Hundredths(SUITE_SESSION_MB) /\
              e.technology.val \in TECHNOLOGIES
  BY DEF Expected
<1> QED BY <1>2, <1>3, <1>4, <1>5

\* The row of a tower status the rules let through is what its suite expects.
LEMMA StatusExpected ==
    ASSUME NEW e, Numeric("tower_status", e), Accepted("tower_status", e, 0),
           ~Suspect("tower_status", e)
    PROVE  Expected("tower_status", e, 0)
<1>1. /\ DOMAIN e = DOMAIN Fields("tower_status")
      /\ \A f \in DOMAIN e : HasType(e[f], Fields("tower_status")[f])
  BY DEF Accepted, Conforms
<1>2. /\ InstantOK(e.timestamp, 0)
      /\ e.signal_strength.val \in 0..100
      /\ NotNegative(e.connected_devices)
      /\ KnownTower(e.tower_id)
      /\ e.status.val \in TOWER_STATUSES
  BY StatusRules DEF Accepted
<1>3. TimeExpected("tower_status", e, 0)
  BY <1>2 DEF TimeExpected, InstantOK, CLOCK_SKEW, CEILING, Numeric
<1>4. Expected("tower_status", e, 0)
          <=> TimeExpected("tower_status", e, 0) /\ e.signal_strength.val \in 0..100 /\
              e.status.val \in TOWER_STATUSES
  BY DEF Expected
<1> QED BY <1>2, <1>3, <1>4

\* So the row of any event the rules let through passes its suite, but for the gaps.
LEMMA SuitesPassed ==
    ASSUME NEW type \in EventTypes, NEW e, Numeric(type, e), Accepted(type, e, 0)
    PROVE  Expected(type, e, 0) \/ Suspect(type, e)
BY EventTypesAre, SubscriberExpected, AirtimeExpected, BundleExpected, CallExpected, SmsExpected,
   SessionExpected, StatusExpected

-----------------------------------------------------------------------------
(* What generate makes and what corrupt makes of it.                       *)

\* A value of a kind; the rules compute with those of numbers.
Right(kind, v) == v.type = kind /\ (kind \in {"int", "float"} => v.val \in Int)

\* An event as a generator returns it.
Made(type, e) ==
    /\ DOMAIN e = DOMAIN Fields(type)
    /\ \A f \in DOMAIN e : Right(Fields(type)[f], e[f])
    /\ e.timestamp = Time(0)

\* The stream has a reason to refuse an event, or not to know its subscriber.
Refused(type, e, age) ==
    \/ ~Accepted(type, e, age)
    \/ Named(e) = UnknownSubscriber
    \/ e.timestamp = Time(Future) /\ age >= Future - 30

\* A choice is one of the list.
LEMMA Chosen ==
    ASSUME NEW S, S # {}
    PROVE  Choice(S) \subseteq S /\ Choice(S) # {}
BY DEF Choice

\* The fields an event takes from its envelope.
LEMMA EventEnvelope ==
    ASSUME NEW type, NEW body
    PROVE  /\ Event(type, body).event_id = Str("uuid")
           /\ Event(type, body).event_type = Str(type)
           /\ Event(type, body).timestamp = Time(0)
           /\ Event(type, body).schema_version = Number(1)
BY DEF Event, Merged, NewEnvelope

\* The others it takes from its body.
LEMMA EventBody ==
    ASSUME NEW type, NEW body
    PROVE  DOMAIN body \cap EnvelopeFields = {} =>
              /\ DOMAIN Event(type, body) = DOMAIN body \cup EnvelopeFields
              /\ \A f \in DOMAIN body : Event(type, body)[f] = body[f]
<1> SUFFICES ASSUME DOMAIN body \cap EnvelopeFields = {}
             PROVE  /\ DOMAIN Event(type, body) = DOMAIN body \cup EnvelopeFields
                    /\ \A f \in DOMAIN body : Event(type, body)[f] = body[f]
  OBVIOUS
<1>1. DOMAIN body \ EnvelopeFields = DOMAIN body
  OBVIOUS
<1>2. \A f \in DOMAIN body \ EnvelopeFields : Event(type, body)[f] = body[f]
  BY EventShape
<1>3. DOMAIN Event(type, body) = EnvelopeFields \cup DOMAIN body
  BY EventShape
<1> QED BY <1>1, <1>2, <1>3

\* A body with the fields of its type makes an event of that type.
LEMMA EventMade ==
    ASSUME NEW type \in EventTypes, NEW body,
           DOMAIN Fields(type) = DOMAIN body \cup EnvelopeFields,
           DOMAIN body \cap EnvelopeFields = {},
           \A f \in DOMAIN body : Right(Fields(type)[f], body[f])
    PROVE  Made(type, Event(type, body))
<1> DEFINE e == Event(type, body)
<1>1. DOMAIN e = DOMAIN Fields(type) /\ \A f \in DOMAIN body : e[f] = body[f]
  BY EventBody
<1>2. /\ e.event_id = Str("uuid") /\ e.event_type = Str(type)
      /\ e.timestamp = Time(0) /\ e.schema_version = Number(1)
  BY EventEnvelope
<1> HIDE DEF e
<1>3. \A f \in EnvelopeFields : Right(Fields(type)[f], e[f])
  BY <1>2, EnvelopeOf DEF EnvelopeFields, Right, Time, Instant, Str, Number, Value
<1>4. Made(type, e)
  BY <1>1, <1>2, <1>3 DEF Made
<1> QED BY <1>4 DEF e

\* Its numbers are numbers, its structure is right.
LEMMA MadeRight ==
    ASSUME NEW type \in EventTypes, NEW e, Made(type, e)
    PROVE  /\ Numeric(type, e) /\ Conforms(type, e)
           /\ \A f \in DOMAIN e : e[f].type = Fields(type)[f]
<1>1. e.timestamp.val.at \in Int
  BY DEF Made, Time, Instant, Str, Value
<1>2. DOMAIN e = DOMAIN Fields(type) /\ \A f \in DOMAIN e : Right(Fields(type)[f], e[f])
  BY DEF Made
<1> QED BY <1>1, <1>2 DEF Numeric, Conforms, HasType, Right

\* It is read with a time that is neither missing nor ahead.
LEMMA MadeInTime ==
    ASSUME NEW type, NEW e, Made(type, e), NEW age \in Ages
    PROVE  InstantOK(e.timestamp, age) /\ age \in Nat
<1>1. age \in Nat
  BY SMT DEF Ages, CLOCK_SKEW, Future
<1>2. e.timestamp.val.form = "iso" /\ e.timestamp.val.at = 0
  BY DEF Made, Time, Instant, Str, Value
<1> QED BY <1>1, <1>2, SMT DEF InstantOK, PythonReads, CLOCK_SKEW

\* Without violations it is accepted.
LEMMA MadeAccepted ==
    ASSUME NEW type \in EventTypes, NEW e, NEW age, Made(type, e), Violations(type, e, age) = {}
    PROVE  Accepted(type, e, age)
BY MadeRight DEF Accepted

\* An event put two hours ahead is refused unless it is read in time.
LEMMA AheadRefused ==
    ASSUME NEW type, NEW c, c.timestamp = Time(Future), NEW age \in Ages
    PROVE  Refused(type, c, age)
<1>1. c.timestamp.val.at = Future /\ Future \in Int
  BY SMT DEF Time, Instant, Str, Value, Future
<1>2. age \in Nat
  BY SMT DEF Ages, CLOCK_SKEW, Future
<1>3. age >= Future - 30 \/ ~InstantOK(c.timestamp, age)
  BY <1>1, <1>2, SMT DEF InstantOK, CLOCK_SKEW
<1>4. ~InstantOK(c.timestamp, age) => ~Accepted(type, c, age)
  BY NoViolations DEF Accepted
<1> QED BY <1>1, <1>3, <1>4 DEF Refused

\* The technologies drawn are technologies.
LEMMA TechnologiesDrawn == Technologies \subseteq TECHNOLOGIES
<1>1. Choice(TOWER_IDS) \subseteq TOWER_IDS /\ Choice(TOWER_IDS) # {}
  BY Chosen, CatalogAssumption
<1> DEFINE offered == UNION {TOWERS[t] : t \in Choice(TOWER_IDS)}
<1>2. offered # {} /\ offered \subseteq TECHNOLOGIES
  BY <1>1, CatalogAssumption
<1>3. Choice(offered) \subseteq offered
  BY <1>2, Chosen
<1> QED BY <1>2, <1>3 DEF Technologies

\* An announcement is an event of its type that no rule objects to.
LEMMA SubscriberMade ==
    ASSUME NEW s, s.id \in Nat, NEW e \in Announcement(s)
    PROVE  /\ Made("subscriber_created", e)
           /\ e.msisdn = Msisdn("27", s.msisdn)
           /\ e.plan.val \in PLANS
           /\ e.province.val \in PROVINCES
           /\ \A age \in Ages : Violations("subscriber_created", e, age) = {}
<1>1. PICK p \in Choice(PLANS), v \in Choice(PROVINCES) : e =
        Event("subscriber_created",
              [subscriber_id |-> Number(s.id), msisdn |-> Msisdn("27", s.msisdn), plan |-> Str(p),
               province |-> Str(v)])
  BY DEF Announcement
<1> DEFINE body == [subscriber_id |-> Number(s.id), msisdn |-> Msisdn("27", s.msisdn), plan |-> Str(p),
                    province |-> Str(v)]
<1>2. e = Event("subscriber_created", body)
  BY <1>1
<1>3. /\ DOMAIN body = {"subscriber_id", "msisdn", "plan", "province"}
      /\ body.subscriber_id = Number(s.id)
      /\ body.msisdn = Msisdn("27", s.msisdn)
      /\ body.plan = Str(p)
      /\ body.province = Str(v)
  OBVIOUS
<1> HIDE DEF body
<1>4. DOMAIN body \cap EnvelopeFields = {} => \A f \in DOMAIN body : e[f] = body[f]
  BY <1>2, EventBody
<1>5. p \in PLANS /\ v \in PROVINCES
  BY Chosen DEF PLANS, PROVINCES
<1>6. Made("subscriber_created", e)
  <2>1. DOMAIN Fields("subscriber_created") = DOMAIN body \cup EnvelopeFields
    BY <1>3, SubscriberFields
  <2>2. DOMAIN body \cap EnvelopeFields = {}
    BY <1>3 DEF EnvelopeFields
  <2>3. \A f \in DOMAIN body : Right(Fields("subscriber_created")[f], body[f])
    BY <1>3, <1>5, SubscriberFields DEF Right, Number, Str, Msisdn, Value
  <2>4. "subscriber_created" \in EventTypes
    BY EventTypesAre
  <2> QED BY <1>2, <2>1, <2>2, <2>3, <2>4, EventMade
<1>7. /\ e.subscriber_id = Number(s.id)
      /\ e.msisdn = Msisdn("27", s.msisdn)
      /\ e.plan = Str(p)
      /\ e.province = Str(v)
  BY <1>4, <1>3 DEF EnvelopeFields
<1>8. /\ e.msisdn = Msisdn("27", s.msisdn)
      /\ e.plan.val \in PLANS
      /\ e.province.val \in PROVINCES
  BY <1>5, <1>7 DEF Number, Decimal, Str, Msisdn, Value
<1>9. ASSUME NEW age \in Ages PROVE Violations("subscriber_created", e, age) = {}
  <2>1. InstantOK(e.timestamp, age)
    BY <1>6, MadeInTime
  <2>2. MsisdnOK(e.msisdn) /\ e.plan.val \in PLANS /\ e.province.val \in PROVINCES
    BY <1>5, <1>7, <1>8, SMT DEF Msisdn, Str, Value, MsisdnOK
  <2> QED BY <2>1, <2>2, SubscriberRules
<1> QED BY <1>6, <1>8, <1>9

\* So is an airtime purchase ...
LEMMA AirtimeMade ==
    ASSUME NEW s, s.id \in Nat, NEW body \in AirtimePurchases(s), NEW e, e = Event("airtime_purchase", body)
    PROVE  /\ Made("airtime_purchase", e)
           /\ e.amount.val \in {5000, 500000}
           /\ e.payment_method.val \in PAYMENT_METHODS
           /\ \A age \in Ages : Violations("airtime_purchase", e, age) = {}
<1>1. DOMAIN body \cap EnvelopeFields = {} => \A f \in DOMAIN body : e[f] = body[f]
  BY EventBody
<1>2. PICK a \in AIRTIME_DENOMINATIONS, p \in Choice(PAYMENT_METHODS) : body =
        [subscriber_id |-> Number(s.id), amount |-> Decimal(a), payment_method |-> Str(p)]
  BY DEF AirtimePurchases
<1>3. e = Event("airtime_purchase", body)
  OBVIOUS
<1>4. /\ DOMAIN body = {"subscriber_id", "amount", "payment_method"}
      /\ body.subscriber_id = Number(s.id)
      /\ body.amount = Decimal(a)
      /\ body.payment_method = Str(p)
  BY <1>2
<1>5. a \in {5000, 500000} /\ p \in PAYMENT_METHODS
  BY Chosen DEF AIRTIME_DENOMINATIONS, PAYMENT_METHODS
<1>6. Made("airtime_purchase", e)
  <2>1. DOMAIN Fields("airtime_purchase") = DOMAIN body \cup EnvelopeFields
    BY <1>4, AirtimeFields
  <2>2. DOMAIN body \cap EnvelopeFields = {}
    BY <1>4 DEF EnvelopeFields
  <2>3. \A f \in DOMAIN body : Right(Fields("airtime_purchase")[f], body[f])
    BY <1>4, <1>5, AirtimeFields DEF Right, Number, Decimal, Str, Value
  <2>4. "airtime_purchase" \in EventTypes
    BY EventTypesAre
  <2> QED BY <1>3, <2>1, <2>2, <2>3, <2>4, EventMade
<1>7. e.subscriber_id = Number(s.id) /\ e.amount = Decimal(a) /\ e.payment_method = Str(p)
  BY <1>1, <1>4 DEF EnvelopeFields
<1>8. /\ e.amount.val \in {5000, 500000}
      /\ e.payment_method.val \in PAYMENT_METHODS
  BY <1>5, <1>7 DEF Number, Decimal, Str, Msisdn, Value
<1>9. ASSUME NEW age \in Ages PROVE Violations("airtime_purchase", e, age) = {}
  <2>1. InstantOK(e.timestamp, age)
    BY <1>6, MadeInTime
  <2>2. Float(e.amount) > 0 /\ Float(e.amount) <= MAX_RECHARGE /\ e.payment_method.val \in PAYMENT_METHODS
    BY <1>5, <1>7, <1>8, SMT DEF Float, Decimal, Value, MAX_RECHARGE
  <2> QED BY <2>1, <2>2, AirtimeRules
<1> QED BY <1>6, <1>8, <1>9

\* ... a bundle purchase ...
LEMMA BundleMade ==
    ASSUME NEW s, s.id \in Nat, NEW body \in BundlePurchases(s), NEW e, e = Event("bundle_purchase", body)
    PROVE  /\ Made("bundle_purchase", e)
           /\ e.bundle_code.val \in DOMAIN BUNDLE_PRICES
           /\ e.price.val = BUNDLE_PRICES[e.bundle_code.val]
           /\ \A age \in Ages : Violations("bundle_purchase", e, age) = {}
<1>1. DOMAIN body \cap EnvelopeFields = {} => \A f \in DOMAIN body : e[f] = body[f]
  BY EventBody
<1>2. PICK b \in Choice(DOMAIN BUNDLE_PRICES) : body =
        [subscriber_id |-> Number(s.id), bundle_code |-> Str(b), price |-> Decimal(BUNDLE_PRICES[b])]
  BY DEF BundlePurchases
<1>3. e = Event("bundle_purchase", body)
  OBVIOUS
<1>4. /\ DOMAIN body = {"subscriber_id", "bundle_code", "price"}
      /\ body.subscriber_id = Number(s.id)
      /\ body.bundle_code = Str(b)
      /\ body.price = Decimal(BUNDLE_PRICES[b])
  BY <1>2
<1>5. b \in DOMAIN BUNDLE_PRICES /\ BUNDLE_PRICES[b] \in Nat \ {0}
  BY Chosen, CatalogAssumption
<1>6. Made("bundle_purchase", e)
  <2>1. DOMAIN Fields("bundle_purchase") = DOMAIN body \cup EnvelopeFields
    BY <1>4, BundleFields
  <2>2. DOMAIN body \cap EnvelopeFields = {}
    BY <1>4 DEF EnvelopeFields
  <2>3. \A f \in DOMAIN body : Right(Fields("bundle_purchase")[f], body[f])
    BY <1>4, <1>5, BundleFields DEF Right, Number, Decimal, Str, Value
  <2>4. "bundle_purchase" \in EventTypes
    BY EventTypesAre
  <2> QED BY <1>3, <2>1, <2>2, <2>3, <2>4, EventMade
<1>7. e.subscriber_id = Number(s.id) /\ e.bundle_code = Str(b) /\ e.price = Decimal(BUNDLE_PRICES[b])
  BY <1>1, <1>4 DEF EnvelopeFields
<1>8. /\ e.bundle_code.val \in DOMAIN BUNDLE_PRICES
      /\ e.price.val = BUNDLE_PRICES[e.bundle_code.val]
  BY <1>5, <1>7 DEF Number, Decimal, Str, Msisdn, Value
<1>9. ASSUME NEW age \in Ages PROVE Violations("bundle_purchase", e, age) = {}
  <2>1. InstantOK(e.timestamp, age)
    BY <1>6, MadeInTime
  <2>2. /\ e.bundle_code.val \in DOMAIN BUNDLE_PRICES
        /\ e.bundle_code.val \in DOMAIN BUNDLE_PRICES
        /\ Float(e.price) = BUNDLE_PRICES[e.bundle_code.val]
    BY <1>5, <1>7, <1>8, SMT DEF Float, Decimal, Value
  <2> QED BY <2>1, <2>2, BundleRules
<1> QED BY <1>6, <1>8, <1>9

\* ... a voice call ...
LEMMA CallMade ==
    ASSUME NEW s, NEW r, s.id \in Nat, NEW body \in VoiceCalls(s, r), NEW e, e = Event("voice_call", body)
    PROVE  /\ Made("voice_call", e)
           /\ e.duration_seconds.val \in {0, CONTRACT_CALL_SECONDS}
           /\ e.tower_id.val \in TOWER_IDS
           /\ e.receiver_msisdn = Msisdn("27", r.msisdn)
           /\ \A age \in Ages : Violations("voice_call", e, age) = {}
<1>1. DOMAIN body \cap EnvelopeFields = {} => \A f \in DOMAIN body : e[f] = body[f]
  BY EventBody
<1>2. PICK d \in {0, CONTRACT_CALL_SECONDS}, t \in Choice(TOWER_IDS) : body =
        [caller_id |-> Number(s.id), receiver_msisdn |-> Msisdn("27", r.msisdn),
         duration_seconds |-> Number(d), tower_id |-> Str(t), dropped |-> Bool(d = 0)]
  BY DEF VoiceCalls
<1>3. e = Event("voice_call", body)
  OBVIOUS
<1>4. /\ DOMAIN body = {"caller_id", "receiver_msisdn", "duration_seconds", "tower_id", "dropped"}
      /\ body.caller_id = Number(s.id)
      /\ body.receiver_msisdn = Msisdn("27", r.msisdn)
      /\ body.duration_seconds = Number(d)
      /\ body.tower_id = Str(t)
      /\ body.dropped = Bool(d = 0)
  BY <1>2
<1>5. /\ d \in {0, CONTRACT_CALL_SECONDS} /\ t \in TOWER_IDS
      /\ MAX_CALL_SECONDS \in Nat /\ CONTRACT_CALL_SECONDS = MAX_CALL_SECONDS
  BY Chosen, CatalogAssumption, SMT DEF MAX_CALL_SECONDS, CONTRACT_CALL_SECONDS
<1>6. Made("voice_call", e)
  <2>1. DOMAIN Fields("voice_call") = DOMAIN body \cup EnvelopeFields
    BY <1>4, CallFields
  <2>2. DOMAIN body \cap EnvelopeFields = {}
    BY <1>4 DEF EnvelopeFields
  <2>3. \A f \in DOMAIN body : Right(Fields("voice_call")[f], body[f])
    BY <1>4, <1>5, CallFields DEF Right, Number, Str, Msisdn, Bool, Value
  <2>4. "voice_call" \in EventTypes
    BY EventTypesAre
  <2> QED BY <1>3, <2>1, <2>2, <2>3, <2>4, EventMade
<1>7. /\ e.caller_id = Number(s.id)
      /\ e.receiver_msisdn = Msisdn("27", r.msisdn)
      /\ e.duration_seconds = Number(d)
      /\ e.tower_id = Str(t)
      /\ e.dropped = Bool(d = 0)
  BY <1>1, <1>4 DEF EnvelopeFields
<1>8. /\ e.duration_seconds.val \in {0, CONTRACT_CALL_SECONDS}
      /\ e.tower_id.val \in TOWER_IDS
      /\ e.receiver_msisdn = Msisdn("27", r.msisdn)
  BY <1>5, <1>7 DEF Number, Decimal, Str, Msisdn, Value
<1>9. ASSUME NEW age \in Ages PROVE Violations("voice_call", e, age) = {}
  <2>1. InstantOK(e.timestamp, age)
    BY <1>6, MadeInTime
  <2>2. /\ NotNegative(e.duration_seconds)
        /\ e.duration_seconds.val <= MAX_CALL_SECONDS
        /\ KnownTower(e.tower_id)
        /\ MsisdnOK(e.receiver_msisdn)
    BY <1>5, <1>7, <1>8, SMT DEF Msisdn, Str, Value, MsisdnOK, KnownTower, NotNegative
  <2> QED BY <2>1, <2>2, CallRules
<1> QED BY <1>6, <1>8, <1>9

\* ... an sms ...
LEMMA SmsMade ==
    ASSUME NEW s, NEW r, s.id \in Nat, NEW body \in SmsMessages(s, r), NEW e, e = Event("sms", body)
    PROVE  /\ Made("sms", e)
           /\ e.length.val \in {1, 320}
           /\ e.receiver_msisdn = Msisdn("27", r.msisdn)
           /\ \A age \in Ages : Violations("sms", e, age) = {}
<1>1. DOMAIN body \cap EnvelopeFields = {} => \A f \in DOMAIN body : e[f] = body[f]
  BY EventBody
<1>2. PICK n \in {1, 320} : body =
        [sender_id |-> Number(s.id), receiver_msisdn |-> Msisdn("27", r.msisdn), length |-> Number(n)]
  BY DEF SmsMessages
<1>3. e = Event("sms", body)
  OBVIOUS
<1>4. /\ DOMAIN body = {"sender_id", "receiver_msisdn", "length"}
      /\ body.sender_id = Number(s.id)
      /\ body.receiver_msisdn = Msisdn("27", r.msisdn)
      /\ body.length = Number(n)
  BY <1>2
<1>5. n \in {1, 320}
  OBVIOUS
<1>6. Made("sms", e)
  <2>1. DOMAIN Fields("sms") = DOMAIN body \cup EnvelopeFields
    BY <1>4, SmsFields
  <2>2. DOMAIN body \cap EnvelopeFields = {}
    BY <1>4 DEF EnvelopeFields
  <2>3. \A f \in DOMAIN body : Right(Fields("sms")[f], body[f])
    BY <1>4, <1>5, SmsFields DEF Right, Number, Str, Msisdn, Value
  <2>4. "sms" \in EventTypes
    BY EventTypesAre
  <2> QED BY <1>3, <2>1, <2>2, <2>3, <2>4, EventMade
<1>7. e.sender_id = Number(s.id) /\ e.receiver_msisdn = Msisdn("27", r.msisdn) /\ e.length = Number(n)
  BY <1>1, <1>4 DEF EnvelopeFields
<1>8. /\ e.length.val \in {1, 320}
      /\ e.receiver_msisdn = Msisdn("27", r.msisdn)
  BY <1>5, <1>7 DEF Number, Decimal, Str, Msisdn, Value
<1>9. ASSUME NEW age \in Ages PROVE Violations("sms", e, age) = {}
  <2>1. InstantOK(e.timestamp, age)
    BY <1>6, MadeInTime
  <2>2. e.length.val >= 1 /\ e.length.val <= MAX_SMS_LENGTH /\ MsisdnOK(e.receiver_msisdn)
    BY <1>5, <1>7, <1>8, SMT DEF Msisdn, Str, Value, MsisdnOK, MAX_SMS_LENGTH
  <2> QED BY <2>1, <2>2, SmsRules
<1> QED BY <1>6, <1>8, <1>9

\* ... a data session, but for a volume of zero ...
LEMMA SessionMade ==
    ASSUME NEW s, s.id \in Nat, NEW body \in DataSessions(s), NEW e, e = Event("data_usage", body)
    PROVE  /\ Made("data_usage", e)
           /\ e.mb_used.val \in {0, 10, CONTRACT_SESSION_MB}
           /\ e.session_seconds.val = 10
           /\ e.tower_id.val \in TOWER_IDS
           /\ e.technology.val \in TECHNOLOGIES
           /\ \A age \in Ages : Violations("data_usage", e, age) = {} \/ e.mb_used.val = 0
<1>1. DOMAIN body \cap EnvelopeFields = {} => \A f \in DOMAIN body : e[f] = body[f]
  BY EventBody
<1>2. PICK mb \in Volumes, t \in Choice(TOWER_IDS), g \in Technologies : body =
        [subscriber_id |-> Number(s.id), mb_used |-> Decimal(mb), session_seconds |-> Number(10),
         tower_id |-> Str(t), technology |-> Str(g)]
  BY DEF DataSessions
<1>3. e = Event("data_usage", body)
  OBVIOUS
<1>4. /\ DOMAIN body = {"subscriber_id", "mb_used", "session_seconds", "tower_id", "technology"}
      /\ body.subscriber_id = Number(s.id)
      /\ body.mb_used = Decimal(mb)
      /\ body.session_seconds = Number(10)
      /\ body.tower_id = Str(t)
      /\ body.technology = Str(g)
  BY <1>2
<1>5. mb \in {0, 10, CONTRACT_SESSION_MB} /\ t \in TOWER_IDS /\ g \in TECHNOLOGIES
  BY Chosen, CatalogAssumption, TechnologiesDrawn DEF Volumes
<1>6. CONTRACT_SESSION_MB = MAX_SESSION_MB /\ MAX_SESSION_MB \in Nat /\ MAX_SESSION_MB > 10
  BY SMT DEF MAX_SESSION_MB, CONTRACT_SESSION_MB
<1>7. Made("data_usage", e)
  <2>1. DOMAIN Fields("data_usage") = DOMAIN body \cup EnvelopeFields
    BY <1>4, SessionFields
  <2>2. DOMAIN body \cap EnvelopeFields = {}
    BY <1>4 DEF EnvelopeFields
  <2>3. \A f \in DOMAIN body : Right(Fields("data_usage")[f], body[f])
    BY <1>4, <1>5, <1>6, SessionFields DEF Right, Number, Decimal, Str, Value
  <2>4. "data_usage" \in EventTypes
    BY EventTypesAre
  <2> QED BY <1>3, <2>1, <2>2, <2>3, <2>4, EventMade
<1>8. /\ e.subscriber_id = Number(s.id)
      /\ e.mb_used = Decimal(mb)
      /\ e.session_seconds = Number(10)
      /\ e.tower_id = Str(t)
      /\ e.technology = Str(g)
  BY <1>1, <1>4 DEF EnvelopeFields
<1>9. /\ e.mb_used.val \in {0, 10, CONTRACT_SESSION_MB}
      /\ e.session_seconds.val = 10
      /\ e.tower_id.val \in TOWER_IDS
      /\ e.technology.val \in TECHNOLOGIES
  BY <1>5, <1>6, <1>8 DEF Number, Decimal, Str, Msisdn, Value
<1>10. ASSUME NEW age \in Ages PROVE Violations("data_usage", e, age) = {} \/ e.mb_used.val = 0
  <2>1. InstantOK(e.timestamp, age)
    BY <1>7, MadeInTime
  <2>2. e.mb_used.val # 0 => Float(e.mb_used) > 0
    BY <1>6, <1>8, <1>9, SMT DEF Float, Decimal, Value
  <2>3. /\ Float(e.mb_used) <= MAX_SESSION_MB
        /\ e.session_seconds.val > 0
        /\ KnownTower(e.tower_id)
        /\ e.technology.val \in TECHNOLOGIES
    BY <1>6, <1>8, <1>9, SMT DEF Float, Decimal, Value, KnownTower
  <2> QED BY <2>1, <2>2, <2>3, SessionRules
<1> QED BY <1>7, <1>9, <1>10

\* ... and a tower status.
LEMMA StatusMade ==
    ASSUME NEW body \in TowerStatuses, NEW e, e = Event("tower_status", body)
    PROVE  /\ Made("tower_status", e)
           /\ e.signal_strength.val \in {35, 45, 60, 100}
           /\ e.connected_devices.val = 50
           /\ e.tower_id.val \in TOWER_IDS
           /\ e.technology.val \in TECHNOLOGIES
           /\ e.status.val \in TOWER_STATUSES
           /\ \A age \in Ages : Violations("tower_status", e, age) = {}
<1>1. DOMAIN body \cap EnvelopeFields = {} => \A f \in DOMAIN body : e[f] = body[f]
  BY EventBody
<1>2. PICK n \in {35, 45, 60, 100}, t \in Choice(TOWER_IDS), g \in Technologies : body =
        [tower_id |-> Str(t), technology |-> Str(g), signal_strength |-> Number(n),
         connected_devices |-> Number(50), status |-> Str(StatusAt(n))]
  BY DEF TowerStatuses
<1>3. e = Event("tower_status", body)
  OBVIOUS
<1>4. /\ DOMAIN body = {"tower_id", "technology", "signal_strength", "connected_devices", "status"}
      /\ body.tower_id = Str(t)
      /\ body.technology = Str(g)
      /\ body.signal_strength = Number(n)
      /\ body.connected_devices = Number(50)
      /\ body.status = Str(StatusAt(n))
  BY <1>2
<1>5. n \in {35, 45, 60, 100} /\ t \in TOWER_IDS /\ g \in TECHNOLOGIES /\ StatusAt(n) \in TOWER_STATUSES
  BY Chosen, CatalogAssumption, TechnologiesDrawn DEF StatusAt, TOWER_STATUSES
<1>6. Made("tower_status", e)
  <2>1. DOMAIN Fields("tower_status") = DOMAIN body \cup EnvelopeFields
    BY <1>4, StatusFields
  <2>2. DOMAIN body \cap EnvelopeFields = {}
    BY <1>4 DEF EnvelopeFields
  <2>3. \A f \in DOMAIN body : Right(Fields("tower_status")[f], body[f])
    BY <1>4, <1>5, StatusFields DEF Right, Number, Str, Value
  <2>4. "tower_status" \in EventTypes
    BY EventTypesAre
  <2> QED BY <1>3, <2>1, <2>2, <2>3, <2>4, EventMade
<1>7. /\ e.tower_id = Str(t)
      /\ e.technology = Str(g)
      /\ e.signal_strength = Number(n)
      /\ e.connected_devices = Number(50)
      /\ e.status = Str(StatusAt(n))
  BY <1>1, <1>4 DEF EnvelopeFields
<1>8. /\ e.signal_strength.val \in {35, 45, 60, 100}
      /\ e.connected_devices.val = 50
      /\ e.tower_id.val \in TOWER_IDS
      /\ e.technology.val \in TECHNOLOGIES
      /\ e.status.val \in TOWER_STATUSES
  BY <1>5, <1>7 DEF Number, Decimal, Str, Msisdn, Value
<1>9. ASSUME NEW age \in Ages PROVE Violations("tower_status", e, age) = {}
  <2>1. InstantOK(e.timestamp, age)
    BY <1>6, MadeInTime
  <2>2. /\ e.signal_strength.val \in 0..100
        /\ NotNegative(e.connected_devices)
        /\ KnownTower(e.tower_id)
        /\ e.status.val \in TOWER_STATUSES
    BY <1>5, <1>7, <1>8, SMT DEF KnownTower, NotNegative
  <2> QED BY <2>1, <2>2, StatusRules
<1> QED BY <1>6, <1>8, <1>9

\* A spoilt announcement breaks a rule, or is ahead of the clock.
LEMMA SubscriberRefused ==
    ASSUME NEW s, s.id \in Nat, NEW e \in Announcement(s),
           NEW c \in CorruptSubscriber(e), NEW age \in Ages
    PROVE  Refused("subscriber_created", c, age)
<1>1. DOMAIN e = DOMAIN Fields("subscriber_created")
  BY SubscriberMade DEF Made
<1>2. CASE c = [e EXCEPT !.msisdn = Msisdn("0", @.val.number)]
  <2>1. DOMAIN c = DOMAIN Fields("subscriber_created") /\ c.msisdn = Msisdn("0", e.msisdn.val.number)
    BY <1>1, <1>2, SubscriberFields DEF EnvelopeFields
  <2>2. ~MsisdnOK(c.msisdn)
    BY <2>1 DEF MsisdnOK, Msisdn, Str, Value
  <2> QED BY <2>2, SubscriberRules DEF Accepted, Refused
<1>3. CASE c = [e EXCEPT !.plan = Str("Unlimited")]
  <2>1. DOMAIN c = DOMAIN Fields("subscriber_created") /\ c.plan = Str("Unlimited")
    BY <1>1, <1>3, SubscriberFields DEF EnvelopeFields
  <2>2. c.plan.val \notin PLANS
    BY <2>1 DEF PLANS, Str, Value
  <2> QED BY <2>2, SubscriberRules DEF Accepted, Refused
<1>4. CASE c = [e EXCEPT !.timestamp = Time(Future)]
  <2>1. DOMAIN c = DOMAIN Fields("subscriber_created") /\ c.timestamp = Time(Future)
    BY <1>1, <1>4, SubscriberFields DEF EnvelopeFields
  <2> QED BY <2>1, AheadRefused
<1> QED BY <1>2, <1>3, <1>4 DEF CorruptSubscriber

\* A spoilt airtime purchase breaks a rule, is ahead, or names the unknown subscriber ...
LEMMA AirtimeRefused ==
    ASSUME NEW s, s.id \in Nat, NEW body \in AirtimePurchases(s), NEW e,
             e = Event("airtime_purchase", body),
           NEW c \in CorruptAirtime(e), NEW age \in Ages
    PROVE  Refused("airtime_purchase", c, age)
<1>1. DOMAIN e = DOMAIN Fields("airtime_purchase")
  BY AirtimeMade DEF Made
<1>2. CASE c = [e EXCEPT !.amount = Decimal(-(@.val))]
  <2>1. DOMAIN c = DOMAIN Fields("airtime_purchase") /\ c.amount = Decimal(-(e.amount.val))
    BY <1>1, <1>2, AirtimeFields DEF EnvelopeFields
  <2>2. ~(Float(c.amount) > 0)
    BY <2>1, AirtimeMade DEF Float, Decimal, Value
  <2> QED BY <2>2, AirtimeRules DEF Accepted, Refused
<1>3. CASE c = [e EXCEPT !.subscriber_id = Number(UnknownSubscriber)]
  <2>1. DOMAIN c = DOMAIN Fields("airtime_purchase") /\ c.subscriber_id = Number(UnknownSubscriber)
    BY <1>1, <1>3, AirtimeFields DEF EnvelopeFields
  <2>2. Named(c) = c.subscriber_id.val
    BY <2>1, NamedByType, EventTypesAre
  <2> QED BY <2>1, <2>2 DEF Refused, Number, Value
<1>4. CASE c = [e EXCEPT !.timestamp = Time(Future)]
  <2>1. DOMAIN c = DOMAIN Fields("airtime_purchase") /\ c.timestamp = Time(Future)
    BY <1>1, <1>4, AirtimeFields DEF EnvelopeFields
  <2> QED BY <2>1, AheadRefused
<1> QED BY <1>2, <1>3, <1>4 DEF CorruptAirtime

\* ... a spoilt bundle purchase ...
LEMMA BundleRefused ==
    ASSUME NEW s, s.id \in Nat, NEW body \in BundlePurchases(s), NEW e, e = Event("bundle_purchase", body),
           NEW c \in CorruptBundle(e), NEW age \in Ages
    PROVE  Refused("bundle_purchase", c, age)
<1>1. DOMAIN e = DOMAIN Fields("bundle_purchase")
  BY BundleMade DEF Made
<1>2. CASE c = [e EXCEPT !.bundle_code = Str("DATA_999GB")]
  <2>1. DOMAIN c = DOMAIN Fields("bundle_purchase") /\ c.bundle_code = Str("DATA_999GB")
    BY <1>1, <1>2, BundleFields DEF EnvelopeFields
  <2>2. c.bundle_code.val \notin DOMAIN BUNDLE_PRICES
    BY <2>1, UnknownAssumption DEF Str, Value
  <2> QED BY <2>2, BundleRules DEF Accepted, Refused
<1>3. CASE c = [e EXCEPT !.price = Decimal(BUNDLE_PRICES[e.bundle_code.val] + 50000)]
  <2>1. /\ DOMAIN c = DOMAIN Fields("bundle_purchase")
        /\ c.price = Decimal(BUNDLE_PRICES[e.bundle_code.val] + 50000)
    BY <1>1, <1>3, BundleFields DEF EnvelopeFields
  <2>2. c.bundle_code = e.bundle_code
    BY <1>1, <1>3, BundleFields
  <2>3. e.bundle_code.val \in DOMAIN BUNDLE_PRICES
    BY BundleMade
  <2>4. BUNDLE_PRICES[e.bundle_code.val] \in Nat
    BY <2>3, CatalogAssumption
  <2>5. Float(c.price) # BUNDLE_PRICES[c.bundle_code.val]
    BY <2>1, <2>2, <2>4 DEF Float, Decimal, Value
  <2> QED BY <2>5, BundleRules DEF Accepted, Refused
<1>4. CASE c = [e EXCEPT !.subscriber_id = Number(UnknownSubscriber)]
  <2>1. DOMAIN c = DOMAIN Fields("bundle_purchase") /\ c.subscriber_id = Number(UnknownSubscriber)
    BY <1>1, <1>4, BundleFields DEF EnvelopeFields
  <2>2. Named(c) = c.subscriber_id.val
    BY <2>1, NamedByType, EventTypesAre
  <2> QED BY <2>1, <2>2 DEF Refused, Number, Value
<1> QED BY <1>2, <1>3, <1>4 DEF CorruptBundle

\* ... voice call ...
LEMMA CallRefused ==
    ASSUME NEW s, NEW r, s.id \in Nat, NEW body \in VoiceCalls(s, r), NEW e, e = Event("voice_call", body),
           NEW c \in CorruptCall(e), NEW age \in Ages
    PROVE  Refused("voice_call", c, age)
<1>1. DOMAIN e = DOMAIN Fields("voice_call")
  BY CallMade DEF Made
<1>2. CASE c = [e EXCEPT !.duration_seconds = Number(CONTRACT_CALL_SECONDS + 3600)]
  <2>1. DOMAIN c = DOMAIN Fields("voice_call") /\ c.duration_seconds = Number(CONTRACT_CALL_SECONDS + 3600)
    BY <1>1, <1>2, CallFields DEF EnvelopeFields
  <2>2. ~(c.duration_seconds.val <= MAX_CALL_SECONDS)
    BY <2>1, SMT DEF Number, Value, MAX_CALL_SECONDS, CONTRACT_CALL_SECONDS
  <2> QED BY <2>2, CallRules DEF Accepted, Refused
<1>3. CASE c = [e EXCEPT !.tower_id = Str("ATL-XXX-999")]
  <2>1. DOMAIN c = DOMAIN Fields("voice_call") /\ c.tower_id = Str("ATL-XXX-999")
    BY <1>1, <1>3, CallFields DEF EnvelopeFields
  <2>2. ~KnownTower(c.tower_id)
    BY <2>1, UnknownAssumption DEF KnownTower, Str, Value
  <2> QED BY <2>2, CallRules DEF Accepted, Refused
<1>4. CASE c = [e EXCEPT !.duration_seconds = Number(-30)]
  <2>1. DOMAIN c = DOMAIN Fields("voice_call") /\ c.duration_seconds = Number(-30)
    BY <1>1, <1>4, CallFields DEF EnvelopeFields
  <2>2. ~NotNegative(c.duration_seconds)
    BY <2>1 DEF NotNegative, Number, Value
  <2> QED BY <2>2, CallRules DEF Accepted, Refused
<1> QED BY <1>2, <1>3, <1>4 DEF CorruptCall

\* ... sms ...
LEMMA SmsRefused ==
    ASSUME NEW s, NEW r, s.id \in Nat, NEW body \in SmsMessages(s, r), NEW e, e = Event("sms", body),
           NEW c \in CorruptSms(e), NEW age \in Ages
    PROVE  Refused("sms", c, age)
<1>1. DOMAIN e = DOMAIN Fields("sms")
  BY SmsMade DEF Made
<1>2. CASE c = [e EXCEPT !.length = Number(0)]
  <2>1. DOMAIN c = DOMAIN Fields("sms") /\ c.length = Number(0)
    BY <1>1, <1>2, SmsFields DEF EnvelopeFields
  <2>2. ~(c.length.val >= 1)
    BY <2>1 DEF Number, Value
  <2> QED BY <2>2, SmsRules DEF Accepted, Refused
<1>3. CASE c = [e EXCEPT !.length = Number(5000)]
  <2>1. DOMAIN c = DOMAIN Fields("sms") /\ c.length = Number(5000)
    BY <1>1, <1>3, SmsFields DEF EnvelopeFields
  <2>2. ~(c.length.val <= MAX_SMS_LENGTH)
    BY <2>1, SMT DEF Number, Value, MAX_SMS_LENGTH
  <2> QED BY <2>2, SmsRules DEF Accepted, Refused
<1>4. CASE c = [e EXCEPT !.sender_id = Number(UnknownSubscriber)]
  <2>1. DOMAIN c = DOMAIN Fields("sms") /\ c.sender_id = Number(UnknownSubscriber)
    BY <1>1, <1>4, SmsFields DEF EnvelopeFields
  <2>2. Named(c) = c.sender_id.val
    BY <2>1, NamedByType, EventTypesAre
  <2> QED BY <2>1, <2>2 DEF Refused, Number, Value
<1> QED BY <1>2, <1>3, <1>4 DEF CorruptSms

\* ... data session ...
LEMMA SessionRefused ==
    ASSUME NEW s, s.id \in Nat, NEW body \in DataSessions(s), NEW e, e = Event("data_usage", body),
           NEW c \in CorruptSession(e), NEW age \in Ages
    PROVE  Refused("data_usage", c, age)
<1>1. DOMAIN e = DOMAIN Fields("data_usage")
  BY SessionMade DEF Made
<1>2. CASE c = [e EXCEPT !.mb_used = Decimal(10 * CONTRACT_SESSION_MB)]
  <2>1. DOMAIN c = DOMAIN Fields("data_usage") /\ c.mb_used = Decimal(10 * CONTRACT_SESSION_MB)
    BY <1>1, <1>2, SessionFields DEF EnvelopeFields
  <2>2. ~(Float(c.mb_used) <= MAX_SESSION_MB)
    BY <2>1, SMT DEF Float, Decimal, Value, MAX_SESSION_MB, CONTRACT_SESSION_MB
  <2> QED BY <2>2, SessionRules DEF Accepted, Refused
<1>3. CASE c = [e EXCEPT !.tower_id = Str("XYZ-000-000")]
  <2>1. DOMAIN c = DOMAIN Fields("data_usage") /\ c.tower_id = Str("XYZ-000-000")
    BY <1>1, <1>3, SessionFields DEF EnvelopeFields
  <2>2. ~KnownTower(c.tower_id)
    BY <2>1, UnknownAssumption DEF KnownTower, Str, Value
  <2> QED BY <2>2, SessionRules DEF Accepted, Refused
<1>4. CASE c = [e EXCEPT !.session_seconds = Number(0)]
  <2>1. DOMAIN c = DOMAIN Fields("data_usage") /\ c.session_seconds = Number(0)
    BY <1>1, <1>4, SessionFields DEF EnvelopeFields
  <2>2. ~(c.session_seconds.val > 0)
    BY <2>1 DEF Number, Value
  <2> QED BY <2>2, SessionRules DEF Accepted, Refused
<1> QED BY <1>2, <1>3, <1>4 DEF CorruptSession

\* ... and tower status.
LEMMA StatusRefused ==
    ASSUME NEW body \in TowerStatuses, NEW e, e = Event("tower_status", body),
           NEW c \in CorruptStatus(e), NEW age \in Ages
    PROVE  Refused("tower_status", c, age)
<1>1. DOMAIN e = DOMAIN Fields("tower_status")
  BY StatusMade DEF Made
<1>2. CASE c = [e EXCEPT !.signal_strength = Number(250)]
  <2>1. DOMAIN c = DOMAIN Fields("tower_status") /\ c.signal_strength = Number(250)
    BY <1>1, <1>2, StatusFields DEF EnvelopeFields
  <2>2. c.signal_strength.val \notin 0..100
    BY <2>1 DEF Number, Value
  <2> QED BY <2>2, StatusRules DEF Accepted, Refused
<1>3. CASE c = [e EXCEPT !.tower_id = Str("GHOST-001")]
  <2>1. DOMAIN c = DOMAIN Fields("tower_status") /\ c.tower_id = Str("GHOST-001")
    BY <1>1, <1>3, StatusFields DEF EnvelopeFields
  <2>2. ~KnownTower(c.tower_id)
    BY <2>1, UnknownAssumption DEF KnownTower, Str, Value
  <2> QED BY <2>2, StatusRules DEF Accepted, Refused
<1>4. CASE c = [e EXCEPT !.status = Str("ON_FIRE")]
  <2>1. DOMAIN c = DOMAIN Fields("tower_status") /\ c.status = Str("ON_FIRE")
    BY <1>1, <1>4, StatusFields DEF EnvelopeFields
  <2>2. c.status.val \notin TOWER_STATUSES
    BY <2>1 DEF TOWER_STATUSES, Str, Value
  <2> QED BY <2>2, StatusRules DEF Accepted, Refused
<1> QED BY <1>2, <1>3, <1>4 DEF CorruptStatus

\* What generate returns, by its type.
LEMMA GeneratedMade ==
    ASSUME NEW type \in EventTypes \ {"subscriber_created"}, NEW s, NEW r, s.id \in Nat,
           NEW e \in Generated(type, s, r)
    PROVE  /\ Made(type, e)
           /\ \A age \in Ages : \/ Violations(type, e, age) = {}
                                \/ type = "data_usage" /\ e.mb_used.val = 0
<1>1. CASE type = "airtime_purchase"
  <2>1. PICK body \in AirtimePurchases(s) : e = Event("airtime_purchase", body)
    BY <1>1 DEF Generated
  <2> QED BY <1>1, <2>1, AirtimeMade
<1>2. CASE type = "bundle_purchase"
  <2>1. PICK body \in BundlePurchases(s) : e = Event("bundle_purchase", body)
    BY <1>2 DEF Generated
  <2> QED BY <1>2, <2>1, BundleMade
<1>3. CASE type = "voice_call"
  <2>1. PICK body \in VoiceCalls(s, r) : e = Event("voice_call", body)
    BY <1>3 DEF Generated
  <2> QED BY <1>3, <2>1, CallMade
<1>4. CASE type = "sms"
  <2>1. PICK body \in SmsMessages(s, r) : e = Event("sms", body)
    BY <1>4 DEF Generated
  <2> QED BY <1>4, <2>1, SmsMade
<1>5. CASE type = "data_usage"
  <2>1. PICK body \in DataSessions(s) : e = Event("data_usage", body)
    BY <1>5 DEF Generated
  <2> QED BY <1>5, <2>1, SessionMade
<1>6. CASE type = "tower_status"
  <2>1. PICK body \in TowerStatuses : e = Event("tower_status", body)
    BY <1>6 DEF Generated
  <2> QED BY <1>6, <2>1, StatusMade
<1> QED BY <1>1, <1>2, <1>3, <1>4, <1>5, <1>6, EventTypesAre

\* What corrupt makes of it.
LEMMA CorruptedRefused ==
    ASSUME NEW type \in EventTypes \ {"subscriber_created"}, NEW s, NEW r, s.id \in Nat,
           NEW e \in Generated(type, s, r), NEW c \in Corrupted(type, e), NEW age \in Ages
    PROVE  Refused(type, c, age)
<1>1. CASE type = "airtime_purchase"
  <2>1. PICK body \in AirtimePurchases(s) : e = Event("airtime_purchase", body)
    BY <1>1 DEF Generated
  <2>2. c \in CorruptAirtime(e)
    BY <1>1 DEF Corrupted
  <2> QED BY <1>1, <2>1, <2>2, AirtimeRefused
<1>2. CASE type = "bundle_purchase"
  <2>1. PICK body \in BundlePurchases(s) : e = Event("bundle_purchase", body)
    BY <1>2 DEF Generated
  <2>2. c \in CorruptBundle(e)
    BY <1>2 DEF Corrupted
  <2> QED BY <1>2, <2>1, <2>2, BundleRefused
<1>3. CASE type = "voice_call"
  <2>1. PICK body \in VoiceCalls(s, r) : e = Event("voice_call", body)
    BY <1>3 DEF Generated
  <2>2. c \in CorruptCall(e)
    BY <1>3 DEF Corrupted
  <2> QED BY <1>3, <2>1, <2>2, CallRefused
<1>4. CASE type = "sms"
  <2>1. PICK body \in SmsMessages(s, r) : e = Event("sms", body)
    BY <1>4 DEF Generated
  <2>2. c \in CorruptSms(e)
    BY <1>4 DEF Corrupted
  <2> QED BY <1>4, <2>1, <2>2, SmsRefused
<1>5. CASE type = "data_usage"
  <2>1. PICK body \in DataSessions(s) : e = Event("data_usage", body)
    BY <1>5 DEF Generated
  <2>2. c \in CorruptSession(e)
    BY <1>5 DEF Corrupted
  <2> QED BY <1>5, <2>1, <2>2, SessionRefused
<1>6. CASE type = "tower_status"
  <2>1. PICK body \in TowerStatuses : e = Event("tower_status", body)
    BY <1>6 DEF Generated
  <2>2. c \in CorruptStatus(e)
    BY <1>6 DEF Corrupted
  <2> QED BY <1>6, <2>1, <2>2, StatusRefused
<1> QED BY <1>1, <1>2, <1>3, <1>4, <1>5, <1>6, EventTypesAre

\* A payment failure has the structure of a record under review.
LEMMA PaymentConforms == Conforms("dlq_record", PaymentFailure)
<1> DEFINE body == [source_topic |-> Str("airtime-purchases"),
                    rejection_reason |-> Str("PAYMENT_DECLINED"), original_payload |-> Str("purchase")]
<1>1. /\ DOMAIN body = {"source_topic", "rejection_reason", "original_payload"}
      /\ \A f \in DOMAIN body : body[f].type = "str"
  BY DEF Str, Value
<1>2. PaymentFailure = Event("dlq_record", body)
  BY DEF PaymentFailure
<1> HIDE DEF body
<1>3. DOMAIN body \cap EnvelopeFields = {}
  BY <1>1 DEF EnvelopeFields
<1>4. /\ DOMAIN PaymentFailure = DOMAIN body \cup EnvelopeFields
      /\ \A f \in DOMAIN body : PaymentFailure[f] = body[f]
  BY <1>2, <1>3, EventBody
<1>5. \A f \in DOMAIN PaymentFailure :
         PaymentFailure[f].type = IF f = "schema_version" THEN "int" ELSE "str"
  <2>1. \A f \in DOMAIN body : PaymentFailure[f].type = "str" /\ f # "schema_version"
    BY <1>1, <1>4
  <2>2. /\ PaymentFailure.event_id = Str("uuid") /\ PaymentFailure.event_type = Str("dlq_record")
        /\ PaymentFailure.timestamp = Time(0) /\ PaymentFailure.schema_version = Number(1)
    BY <1>2, EventEnvelope
  <2>3. \A f \in EnvelopeFields :
           PaymentFailure[f].type = IF f = "schema_version" THEN "int" ELSE "str"
    BY <2>2 DEF EnvelopeFields, Time, Instant, Str, Number, Value
  <2> QED BY <1>4, <2>1, <2>3
<1>6. EVENT_FIELDS["dlq_record"] =
        [source_topic |-> "str", rejection_reason |-> "str", original_payload |-> "str"]
  BY DEF EVENT_FIELDS
<1>7. Fields("dlq_record") = [f \in DOMAIN EVENT_FIELDS["dlq_record"] \cup DOMAIN ENVELOPE_FIELDS |->
          IF f \in DOMAIN EVENT_FIELDS["dlq_record"] THEN EVENT_FIELDS["dlq_record"][f]
            ELSE ENVELOPE_FIELDS[f]]
  BY DEF Fields, Merged
<1>8. /\ DOMAIN Fields("dlq_record") = DOMAIN PaymentFailure
      /\ \A f \in DOMAIN PaymentFailure :
            Fields("dlq_record")[f] = IF f = "schema_version" THEN "int" ELSE "str"
  BY <1>1, <1>4, <1>6, <1>7 DEF ENVELOPE_FIELDS, EnvelopeFields
<1> QED BY <1>5, <1>8 DEF Conforms, HasType

-----------------------------------------------------------------------------
(* The neighbours of a generated event.                                    *)

\* The fields nobody computes with, and the one no type has.
LEMMA TextFields ==
    ASSUME NEW type \in EventTypes
    PROVE  /\ \A f \in DOMAIN Fields(type) \cap ({"event_id", "timestamp"} \cup MsisdnColumns) :
                 Fields(type)[f] = "str"
           /\ "unexpected" \notin DOMAIN Fields(type)
BY EventTypesAre, SubscriberFields, AirtimeFields, BundleFields, CallFields, SmsFields, SessionFields,
   StatusFields DEF EnvelopeFields, MsisdnColumns

\* A number is replaced by what has a number in it ...
LEMMA NumberReplaced ==
    ASSUME NEW f, NEW v, v.type \in {"int", "float"}, v.val \in Int,
           f \notin {"event_id", "timestamp"} \cup MsisdnColumns, NEW o \in OtherValues(f, v)
    PROVE  o.val \in Int
<1> DEFINE other == {Value("str", v.val), Value("float", v.val), Value("bool", v.val),
                     Number(IF v.type = "float" THEN v.val \div 1000 ELSE v.val)}
<1>1. \A x \in other : x.val \in Int
  BY SMT DEF Number, Value
<1>2. CASE v.type = "int"
  <2>1. OtherValues(f, v) = other \cup {Number(n) : n \in OtherInts}
    BY <1>2 DEF OtherValues
  <2>2. OtherInts \subseteq Int
    BY RangeAssumption, SMT DEF OtherInts, MAX_SMS_LENGTH, MAX_CALL_SECONDS
  <2> HIDE DEF other
  <2> QED BY <1>1, <2>1, <2>2, SMT DEF Number, Value
<1>3. CASE v.type = "float"
  <2>1. OtherValues(f, v) = other \cup {Decimal(n) : n \in OtherFloats}
    BY <1>3 DEF OtherValues
  <2>2. OtherFloats \subseteq Int
    BY SMT DEF OtherFloats, MAX_RECHARGE, MAX_SESSION_MB
  <2> HIDE DEF other
  <2> QED BY <1>1, <2>1, <2>2, SMT DEF Decimal, Value
<1> QED BY <1>2, <1>3

\* ... and so is a time.
LEMMA TimeReplaced ==
    ASSUME NEW o \in OtherValues("timestamp", Time(0))
    PROVE  o.val.at \in Int
<1> DEFINE v == Time(0)
           other == {Value("str", v.val), Value("float", v.val), Value("bool", v.val),
                     Number(IF v.type = "float" THEN v.val \div 1000 ELSE v.val)}
<1>1. v.val.at = 0 /\ v.type = "str"
  BY DEF Time, Instant, Str, Value
<1>2. OtherValues("timestamp", v) = other \cup OtherTimes
  BY <1>1 DEF OtherValues, MsisdnColumns
<1>3. \A x \in OtherTimes : x.val.at \in Int
  BY SMT DEF OtherTimes, Time, Instant, Str, Value, CLOCK_SKEW, CEILING
<1>4. \A x \in other : x.val = v.val
  BY <1>1 DEF Number, Value
<1> HIDE DEF v, other
<1>5. o \in other \cup OtherTimes
  BY <1>2 DEF v
<1>6. \A x \in other : x.val.at \in Int
  BY <1>1, <1>4
<1> QED BY <1>3, <1>5, <1>6

\* A neighbour of the right structure has numbers where the rules compute.
LEMMA NeighbourNumeric ==
    ASSUME NEW type \in EventTypes, Made(type, event.body), NEW n \in Neighbours,
           DOMAIN n = DOMAIN Fields(type)
    PROVE  Numeric(type, n)
<1> DEFINE e == event.body
<1>1. DOMAIN e = DOMAIN Fields(type) /\ e.timestamp = Time(0) /\ Numeric(type, e)
      /\ \A f \in DOMAIN e : e[f].type = Fields(type)[f]
  BY MadeRight DEF Made
<1>2. \/ n = e
      \/ \E f \in DOMAIN e : \E v \in OtherValues(f, e[f]) : n = [e EXCEPT ![f] = v]
      \/ \E f \in DOMAIN e : n = [g \in DOMAIN e \ {f} |-> e[g]]
      \/ n = Merged(e, [unexpected |-> Str("")])
  BY DEF Neighbours
<1> HIDE DEF e
<1>3. CASE n = e
  BY <1>1, <1>3
<1>4. ASSUME NEW f \in DOMAIN e, NEW v \in OtherValues(f, e[f]), n = [e EXCEPT ![f] = v]
      PROVE  Numeric(type, n)
  <2>1. n[f] = v /\ \A g \in DOMAIN e \ {f} : n[g] = e[g]
    BY <1>4
  <2>2. "timestamp" \in DOMAIN e
    BY <1>1, EnvelopeOf DEF EnvelopeFields
  <2>3. n.timestamp.val.at \in Int
    <3>1. CASE f = "timestamp"
      BY <1>1, <2>1, <3>1, TimeReplaced
    <3>2. CASE f # "timestamp"
      BY <1>1, <2>1, <2>2, <3>2 DEF Numeric
    <3> QED BY <3>1, <3>2
  <2>4. ASSUME NEW g \in DOMAIN Fields(type), Fields(type)[g] \in {"int", "float"}
        PROVE  n[g].val \in Int
    <3>1. e[g].val \in Int /\ e[g].type \in {"int", "float"}
      BY <1>1, <2>4 DEF Numeric
    <3>2. g \notin {"event_id", "timestamp"} \cup MsisdnColumns
      BY <2>4, TextFields
    <3>3. CASE g = f
      BY <2>1, <3>1, <3>2, <3>3, NumberReplaced
    <3>4. CASE g # f
      BY <1>1, <2>1, <3>1, <3>4
    <3> QED BY <3>3, <3>4
  <2> QED BY <2>3, <2>4 DEF Numeric
<1>5. ASSUME NEW f \in DOMAIN e, n = [g \in DOMAIN e \ {f} |-> e[g]]
      PROVE  FALSE
  BY <1>1, <1>5
<1>6. CASE n = Merged(e, [unexpected |-> Str("")])
  <2>1. "unexpected" \in DOMAIN n
    BY <1>6 DEF Merged
  <2> QED BY <2>1, TextFields
<1> QED BY <1>2, <1>3, <1>4, <1>5, <1>6

-----------------------------------------------------------------------------
(* The event under way.                                                    *)

People == [id : Nat, msisdn : Msisdns]

\* The event under way is what generate or corrupt makes about some subscriber, or a
\* payment failure.
Drafted ==
    pc = "publishing" =>
        \/ event.type = "dlq_record" /\ event.made = "generate" /\ event.body = PaymentFailure
        \/ /\ event.type = "subscriber_created" /\ event.made \in {"generate", "corrupt"}
           /\ \E s \in People :
                 event.body \in Spoilt("subscriber_created", event.made, Announcement(s))
        \/ /\ event.type \in EventTypes \ {"subscriber_created"}
           /\ event.made \in {"generate", "corrupt"}
           /\ \E s, r \in People :
                 event.body \in Spoilt(event.type, event.made, Generated(event.type, s, r))

\* An announcement is drafted about the subscriber just registered ...
LEMMA AnnouncementDrafted ==
    ASSUME TypeOK, NEW made \in {"generate", "corrupt"}, NewSubscriber(made)
    PROVE  Drafted'
<1>1. PICK m \in FreshMsisdns :
        \E e \in Spoilt("subscriber_created", made, Announcement([id |-> nextId, msisdn |-> m])) :
           Draft("subscriber_created", made, e)
  BY DEF NewSubscriber
<1> DEFINE s == [id |-> nextId, msisdn |-> m]
<1>2. PICK e \in Spoilt("subscriber_created", made, Announcement(s)) :
        event' = [type |-> "subscriber_created", made |-> made, body |-> e]
  BY <1>1 DEF Draft
<1>3. s \in People
  BY DEF People, TypeOK, FreshMsisdns
<1> HIDE DEF s
<1>4. /\ event'.type = "subscriber_created" /\ event'.made = made
      /\ event'.body \in Spoilt("subscriber_created", event'.made, Announcement(s))
  BY <1>2
<1> QED BY <1>3, <1>4 DEF Drafted

\* ... any other event about those registered before.
LEMMA DraftedStep ==
    ASSUME TypeOK, Drafted, [Next]_vars
    PROVE  Drafted'
<1>1. CASE Seed
  BY <1>1, AnnouncementDrafted DEF Seed
<1>2. CASE EmitOne
  <2>1. CASE \E made \in {"generate", "corrupt"} : NewSubscriber(made)
    BY <2>1, AnnouncementDrafted
  <2>2. ASSUME NEW type \in EventTypes \ {"subscriber_created"}, NEW made \in {"generate", "corrupt"},
               NEW s \in registry, NEW r \in registry,
               NEW e \in Spoilt(type, made, Generated(type, s, r)), Draft(type, made, e)
        PROVE  Drafted'
    <3>1. s \in People /\ r \in People
      BY DEF TypeOK, People, FirstId
    <3>2. event'.type = type /\ event'.made = made /\ event'.body = e
      BY <2>2 DEF Draft
    <3> QED BY <3>1, <3>2 DEF Drafted
  <2>3. CASE Draft("dlq_record", "generate", PaymentFailure)
    BY <2>3 DEF Draft, Drafted
  <2> QED BY <1>2, <2>1, <2>2, <2>3 DEF EmitOne
<1>3. CASE Publish \/ Start \/ Stop \/ Close \/ Kill
  <2>1. pc' # "publishing"
    BY <1>3 DEF Publish, Start, Stop, Close, Kill
  <2> QED BY <2>1 DEF Drafted
<1>4. ASSUME UNCHANGED <<pc, event>>
      PROVE  Drafted'
  BY <1>4 DEF Drafted
<1>5. CASE \E i \in buffer : Deliver(i) \/ DeliverUnacknowledged(i) \/ GiveUp(i)
  BY <1>4, <1>5, SenderStepFrame
<1>6. CASE UNCHANGED vars
  BY <1>4, <1>6 DEF vars, process
<1> QED BY <1>1, <1>2, <1>3, <1>5, <1>6 DEF Next

\* ... in every state.
LEMMA AlwaysDrafted == Spec => []Drafted
<1>1. Init => Drafted
  BY DEF Init, Drafted
<1>2. TypeOK /\ Drafted /\ [Next]_vars => Drafted'
  BY DraftedStep
<1> QED BY <1>1, <1>2, TypeCorrect, PTL DEF Spec

\* So what is about to be published unspoilt is well made ...
LEMMA UnderWayMade ==
    ASSUME Drafted, IsEvent
    PROVE  /\ event.type \in EventTypes /\ Made(event.type, event.body)
           /\ \A age \in Ages : \/ Violations(event.type, event.body, age) = {}
                                \/ event.type = "data_usage" /\ event.body.mb_used.val = 0
<1>1. CASE event.type = "subscriber_created"
  <2>1. PICK s \in People : event.body \in Spoilt("subscriber_created", "generate", Announcement(s))
    BY <1>1, EventTypesAre DEF Drafted, IsEvent
  <2>2. event.body \in Announcement(s) /\ s.id \in Nat
    BY <2>1 DEF Spoilt, People
  <2> QED BY <1>1, <2>2, SubscriberMade, EventTypesAre
<1>2. CASE event.type # "subscriber_created"
  <2>1. event.type \in EventTypes \ {"subscriber_created"}
    BY <1>2 DEF Drafted, IsEvent
  <2>2. PICK s \in People, r \in People :
          event.body \in Spoilt(event.type, "generate", Generated(event.type, s, r))
    BY <1>2 DEF Drafted, IsEvent
  <2>3. event.body \in Generated(event.type, s, r) /\ s.id \in Nat
    BY <2>2 DEF Spoilt, People
  <2> QED BY <2>1, <2>3, GeneratedMade
<1> QED BY <1>1, <1>2

\* ... and what is about to be published spoilt is refused.
LEMMA UnderWayRefused ==
    ASSUME Drafted, pc = "publishing", event.made = "corrupt", NEW age \in Ages
    PROVE  Refused(event.type, event.body, age)
<1>1. CASE event.type = "subscriber_created"
  <2>1. PICK s \in People : event.body \in Spoilt("subscriber_created", "corrupt", Announcement(s))
    BY <1>1, EventTypesAre DEF Drafted
  <2>2. PICK e \in Announcement(s) : event.body \in CorruptSubscriber(e)
    BY <2>1 DEF Spoilt, Corrupted
  <2>3. s.id \in Nat
    BY DEF People
  <2> QED BY <1>1, <2>2, <2>3, SubscriberRefused
<1>2. CASE event.type # "subscriber_created"
  <2>1. event.type \in EventTypes \ {"subscriber_created"}
    BY <1>2 DEF Drafted
  <2>2. PICK s \in People, r \in People :
          event.body \in Spoilt(event.type, "corrupt", Generated(event.type, s, r))
    BY <1>2 DEF Drafted
  <2>3. PICK e \in Generated(event.type, s, r) : event.body \in Corrupted(event.type, e)
    BY <2>2 DEF Spoilt
  <2>4. s.id \in Nat
    BY DEF People
  <2> QED BY <2>1, <2>3, <2>4, CorruptedRefused
<1> QED BY <1>1, <1>2

-----------------------------------------------------------------------------
(* The theorems about events.                                              *)

\* What generate returns is accepted whenever it is read, but for a session whose
\* volume is rounded to zero, whatever the catalog and whoever it is about.
THEOREM GeneratedTaken == Spec => []GeneratedAccepted
<1>1. Drafted => GeneratedAccepted
  <2> SUFFICES ASSUME Drafted, pc = "publishing", event.made = "generate"
               PROVE  IF event.type = "dlq_record" THEN Conforms("dlq_record", event.body)
                      ELSE \A age \in Ages :
                              \/ Accepted(event.type, event.body, age)
                              \/ event.type = "data_usage" /\ event.body.mb_used.val = 0
    BY DEF GeneratedAccepted
  <2>1. CASE event.type = "dlq_record"
    <3>1. event.type \notin EventTypes
      BY <2>1 DEF EventTypes
    <3>2. event.body = PaymentFailure
      BY <2>1, <3>1 DEF Drafted
    <3> QED BY <2>1, <3>2, PaymentConforms
  <2>2. CASE event.type # "dlq_record"
    <3>1. IsEvent
      BY <2>2 DEF IsEvent
    <3> QED BY <2>2, <3>1, UnderWayMade, MadeAccepted
  <2> QED BY <2>1, <2>2
<1> QED BY <1>1, AlwaysDrafted, PTL

\* What corrupt returns breaks a rule, names the unknown subscriber, or is ahead of
\* the clock.
THEOREM CorruptedRejected == Spec => []CorruptRefused
<1>1. Drafted => CorruptRefused
  BY UnderWayRefused DEF CorruptRefused, Refused
<1> QED BY <1>1, AlwaysDrafted, PTL

\* Of the events one field away from a generated one, those the stream's rules take meet
\* the producer's contracts, and conversely, but for the gaps of each.
THEOREM ContractsAgree == Spec => []StreamAgreesWithContracts
<1>1. Drafted => StreamAgreesWithContracts
  <2> SUFFICES ASSUME Drafted, IsEvent, NEW e \in Neighbours
               PROVE  /\ Accepted(event.type, e, 0) =>
                            MeetsContract(event.type, e, 0) \/ StreamLenient(event.type, e)
                      /\ MeetsContract(event.type, e, 0) =>
                            Accepted(event.type, e, 0) \/ ContractLenient(event.type, e)
    BY DEF StreamAgreesWithContracts
  <2>1. event.type \in EventTypes /\ Made(event.type, event.body)
    BY UnderWayMade
  <2>2. CASE DOMAIN e # DOMAIN Fields(event.type)
    BY <2>1, <2>2, SameFields DEF Accepted, Conforms, MeetsContract
  <2>3. CASE DOMAIN e = DOMAIN Fields(event.type)
    BY <2>1, <2>3, NeighbourNumeric, Agreement
  <2> QED BY <2>2, <2>3
<1> QED BY <1>1, AlwaysDrafted, PTL

\* A row the rules let through is one the lake and the tables take, whenever it was made,
\* but for the gaps.
THEOREM AcceptedFit == Spec => []AcceptedRowsFit
<1>1. Drafted => AcceptedRowsFit
  <2> SUFFICES ASSUME Drafted, IsEvent, NEW e \in Neighbours, NEW made \in Moments,
                      Accepted(event.type, e, 0)
               PROVE  \/ FitsLake(event.type, e) /\ FitsTable(event.type, e, made)
                      \/ Unfit(event.type, e, made)
    BY DEF AcceptedRowsFit
  <2>1. event.type \in EventTypes /\ Made(event.type, event.body)
    BY UnderWayMade
  <2>2. DOMAIN e = DOMAIN Fields(event.type)
    BY DEF Accepted, Conforms
  <2> QED BY <2>1, <2>2, NeighbourNumeric, RowsFit
<1> QED BY <1>1, AlwaysDrafted, PTL

\* ... and one the suites expect, but for what rounds to zero and digits of another kind.
THEOREM AcceptedPass == Spec => []AcceptedRowsPassSuites
<1>1. Drafted => AcceptedRowsPassSuites
  <2> SUFFICES ASSUME Drafted, IsEvent, NEW e \in Neighbours, Accepted(event.type, e, 0)
               PROVE  Expected(event.type, e, 0) \/ Suspect(event.type, e)
    BY DEF AcceptedRowsPassSuites
  <2>1. event.type \in EventTypes /\ Made(event.type, event.body)
    BY UnderWayMade
  <2>2. DOMAIN e = DOMAIN Fields(event.type)
    BY DEF Accepted, Conforms
  <2> QED BY <2>1, <2>2, NeighbourNumeric, SuitesPassed
<1> QED BY <1>1, AlwaysDrafted, PTL

=============================================================================
