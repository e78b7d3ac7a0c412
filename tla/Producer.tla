------------------------------ MODULE Producer ------------------------------
(***************************************************************************)
(* The event producer: one process that registers subscribers in memory,     *)
(* makes events about them, spoils some, and hands each to a Kafka client    *)
(* that sends in the background and whose futures nobody looks at.           *)
(*                                                                         *)
(* A run ends by an exception or Ctrl-C, which flushes the client's buffer,   *)
(* or by a kill, which does not; either way the next run starts with an      *)
(* empty registry.                                                         *)
(*                                                                         *)
(* A definition whose comment begins with "Variant" is a faulty version of   *)
(* the one below it, a bug this code could have had.  No behaviour of Spec   *)
(* uses it; put in the other's place, it breaks a property below.            *)
(***************************************************************************)
EXTENDS Generators, Quality

CONSTANTS
    Msisdns,                \* the numbers _new_msisdn may draw
    InitialSubscribers,     \* INITIAL_SUBSCRIBERS
    MaxSends,               \* bound on events handed to the client
    MaxRuns,                \* bound on runs of the process
    MaxCopies               \* bound on copies of one event retries may append

ASSUME ProducerAssumption ==
    /\ IsFiniteSet(Msisdns)
    /\ InitialSubscribers \in Nat \ {0} /\ MaxSends \in Nat /\ MaxRuns \in Nat
    /\ MaxCopies \in Nat \ {0}

VARIABLES
    pc,         \* "down", "seeding", "emitting", "publishing" or "closing"
    run,        \* runs so far
    registry,   \* the subscribers of this run: records [id, msisdn]
    nextId,     \* next_subscriber_id
    event,      \* the event about to be published, <<>> if none
    sent,       \* what was handed to the client, in order
    buffer,     \* indices of sent still in the client's buffer
    copies,     \* how many copies of each are on its topic
    givenUp,    \* those whose retries are used up
    killed      \* runs that ended by a kill

process == <<pc, run, registry, nextId, event>>
client == <<sent, buffer, copies, givenUp>>
vars == <<process, client, killed>>

FirstId == 10001

\* What sent remembers of an event: the run, whether it announces a subscriber,
\* the id it names, NoOne if none, and the msisdn it announces.
NoOne == 0
Sends == [run : 1..MaxRuns, announces : BOOLEAN, id : Nat, msisdn : Msisdns \cup {NoOne}]

Named(e) ==
    CASE "subscriber_id" \in DOMAIN e -> e.subscriber_id.val
      [] "caller_id" \in DOMAIN e -> e.caller_id.val
      [] "sender_id" \in DOMAIN e -> e.sender_id.val
      [] DOMAIN e \cap {"subscriber_id", "caller_id", "sender_id"} = {} -> NoOne

Remembered(d) ==
    [run |-> run, announces |-> d.type = "subscriber_created", id |-> Named(d.body),
     msisdn |-> IF d.type = "subscriber_created" THEN d.body.msisdn.val.number ELSE NoOne]

\* Variant: no look at the registry.
FreshMsisdnsAny == Msisdns
\* _new_msisdn: draws until the number is not known to this run.
FreshMsisdns == Msisdns \ {s.msisdn : s \in registry}

\* The topic, or event type, whose generator makes e.
Draft(type, made, e) == event' = [type |-> type, made |-> made, body |-> e]

Spoilt(type, made, E) == IF made = "generate" THEN E ELSE UNION {Corrupted(type, e) : e \in E}

-----------------------------------------------------------------------------
Init ==
    /\ pc = "down" /\ run = 0
    /\ registry = {} /\ nextId = FirstId
    /\ event = <<>>
    /\ sent = <<>> /\ buffer = {} /\ copies = <<>> /\ givenUp = {}
    /\ killed = {}

\* Variant: the registry outlives the run, the counter of ids does not.
StartKeepsRegistry ==
    /\ pc = "down" /\ run < MaxRuns
    /\ pc' = "seeding" /\ run' = run + 1
    /\ nextId' = FirstId
    /\ UNCHANGED <<registry, event, client, killed>>

\* main, run by the container: a new run loop with a new registry.
Start ==
    /\ pc = "down" /\ run < MaxRuns
    /\ pc' = "seeding" /\ run' = run + 1
    /\ registry' = {} /\ nextId' = FirstId
    /\ UNCHANGED <<event, client, killed>>

\* SubscriberCreatedGenerator: generate registers the subscriber whose event it
\* returns, and corrupt spoils that event afterwards.
NewSubscriber(made) ==
    /\ \E m \in FreshMsisdns :
          LET s == [id |-> nextId, msisdn |-> m]
          IN  /\ registry' = registry \cup {s}
              /\ \E e \in Spoilt("subscriber_created", made, Announcement(s)) :
                    Draft("subscriber_created", made, e)
    /\ nextId' = nextId + 1
    /\ pc' = "publishing"

\* Variant: the subscribers are registered, as the tests do, and not announced.
SeedQuietly ==
    /\ pc = "seeding" /\ Len(sent) < MaxSends
    /\ \E m \in FreshMsisdns :
          registry' = registry \cup {[id |-> nextId, msisdn |-> m]}
    /\ nextId' = nextId + 1
    /\ pc' = IF Cardinality(registry') < InitialSubscribers THEN "seeding" ELSE "emitting"
    /\ UNCHANGED <<run, event, client, killed>>

\* seed_subscribers
Seed ==
    /\ pc = "seeding" /\ Len(sent) < MaxSends
    /\ NewSubscriber("generate")
    /\ UNCHANGED <<run, client, killed>>

\* emit_one: a payment failure, or one event of one generator, spoilt or not.
EmitOne ==
    /\ pc = "emitting" /\ Len(sent) < MaxSends
    /\ \/ \E made \in {"generate", "corrupt"} : NewSubscriber(made)
       \/ /\ \E type \in EventTypes \ {"subscriber_created"}, made \in {"generate", "corrupt"} :
                \E s, r \in registry : \E e \in Spoilt(type, made, Generated(type, s, r)) :
                    Draft(type, made, e)
          /\ pc' = "publishing"
          /\ UNCHANGED <<registry, nextId>>
       \/ /\ Draft("dlq_record", "generate", PaymentFailure)
          /\ pc' = "publishing"
          /\ UNCHANGED <<registry, nextId>>
    /\ UNCHANGED <<run, client, killed>>

\* KafkaEventPublisher.publish: send puts the event into the client's buffer.
Publish ==
    /\ pc = "publishing"
    /\ sent' = Append(sent, Remembered(event))
    /\ buffer' = buffer \cup {Len(sent) + 1}
    /\ copies' = Append(copies, 0)
    /\ event' = <<>>
    /\ pc' = IF Cardinality(registry) < InitialSubscribers THEN "seeding" ELSE "emitting"
    /\ UNCHANGED <<run, registry, nextId, givenUp, killed>>

\* An exception, of send when the buffer stays full, or Ctrl-C: main's finally
\* clause begins to flush.  An event not yet in the buffer is forgotten.
Stop ==
    /\ pc \in {"seeding", "emitting", "publishing"}
    /\ pc' = "closing"
    /\ event' = <<>>
    /\ UNCHANGED <<run, registry, nextId, client, killed>>

\* Variant: the process exits with events in the buffer.
CloseNoFlush ==
    /\ pc = "closing"
    /\ pc' = "down"
    /\ buffer' = {}
    /\ UNCHANGED <<run, registry, nextId, event, sent, copies, givenUp, killed>>

\* Variant: close waits until the broker has every event of the run.
CloseAllOnTopic ==
    /\ pc = "closing" /\ \A i \in DOMAIN sent : sent[i].run = run => copies[i] > 0
    /\ pc' = "down"
    /\ UNCHANGED <<run, registry, nextId, event, client, killed>>

\* flush returns once each buffered event is acknowledged or given up.
Close ==
    /\ pc = "closing" /\ buffer = {}
    /\ pc' = "down"
    /\ UNCHANGED <<run, registry, nextId, event, client, killed>>

\* SIGKILL, or SIGTERM, which main does not handle.
Kill ==
    /\ pc # "down"
    /\ pc' = "down"
    /\ event' = <<>>
    /\ buffer' = {}
    /\ killed' = killed \cup {run}
    /\ UNCHANGED <<run, registry, nextId, sent, copies, givenUp>>

(***************************************************************************)
(* The client's sender thread.  It batches per partition and retries, so      *)
(* events may reach their topics in any order.                              *)
(***************************************************************************)
\* The broker appends the event and the client learns of it ...
Deliver(i) ==
    /\ copies[i] < MaxCopies
    /\ copies' = [copies EXCEPT ![i] = @ + 1]
    /\ buffer' = buffer \ {i}
    /\ UNCHANGED <<process, sent, givenUp, killed>>

\* ... or does not, and will retry ...
DeliverUnacknowledged(i) ==
    /\ copies[i] < MaxCopies
    /\ copies' = [copies EXCEPT ![i] = @ + 1]
    /\ UNCHANGED <<process, sent, buffer, givenUp, killed>>

\* ... until the retries are used up.
GiveUp(i) ==
    /\ buffer' = buffer \ {i}
    /\ givenUp' = givenUp \cup {i}
    /\ UNCHANGED <<process, sent, copies, killed>>

SenderStep == \E i \in buffer : Deliver(i) \/ GiveUp(i)

Next ==
    \/ Start \/ Seed \/ EmitOne \/ Publish \/ Stop \/ Close \/ Kill
    \/ \E i \in buffer : Deliver(i) \/ DeliverUnacknowledged(i) \/ GiveUp(i)

Spec == Init /\ [][Next]_vars

\* The sender thread runs, retries are bounded, and main is not stuck.
FairSpec == Spec /\ WF_vars(SenderStep) /\ WF_vars(Close)
-----------------------------------------------------------------------------
(* Properties of the process.                                              *)

\* Every variable has its type; a run's registry has each id once, all handed
\* out by next_subscriber_id.
TypeOK ==
    /\ pc \in {"down", "seeding", "emitting", "publishing", "closing"}
    /\ run \in 0..MaxRuns /\ (run = 0 => pc = "down")
    /\ nextId \in Nat /\ nextId >= FirstId
    /\ registry \subseteq [id : FirstId..(nextId - 1), msisdn : Msisdns]
    /\ pc = "publishing" <=> event # <<>>
    /\ sent \in Seq(Sends) /\ Len(sent) <= MaxSends
    /\ copies \in Seq(0..MaxCopies) /\ Len(copies) = Len(sent)
    /\ buffer \subseteq DOMAIN sent /\ givenUp \subseteq DOMAIN sent
    /\ buffer \cap givenUp = {}
    /\ pc = "down" => buffer = {}
    /\ killed \subseteq 1..run

\* Within a run no two announcements share an id or an msisdn, spoilt ones
\* included: is_known_msisdn is asked before each registration.
OnePersonPerRun ==
    \A i, j \in DOMAIN sent :
        /\ sent[i].announces /\ sent[j].announces
        /\ sent[i].run = sent[j].run
        /\ sent[i].id = sent[j].id \/ sent[i].msisdn = sent[j].msisdn
        => i = j

\* Why the warehouse may not know the subscriber of an event that is on its
\* topic: every event names a subscriber announced before it in the same run
\* (but for those spoilt by an unknown one), and the announcement is on its
\* topic, was spoilt by corrupt, is still buffered, was given up, or died with
\* the run.
UnknownExplained ==
    \A i \in DOMAIN sent :
        sent[i].id \notin {NoOne, UnknownSubscriber} =>
            \E j \in 1..i : /\ sent[j].announces /\ sent[j].id = sent[i].id
                            /\ sent[j].run = sent[i].run
                            /\ \/ copies[j] > 0
                               \/ j \in buffer \cup givenUp
                               \/ sent[j].run \in killed

\* A run that was not killed leaves no event behind unsent: each is on its
\* topic, given up, or still in the buffer of the run that is closing.
NothingLeftBehind ==
    \A i \in DOMAIN sent :
        \/ copies[i] > 0 \/ i \in buffer \cup givenUp
        \/ sent[i].run \in killed

\* A producer that has begun to shut down ends, though the broker may refuse
\* some of its events.
ShutsDown == pc = "closing" ~> pc = "down"

\* What event-schemas.md:52 says of subscriber_created: msisdn is unique.  The
\* registry knows the numbers of its own run only.
MsisdnUnique ==
    \A i, j \in DOMAIN sent :
        /\ sent[i].announces /\ sent[j].announces
        /\ sent[i].msisdn = sent[j].msisdn
        => sent[i].id = sent[j].id

-----------------------------------------------------------------------------
(* Properties of the events, read by the stream at some age.               *)

Ages == {0, CLOCK_SKEW, Future - CLOCK_SKEW - 1, Future - CLOCK_SKEW, Future}

\* What generate returns is accepted whenever it is read, but for a data session
\* whose volume is rounded to zero.
GeneratedAccepted ==
    pc = "publishing" /\ event.made = "generate" =>
        LET e == event.body
        IN  IF event.type = "dlq_record" THEN Conforms("dlq_record", e)
            ELSE \A age \in Ages :
                    \/ Accepted(event.type, e, age)
                    \/ event.type = "data_usage" /\ e.mb_used.val = 0

\* What corrupt returns is refused, or names an unknown subscriber; an event from
\* the future only as long as it is read in time.
CorruptRefused ==
    pc = "publishing" /\ event.made = "corrupt" =>
        \A age \in Ages :
            \/ ~Accepted(event.type, event.body, age)
            \/ Named(event.body) = UnknownSubscriber
            \/ event.body.timestamp = Time(Future) /\ age >= Future - 30

\* The events one field away from a valid one about to be published: a field
\* left out, added, or replaced by a value of another type, in another form, or at
\* a limit of its rule or its column.
OtherTimes == {Time(t) : t \in {-1, CLOCK_SKEW, CLOCK_SKEW + 1, CEILING + 1}}
                  \cup {Instant(form, 0) : form \in {"python", "pandas", "none"}}
OtherMsisdns == {Msisdn("0", NoOne), MsisdnIn("superscript"), MsisdnIn("newline")}
OtherInts == {-1, 0, 1, 100, 101, MAX_SMS_LENGTH, MAX_SMS_LENGTH + 1, MAX_CALL_SECONDS,
              MAX_CALL_SECONDS + 1, INT_MAX, INT_MAX + 1, BIGINT_MAX, BIGINT_MAX + 1,
              -(BIGINT_MAX + 1), -(BIGINT_MAX + 2)}
OtherFloats == {0, 4, 5, MAX_RECHARGE, MAX_RECHARGE + 1, MAX_SESSION_MB, MAX_SESSION_MB + 1}
OtherNames == {"TooLong", "other"} \cup TOWER_IDS \cup DOMAIN BUNDLE_PRICES

OtherValues(f, v) ==
    {Value("str", v.val), Value("float", v.val), Value("bool", v.val),
     Number(IF v.type = "float" THEN v.val \div 1000 ELSE v.val)} \cup
    CASE f = "timestamp" -> OtherTimes
      [] f = "event_id" -> {Str("UUID"), Str("no uuid")}
      [] f \in MsisdnColumns -> OtherMsisdns
      [] v.type = "int" -> {Number(n) : n \in OtherInts}
      [] v.type = "float" -> {Decimal(n) : n \in OtherFloats}
      [] v.type = "bool" -> {}
      [] f \notin {"timestamp", "event_id"} \cup MsisdnColumns /\ v.type = "str" ->
           {Str(name) : name \in OtherNames}

Neighbours ==
    LET e == event.body
    IN  {e}
        \cup (UNION {{[e EXCEPT ![f] = v] : v \in OtherValues(f, e[f])} : f \in DOMAIN e})
        \cup {[g \in DOMAIN e \ {f} |-> e[g]] : f \in DOMAIN e}
        \cup {Merged(e, [unexpected |-> Str("")])}

IsEvent == pc = "publishing" /\ event.made = "generate" /\ event.type # "dlq_record"

\* Where the stream takes an event that the contracts refuse: it does not look at the
\* form of the event id, at the event type, the version, the sign of a new
\* subscriber's id, a tower's technology, or how many bits an integer has; it takes
\* an integer amount, any digits in an msisdn, and times that pandas cannot read.
StreamLenient(type, e) ==
    \/ ~UuidOK(e.event_id) \/ e.event_type.val # type \/ e.schema_version.val < 1
    \/ type # "tower_status" /\ Named(e) < 1
    \/ type = "tower_status" /\ e.technology.val \notin TECHNOLOGIES
    \/ \E f \in DOMAIN e : Fields(type)[f] = "float" /\ e[f].type = "int"
    \/ \E f \in DOMAIN e : e[f].type = "int" /\ ~Int64(e[f])
    \/ \E f \in DOMAIN e \cap MsisdnColumns : e[f].val.digits = "superscript"
    \/ e.timestamp.val.form = "python"

\* Where the contracts take an event that the stream refuses: they do not know the
\* price of a bundle, take an msisdn with a newline after it, and times that
\* fromisoformat cannot read.
ContractLenient(type, e) ==
    \/ type = "bundle_purchase" /\ e.price.val # BUNDLE_PRICES[e.bundle_code.val]
    \/ \E f \in DOMAIN e \cap MsisdnColumns : e[f].val.digits = "newline"
    \/ e.timestamp.val.form = "pandas"

\* The stream and the contracts are two readings of one document, with fields, limits
\* and forms of their own: what one takes the other takes, but for the gaps above.
StreamAgreesWithContracts ==
    IsEvent => \A e \in Neighbours :
        LET accepted == Accepted(event.type, e, 0)
            meets == MeetsContract(event.type, e, 0)
        IN  /\ accepted => meets \/ StreamLenient(event.type, e)
            /\ meets => accepted \/ ContractLenient(event.type, e)

\* The first and the last moment of dim_date's days.
Moments == {DimDates.first, DimDates.last}

\* What the rules let through although a sink raises on it, or a join drops it: an
\* event id PostgreSQL does not cast, a date outside dim_date, a technology nobody
\* checks, a session's seconds or a tower's devices beyond 32 bits, any other integer
\* without a limit beyond 64, and a tower or bundle that came into the catalog after
\* the database was created.
Unfit(type, e, made) ==
    \/ ~UuidCasts(e.event_id) \/ ~Dated(e, made)
    \/ type = "tower_status" /\ e.technology.val \notin TECHNOLOGIES
    \/ type = "data_usage" /\ e.session_seconds.val > INT_MAX
    \/ type = "tower_status" /\ e.connected_devices.val > INT_MAX
    \/ ~Int64(e.schema_version) \/ Named(e) < -(BIGINT_MAX + 1) \/ Named(e) > BIGINT_MAX
    \/ "tower_id" \in DOMAIN e /\ e.tower_id.val \in TOWER_IDS \ SEEDED_TOWERS
    \/ "bundle_code" \in DOMAIN e
          /\ e.bundle_code.val \in DOMAIN BUNDLE_PRICES \ SEEDED_BUNDLES

\* A row the rules let through is one the lake and the warehouse can store and the
\* joins keep, but for those above: no other value gets as far as a statement that
\* raises, and stops the query for good.
AcceptedRowsFit ==
    IsEvent => \A e \in Neighbours :
        Accepted(event.type, e, 0) => \A made \in Moments :
            \/ FitsLake(event.type, e) /\ FitsTable(event.type, e, made)
            \/ Unfit(event.type, e, made)

\* What the rules let through although a suite objects to its row: an amount or a
\* volume that is positive in the event and zero in the table, which keeps two
\* decimals, and a new subscriber's msisdn in digits the regex does not know.
Suspect(type, e) ==
    \/ \E f \in DOMAIN e \cap {"amount", "mb_used"} : Float(e[f]) > 0 /\ Rounded(e[f]) = 0
    \/ type = "subscriber_created" /\ e.msisdn.val.digits = "superscript"

\* A row the rules let through passes the at-rest suites, but for those above.
AcceptedRowsPassSuites ==
    IsEvent => \A e \in Neighbours :
        Accepted(event.type, e, 0) => Expected(event.type, e, 0) \/ Suspect(event.type, e)
=============================================================================
