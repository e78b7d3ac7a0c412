------------------------- MODULE EventsReplay_proofs -------------------------
(***************************************************************************)
(* What a replay does, for every value of the constants: it gives the same   *)
(* reasons for its rejections, and once the batch was committed it leaves the  *)
(* warehouse as it is, unless the clock has its part in a verdict.            *)
(*                                                                         *)
(* The invariant follows both the first attempt and a replay.  On a batch whose *)
(* verdicts are timeless both accept the same events, the valid ones, each id   *)
(* once.  After its statement each of them is held by the open transaction; at *)
(* the commit all are, in the tables then committed; and on tables that hold an *)
(* event its statement does nothing.                                       *)
(***************************************************************************)
EXTENDS EventsWhole_proofs

Timely == \A m \in BatchMsgs : ~ClockDependent(m)

\* The statement on m has nothing to add to the tables t.
Held(t, m) ==
    \/ Written(t, m)
    \/ /\ m.topic \in FactTopics
       /\ ~(m.seeded /\ \E s \in t.subs : s.key = m.key)

\* The events a topic of the batch has for its statement, when all is timely.
Valid(k) == {i \in Offsets(TopicOrder[k]) : log[TopicOrder[k]][i].fault = "none"}
FirstValid(k) ==
    {i \in Valid(k) : \A j \in Valid(k) :
        j < i => log[TopicOrder[k]][j].id # log[TopicOrder[k]][i].id}

HeldTopic(t, k) == \A i \in FirstValid(k) : Held(t, log[TopicOrder[k]][i])
HeldBatch(t) == \A k \in 1..7 : HeldTopic(t, k)

ReplayInv ==
    /\ pc \notin {"down", "idle"} => planned # done
    /\ pc \in {"publish", "flush"} => applied
    /\ Timely =>
          /\ pc \in {"lake", "sink"} => events = FirstValid(turn)
          /\ pc \in {"validate", "lake", "sink"} =>
                \A k \in 1..(turn - 1) : HeldTopic(tx, k)
          /\ pc \in {"commit", "publish", "flush"} => HeldBatch(tx)
          /\ applied => tx = db /\ HeldBatch(db)

-----------------------------------------------------------------------------
(* The verdicts.                                                           *)

LEMMA TimelyVerdict ==
    ASSUME NEW m \in Msgs, ~ClockDependent(m), NEW now \in Instants
    PROVE  /\ Verdict(m, now) = "" <=> m.fault = "none"
           /\ m.fault = "parse" => Verdict(m, now) = "PARSE_ERROR"
           /\ m.fault = "schema" => Verdict(m, now) = "SCHEMA_VIOLATION"
           /\ m.fault = "rule" => Verdict(m, now) = "RULE_VIOLATION"
<1>1. m.ts \in Nat /\ now \in Nat /\ m.fault \in Faults
  BY MsgsAssumption, InstantsAssumption
<1>2. ~Ahead(m, now)
  BY <1>1 DEF ClockDependent, Ahead, ClockSkew
<1> QED BY <1>1, <1>2 DEF Verdict, Faults

LEMMA TimelyEvents ==
    ASSUME TypeOK, ValidateTopic, Timely
    PROVE  events' = FirstValid(turn)
<1>1. /\ events' = Dedupe(Accepted) /\ turn \in 1..7 /\ clock \in Instants
      /\ Topic = TopicOrder[turn] /\ Topic \in Topics
  BY ValidateEffect, TopicOrderFacts DEF Topic, TypeOK
<1>2. ASSUME NEW i \in Offsets(Topic)
      PROVE  Verdict(log[Topic][i], clock) = "" <=> log[Topic][i].fault = "none"
  <2>1. log[Topic][i] \in Msgs /\ log[Topic][i] \in BatchMsgs
    BY <1>1, OffsetsAreLogged DEF BatchMsgs
  <2> QED BY <1>1, <2>1, TimelyVerdict DEF Timely
<1>3. Accepted = Valid(turn)
  BY <1>1, <1>2 DEF Accepted, Refused, Valid
<1> QED BY <1>1, <1>3 DEF Dedupe, FirstValid

-----------------------------------------------------------------------------
(* Held.                                                                   *)

\* A held event stays held while the tables grow and dim_subscriber does not.
LEMMA HeldMonotone ==
    ASSUME NEW t \in Tables, NEW u \in Tables, Extends(t, u), u.subs = t.subs,
           NEW m \in Msgs, Held(t, m)
    PROVE  Held(u, m)
BY WrittenMonotone DEF Held

LEMMA ValidAreMsgs ==
    ASSUME TypeOK, NEW k \in 1..7, NEW i \in FirstValid(k)
    PROVE  log[TopicOrder[k]][i] \in Msgs
BY TopicOrderFacts, OffsetsAreLogged DEF FirstValid, Valid

\* A step that leaves the logs' batch alone leaves its events alone.
LEMMA SameBatch ==
    ASSUME TypeOK,
           UNCHANGED <<planned, done>>,
           \A t \in Topics : \A i \in Offsets(t) : log'[t][i] = log[t][i]
    PROVE  /\ BatchMsgs' = BatchMsgs /\ Timely' = Timely
           /\ \A k \in 1..7 : FirstValid(k)' = FirstValid(k)
           /\ \A k \in 1..7 : \A i \in FirstValid(k) :
                 log'[TopicOrder[k]][i] = log[TopicOrder[k]][i]
<1>1. \A t : Offsets(t)' = Offsets(t)
  BY DEF Offsets
<1>2. BatchMsgs' = BatchMsgs
  BY <1>1 DEF BatchMsgs
<1>3. Timely' = Timely
  BY <1>2 DEF Timely, ClockDependent
<1>4. ASSUME NEW k \in 1..7
      PROVE  /\ FirstValid(k)' = FirstValid(k)
             /\ \A i \in FirstValid(k) : log'[TopicOrder[k]][i] = log[TopicOrder[k]][i]
  <2> DEFINE t == TopicOrder[k]
  <2>1. t \in Topics
    BY TopicOrderFacts
  <2>2. \A i \in Offsets(t) : log'[t][i] = log[t][i]
    BY <2>1
  <2>3. Valid(k)' = Valid(k) /\ Valid(k) \subseteq Offsets(t)
    BY <1>1, <2>2 DEF Valid
  <2> QED BY <2>2, <2>3 DEF FirstValid
<1> QED BY <1>2, <1>3, <1>4

-----------------------------------------------------------------------------
(* The statements.                                                         *)

LEMMA SubscribersFirst ==
    ASSUME NEW k \in 1..7, TopicOrder[k] = SubscriberTopic
    PROVE  k = 1
BY DEF TopicOrder, SubscriberTopic

\* After its statement the topic's events are held, and those of the topics
\* before it remain so: the subscribers, whom the others depend on, come first.
LEMMA SinkHolds ==
    ASSUME TypeOK, RowsInv, WholeInv,
           UpsertSubscribers \/ UpdateTowerStatus \/ InsertFacts
    PROVE  /\ \A i \in events : Held(tx', log[Topic][i])
           /\ \A k \in 1..(turn - 1) : HeldTopic(tx, k) => HeldTopic(tx', k)
<1>1. /\ pc = "sink" /\ turn \in 1..7 /\ Topic = TopicOrder[turn]
      /\ tx \in Tables /\ tx' \in Tables /\ Extends(tx, tx')
  <2>1. tx' \in Tables /\ Extends(tx, tx')
    BY SubscribersSound, TowersSound, FactsSound DEF Sound
  <2>2. pc = "sink"
    BY DEF UpsertSubscribers, UpdateTowerStatus, InsertFacts
  <2>3. turn \in 1..7 /\ tx \in Tables
    BY <2>2 DEF TypeOK
  <2> QED BY <2>1, <2>2, <2>3 DEF Topic
<1>2. CASE UpsertSubscribers
  <2>1. turn = 1
    BY <1>1, <1>2, SubscribersFirst DEF UpsertSubscribers
  <2>2. 1..(turn - 1) = {}
    BY <2>1
  <2> QED BY <1>2, <2>2, SubscribersWritten DEF Held
<1>3. CASE UpdateTowerStatus \/ InsertFacts
  <2>1. tx'.subs = tx.subs
    BY <1>1, <1>3 DEF UpdateTowerStatus, InsertFacts, Tables
  <2>2. ASSUME NEW k \in 1..(turn - 1), HeldTopic(tx, k), NEW i \in FirstValid(k)
        PROVE  Held(tx', log[TopicOrder[k]][i])
    <3>1. k \in 1..7
      BY <1>1
    <3>2. log[TopicOrder[k]][i] \in Msgs
      BY <3>1, ValidAreMsgs
    <3>3. Held(tx, log[TopicOrder[k]][i])
      BY <2>2 DEF HeldTopic
    <3> QED BY <1>1, <2>1, <3>2, <3>3, HeldMonotone
  <2>3. ASSUME InsertFacts, NEW i \in events PROVE Held(tx', log[Topic][i])
    <3>1. CASE i \in Known /\ log[Topic][i].seeded
      BY <2>3, <3>1, FactStored DEF Held
    <3>2. CASE i \notin Known
      <4>1. ~ \E s \in tx'.subs : s.key = log[Topic][i].key
        BY <2>1, <3>2 DEF Known
      <4>2. log[Topic][i].topic \in FactTopics
        BY <1>1, <2>3, EventFacts DEF InsertFacts
      <4> QED BY <4>1, <4>2 DEF Held
    <3>3. CASE ~log[Topic][i].seeded
      BY <1>1, <2>3, <3>3, EventFacts DEF InsertFacts, Held
    <3> QED BY <3>1, <3>2, <3>3
  <2>4. ASSUME UpdateTowerStatus, NEW i \in events PROVE Held(tx', log[Topic][i])
    BY <2>4, StatusWritten DEF Held
  <2> QED BY <1>3, <2>2, <2>3, <2>4 DEF HeldTopic
<1> QED BY <1>2, <1>3

\* The statement of a topic whose events are all held changes nothing.
LEMMA SinkIdles ==
    ASSUME TypeOK, RowsInv, WholeInv,
           UpsertSubscribers \/ UpdateTowerStatus \/ InsertFacts,
           \A i \in events : Held(tx, log[Topic][i])
    PROVE  tx' = tx
<1>1. /\ pc = "sink" /\ tx \in Tables /\ TowerKeys(tx)
      /\ \A i \in events : log[Topic][i].topic = Topic /\ log[Topic][i] \in Msgs
  BY EventFacts DEF TypeOK, UpsertSubscribers, UpdateTowerStatus, InsertFacts, RowsInv, Keys
<1>2. CASE UpsertSubscribers
  <2>1. ASSUME NEW i \in events PROVE \E s \in tx.subs : s.key = log[Topic][i].key
    BY <1>1, <1>2, WrittenCases
       DEF UpsertSubscribers, Held, FactTopics
  <2>2. NewSubscribers = {}
    BY <2>1 DEF NewSubscribers, At
  <2>3. tx' = [tx EXCEPT !.subs = tx.subs \cup {}]
    BY <1>2, <2>2 DEF UpsertSubscribers
  <2> QED BY <1>1, <2>3 DEF Tables
<1>3. CASE UpdateTowerStatus
  <2>1. ASSUME NEW i \in events
        PROVE  \E s \in tx.towers : s.key = log[Topic][i].key /\ s.ts >= log[Topic][i].ts
    BY <1>1, <1>3, WrittenCases
       DEF UpdateTowerStatus, Held, FactTopics
  <2>2. ASSUME NEW e \in LatestStatus
        PROVE  \E s \in tx.towers : s.key = e.key /\ ~(e.ts > s.ts)
    <3>1. PICK i \in events : e = log[Topic][i]
      BY DEF LatestStatus, At
    <3>2. PICK s \in tx.towers : s.key = e.key /\ s.ts >= e.ts
      BY <2>1, <3>1
    <3>3. s.ts \in Nat /\ e.ts \in Nat
      BY <1>1, <3>1, MsgFacts DEF Tables
    <3> QED BY <3>2, <3>3
  <2>3. ASSUME NEW e \in LatestStatus, NEW r \in tx.towers, e.key = r.key
        PROVE  ~(e.ts > r.ts)
    BY <1>1, <2>2, <2>3 DEF TowerKeys
  <2>4. StatusUpserted(tx.towers, LatestStatus) = tx.towers
    BY <2>2, <2>3 DEF StatusUpserted
  <2>5. tx' = [tx EXCEPT !.towers = tx.towers]
    BY <1>3, <2>4 DEF UpdateTowerStatus
  <2> QED BY <1>1, <2>5 DEF Tables
<1>4. CASE InsertFacts
  <2>1. NewFacts = {}
    <3>1. SUFFICES ASSUME NEW m \in NewFacts PROVE FALSE
      OBVIOUS
    <3>2. PICK i \in events : /\ m = log[Topic][i] /\ m.seeded
                              /\ \E s \in tx.subs : s.key = m.key
      BY DEF NewFacts, Known, At
    <3>3. m.topic = Topic /\ Topic \in FactTopics
      BY <1>1, <1>4, <3>2 DEF InsertFacts
    <3>4. Written(tx, m)
      BY <3>2 DEF Held
    <3>5. \E f \in Stored(tx.facts) : f.topic = m.topic /\ f.id = m.id
      BY <3>3, <3>4, WrittenCases
    <3> QED BY <3>5 DEF NewFacts
  <2> DEFINE facts2 == [m \in Msgs |-> tx.facts[m] + IF m \in NewFacts THEN 1 ELSE 0]
  <2>2. facts2 = tx.facts
    <3>1. facts2 = [m \in Msgs |-> tx.facts[m] + 0]
      BY <2>1
    <3>2. tx.facts \in [Msgs -> Nat]
      BY <1>1 DEF Tables
    <3>3. \A m \in Msgs : tx.facts[m] + 0 = tx.facts[m]
      BY <3>2
    <3> QED BY <3>1, <3>2, <3>3
  <2>3. tx' = [tx EXCEPT !.facts = facts2]
    BY <1>4 DEF InsertFacts
  <2> HIDE DEF facts2
  <2> QED BY <1>1, <2>2, <2>3 DEF Tables
<1> QED BY <1>2, <1>3, <1>4

-----------------------------------------------------------------------------
(* The actions.                                                            *)

LEMMA ReplayInit == Init => ReplayInv
BY DEF Init, ReplayInv

\* Steps that leave the batch, the tables and the driver's place in it alone, or
\* end process.
LEMMA ReplayUnchanged ==
    ASSUME TypeOK, ReplayInv, UNCHANGED <<planned, done, tx, db, applied>>,
           \A t \in Topics : \A i \in Offsets(t) : log'[t][i] = log[t][i],
           \/ UNCHANGED <<pc, turn, events>>
           \/ pc = "lake" /\ pc' = "sink" /\ UNCHANGED <<turn, events>>
           \/ pc = "publish" /\ pc' = "flush"
           \/ pc = "down" /\ pc' = "idle"
    PROVE  ReplayInv'
<1>1. Timely' = Timely
  BY SameBatch
<1>2. ASSUME NEW k \in 1..7
      PROVE  /\ FirstValid(k)' = FirstValid(k)
             /\ HeldTopic(tx, k) => HeldTopic(tx, k)'
             /\ HeldTopic(db, k) => HeldTopic(db, k)'
  <2>1. /\ FirstValid(k)' = FirstValid(k)
        /\ \A i \in FirstValid(k) : log'[TopicOrder[k]][i] = log[TopicOrder[k]][i]
    BY SameBatch
  <2>2. tx' = tx /\ db' = db
    OBVIOUS
  <2> QED BY <2>1, <2>2 DEF HeldTopic
<1>3. HeldBatch(tx) => HeldBatch(tx)'
  BY <1>2 DEF HeldBatch
<1>4. HeldBatch(db) => HeldBatch(db)'
  BY <1>2 DEF HeldBatch
<1>5. /\ pc' \in {"lake", "sink"} => pc \in {"lake", "sink"} /\ UNCHANGED <<turn, events>>
      /\ pc' \in {"validate", "lake", "sink"} =>
            pc \in {"validate", "lake", "sink"} /\ turn' = turn
      /\ pc' \in {"commit", "publish", "flush"} => pc \in {"commit", "publish", "flush"}
      /\ pc' \in {"publish", "flush"} => pc \in {"publish", "flush"}
      /\ pc' \notin {"down", "idle"} => pc \notin {"down", "idle"}
  OBVIOUS
<1>6. ASSUME pc \in {"lake", "sink"} PROVE turn \in 1..7
  BY <1>6 DEF TypeOK
<1>7. turn \in 0..8
  BY DEF TypeOK
<1> QED BY <1>1, <1>2, <1>3, <1>4, <1>5, <1>6, <1>7 DEF ReplayInv

LEMMA ReplayPlan == ASSUME TypeOK, Plan PROVE ReplayInv'
BY DEF Plan, ReplayInv

LEMMA ReplayBegin == ASSUME TypeOK, ReplayInv, Begin PROVE ReplayInv'
<1>1. /\ UNCHANGED <<log, planned, done, tx, db, applied>>
      /\ pc' = "validate" /\ turn' = 1 /\ planned # done
  BY DEF Begin, AllTaken, external, checkpoint, history
<1>2. Timely' = Timely /\ (HeldBatch(db) => HeldBatch(db)')
  BY <1>1, SameBatch DEF HeldBatch, HeldTopic, Held, Written, Stored
<1>3. 1..(turn' - 1) = {}
  BY <1>1
<1> QED BY <1>1, <1>2, <1>3 DEF ReplayInv

LEMMA ReplayValidate == ASSUME TypeOK, ReplayInv, ValidateTopic PROVE ReplayInv'
<1>1. /\ UNCHANGED <<log, planned, done, tx, db, applied>>
      /\ pc = "validate" /\ turn \in 1..7
      /\ \/ events' = {} /\ turn' = turn + 1 /\ pc' = "validate"
         \/ pc' = "lake" /\ turn' = turn
  BY ValidateEffect DEF ValidateTopic, history
<1>2. /\ Timely' = Timely
      /\ \A k \in 1..7 : FirstValid(k)' = FirstValid(k)
  BY <1>1, SameBatch
<1>3. \A k \in 1..7 : HeldTopic(tx, k) => HeldTopic(tx, k)'
  BY <1>1, <1>2 DEF HeldTopic, Held, Written, Stored
<1>4. HeldBatch(db) => HeldBatch(db)'
  BY <1>1, <1>2 DEF HeldBatch, HeldTopic, Held, Written, Stored
<1>5. ASSUME Timely, pc' = "validate", NEW k \in 1..(turn' - 1)
      PROVE  HeldTopic(tx, k)
  <2>1. CASE k = turn
    <3>1. FirstValid(k) = {}
      BY <1>1, <1>5, <2>1, TimelyEvents
    <3> QED BY <3>1 DEF HeldTopic
  <2>2. CASE k # turn
    <3>1. k \in 1..(turn - 1)
      BY <1>1, <1>5, <2>2
    <3> QED BY <1>1, <1>5, <3>1 DEF ReplayInv
  <2> QED BY <2>1, <2>2
<1>6. ASSUME Timely, pc' = "lake"
      PROVE  events' = FirstValid(turn)'
  BY <1>1, <1>6, TimelyEvents DEF FirstValid, Valid, Offsets
<1>7. ASSUME Timely, pc' = "lake", NEW k \in 1..(turn' - 1)
      PROVE  HeldTopic(tx, k)
  BY <1>1, <1>7 DEF ReplayInv
<1>8. 1..(turn' - 1) \subseteq 1..7
  BY <1>1
<1>9. Timely /\ applied => tx = db /\ HeldBatch(db)
  BY DEF ReplayInv
<1>10. planned # done
  BY <1>1 DEF ReplayInv
<1> QED BY <1>1, <1>2, <1>3, <1>4, <1>5, <1>6, <1>7, <1>8, <1>9, <1>10 DEF ReplayInv

LEMMA ReplaySinks ==
    ASSUME TypeOK, RowsInv, WholeInv, ReplayInv,
           UpsertSubscribers \/ UpdateTowerStatus \/ InsertFacts
    PROVE  ReplayInv'
<1>1. /\ UNCHANGED <<log, planned, done, db, applied>>
      /\ pc = "sink" /\ pc' = "validate" /\ turn' = turn + 1
  BY DEF UpsertSubscribers, UpdateTowerStatus, InsertFacts, NextTopic, external,
         checkpoint, history
<1>2. turn \in 1..7 /\ Topic = TopicOrder[turn]
  BY <1>1 DEF TypeOK, Topic
<1>3. Timely' = Timely /\ \A k \in 1..7 : FirstValid(k)' = FirstValid(k)
  BY <1>1, SameBatch
<1>4. HeldBatch(db) => HeldBatch(db)'
  BY <1>1, <1>3 DEF HeldBatch, HeldTopic, Held, Written, Stored
<1>5. \A k \in 1..7 : HeldTopic(tx', k) => HeldTopic(tx, k)'
  BY <1>1, <1>3 DEF HeldTopic, Held, Written, Stored
<1>6. ASSUME Timely, NEW k \in 1..(turn' - 1) PROVE HeldTopic(tx', k)
  <2>1. CASE k = turn
    <3>1. FirstValid(k) = events
      BY <1>1, <1>6, <2>1 DEF ReplayInv
    <3> QED BY <1>2, <2>1, <3>1, SinkHolds DEF HeldTopic
  <2>2. CASE k # turn
    <3>1. k \in 1..(turn - 1)
      BY <1>1, <1>2, <1>6, <2>2
    <3>2. HeldTopic(tx, k)
      BY <1>1, <1>6, <3>1 DEF ReplayInv
    <3> QED BY <3>1, <3>2, SinkHolds
  <2> QED BY <2>1, <2>2
<1>7. ASSUME Timely, applied PROVE tx' = tx /\ tx = db /\ HeldBatch(db)
  <2>1. tx = db /\ HeldBatch(db) /\ events = FirstValid(turn)
    BY <1>1, <1>7 DEF ReplayInv
  <2>2. \A i \in events : Held(tx, log[Topic][i])
    BY <1>2, <2>1 DEF HeldBatch, HeldTopic
  <2> QED BY <2>1, <2>2, SinkIdles
<1>8. 1..(turn' - 1) \subseteq 1..7
  BY <1>1, <1>2
<1>9. planned # done
  BY <1>1 DEF ReplayInv
<1> QED BY <1>1, <1>3, <1>4, <1>5, <1>6, <1>7, <1>8, <1>9 DEF ReplayInv

\* On a replay the refresh computes the rollups from the facts they were
\* computed from.
LEMMA ReplayRefresh ==
    ASSUME TypeOK, RollupInv, RollupInv', ReplayInv, RefreshRollups
    PROVE  ReplayInv'
<1>1. /\ UNCHANGED <<log, planned, done, db, applied>>
      /\ pc = "validate" /\ pc' = "commit" /\ turn = 8 /\ tx \in Tables
      /\ tx' = tx \/ \E r : tx' = [tx EXCEPT !.rollup = r]
  <2>1. turn > 7 /\ turn \in 0..8
    BY TopicOrderFacts DEF RefreshRollups, TypeOK
  <2>2. tx' = tx \/ \E r : tx' = [tx EXCEPT !.rollup = r]
    BY DEF RefreshRollups
  <2>3. UNCHANGED <<log, planned, done, db, applied>> /\ pc = "validate" /\ pc' = "commit"
    BY DEF RefreshRollups, external, checkpoint, history
  <2>4. tx \in Tables
    BY DEF TypeOK
  <2>5. turn = 8
    BY <2>1
  <2> QED BY <2>2, <2>3, <2>4, <2>5
<1>2. tx'.subs = tx.subs /\ tx'.facts = tx.facts /\ tx'.towers = tx.towers
  BY <1>1 DEF Tables
<1>3. Timely' = Timely /\ \A k \in 1..7 : FirstValid(k)' = FirstValid(k)
  BY <1>1, SameBatch
<1>4. \A m : (Held(tx, m) => Held(tx', m)) /\ (Held(db, m) => Held(db', m))
  BY <1>1, <1>2 DEF Held, Written, Stored
<1>5. /\ HeldBatch(db) => HeldBatch(db)'
      /\ HeldBatch(tx) => HeldBatch(tx)'
  BY <1>1, <1>3, <1>4 DEF HeldBatch, HeldTopic
<1>6. Timely => HeldBatch(tx)
  BY <1>1 DEF ReplayInv, HeldBatch
<1>7. ASSUME Timely, applied PROVE tx' = tx /\ tx = db /\ HeldBatch(db)
  <2>1. tx = db /\ HeldBatch(db)
    BY <1>7 DEF ReplayInv
  <2>2. /\ tx'.rollup = Tally(RolledUp(tx'.facts), Minutes)
        /\ db.rollup = Tally(RolledUp(db.facts), Minutes)
    BY <1>1 DEF RollupInv, RollupsMatchFacts
  <2>3. tx'.rollup = tx.rollup
    BY <1>2, <2>1, <2>2
  <2>4. tx' = tx
    BY <1>1, <2>3 DEF Tables
  <2> QED BY <2>1, <2>4
<1>8. planned # done
  BY <1>1 DEF ReplayInv
<1> QED BY <1>1, <1>3, <1>5, <1>6, <1>7, <1>8 DEF ReplayInv

LEMMA ReplayCommit == ASSUME TypeOK, ReplayInv, Commit PROVE ReplayInv'
<1>1. /\ UNCHANGED <<log, planned, done, tx>> /\ db' = tx
      /\ pc = "commit" /\ pc' = "publish" /\ planned # done /\ applied'
  BY DEF Commit, ReplayInv, external, checkpoint
<1>2. Timely' = Timely /\ \A k \in 1..7 : FirstValid(k)' = FirstValid(k)
  BY <1>1, SameBatch
<1>3. HeldBatch(tx) => HeldBatch(tx)' /\ HeldBatch(db)'
  BY <1>1, <1>2 DEF HeldBatch, HeldTopic, Held, Written, Stored
<1> QED BY <1>1, <1>2, <1>3 DEF ReplayInv

\* A finished batch has no offset left.
LEMMA ReplayFinish == ASSUME TypeOK, TypeOK', ReplayInv, FinishBatch PROVE ReplayInv'
<1>1. pc' = "idle" /\ done' = planned' /\ tx' = db'
  BY DEF FinishBatch, TypeOK
<1>2. \A t \in Topics : Offsets(t)' = {}
  <2>1. ASSUME NEW t \in Topics PROVE planned'[t] \in Nat
    BY DEF TypeOK
  <2> QED BY <1>1, <2>1 DEF Offsets
<1>3. \A k \in 1..7 : FirstValid(k)' = {}
  BY <1>2, TopicOrderFacts DEF FirstValid, Valid
<1>4. HeldBatch(db)'
  BY <1>3 DEF HeldBatch, HeldTopic
<1> QED BY <1>1, <1>4 DEF ReplayInv

LEMMA ReplayDown == ASSUME TypeOK, ReplayInv, Down PROVE ReplayInv'
<1>1. UNCHANGED <<log, planned, done, db, applied>> /\ tx' = db /\ pc' = "down"
  BY DEF Down, external, checkpoint
<1>2. Timely' = Timely /\ \A k \in 1..7 : FirstValid(k)' = FirstValid(k)
  BY <1>1, SameBatch
<1>3. HeldBatch(db) => HeldBatch(db)'
  BY <1>1, <1>2 DEF HeldBatch, HeldTopic, Held, Written, Stored
<1> QED BY <1>1, <1>2, <1>3 DEF ReplayInv

LEMMA ReplayStep ==
    /\ TypeOK /\ TypeOK' /\ RollupInv /\ RollupInv' /\ RowsInv /\ WholeInv
    /\ ReplayInv /\ Moves
    => ReplayInv'
<1> SUFFICES ASSUME TypeOK, TypeOK', RollupInv, RollupInv', RowsInv, WholeInv,
                    ReplayInv, Moves
             PROVE  ReplayInv'
  OBVIOUS
<1>1. CASE \E m \in Msgs : Publish(m)
  <2>1. UNCHANGED <<planned, done, pc, turn, events, tx, db, applied>>
    BY <1>1 DEF Publish, checkpoint, locals, history
  <2>2. \A t \in Topics : \A i \in Offsets(t) : log'[t][i] = log[t][i]
    BY <1>1, PublishAppends, BatchAreMsgs
  <2> QED BY <2>1, <2>2, ReplayUnchanged
<1>2. CASE \/ Tick \/ Start \/ WriteLake \/ PublishRejections \/ Deliver \/ LoseSend
           \/ UNCHANGED vars
  <2>1. /\ UNCHANGED <<log, planned, done, tx, db, applied>>
        /\ \/ UNCHANGED <<pc, turn, events>>
           \/ pc = "lake" /\ pc' = "sink" /\ UNCHANGED <<turn, events>>
           \/ pc = "publish" /\ pc' = "flush"
           \/ pc = "down" /\ pc' = "idle"
    BY <1>2 DEF Tick, Start, WriteLake, PublishRejections, Deliver, LoseSend, vars,
                external, checkpoint, locals, history
  <2> QED BY <2>1, ReplayUnchanged
<1>3. CASE SinkRaises \/ Crash \/ Exits
  BY <1>3, ReplayDown DEF SinkRaises, Crash, Exits
<1> QED BY <1>1, <1>2, <1>3, ReplayPlan, ReplayBegin, ReplayValidate, ReplaySinks,
           ReplayRefresh, ReplayCommit, ReplayFinish
        DEF Moves, Next, DriverStep

-----------------------------------------------------------------------------
(* The reasons.  A message that is not held up by the clock has one reason it  *)
(* can be rejected for: the first check it fails, or, if it fails none, that    *)
(* its subscriber is not known.                                             *)

FixedReason(m) ==
    CASE m.fault = "parse"  -> "PARSE_ERROR"
      [] m.fault = "schema" -> "SCHEMA_VIOLATION"
      [] m.fault = "rule"   -> "RULE_VIOLATION"
      [] m.fault = "none"   -> "subscriber_unknown"

Fixed(records) ==
    \A r \in records : ~ClockDependent(r.msg) => r.reason = FixedReason(r.msg)

ReasonInv ==
    /\ Fixed(rejected) /\ Fixed(outbox) /\ Fixed(dlqTopic)
    /\ pc \in {"lake", "sink"} => \A i \in events : log[Topic][i].fault = "none"

LEMMA AcceptedIsFaultless ==
    ASSUME NEW m \in Msgs, NEW now, Verdict(m, now) = ""
    PROVE  m.fault = "none"
BY MsgsAssumption DEF Verdict, Faults

LEMMA ReasonInit == Init => ReasonInv
BY DEF Init, ReasonInv, Fixed

LEMMA ReasonUnchanged ==
    ASSUME ReasonInv,
           \A r \in rejected' \cup outbox' \cup dlqTopic' :
              r \in rejected \cup outbox \cup dlqTopic,
           pc' \in {"lake", "sink"} =>
              /\ pc \in {"lake", "sink"} /\ UNCHANGED <<turn, events>>
              /\ \A i \in events : log'[Topic][i] = log[Topic][i]
    PROVE  ReasonInv'
<1>1. Fixed(rejected)' /\ Fixed(outbox)' /\ Fixed(dlqTopic)'
  BY DEF ReasonInv, Fixed, ClockDependent
<1>2. ASSUME pc' \in {"lake", "sink"}, NEW i \in events'
      PROVE  log'[Topic'][i].fault = "none"
  BY <1>2 DEF ReasonInv, Topic
<1> QED BY <1>1, <1>2 DEF ReasonInv

LEMMA ReasonValidate == ASSUME TypeOK, ReasonInv, ValidateTopic PROVE ReasonInv'
<1>1. /\ UNCHANGED <<log, outbox, dlqTopic>> /\ clock \in Instants
      /\ rejected' = rejected \cup
           {Reject(log[Topic][i], Verdict(log[Topic][i], clock)) : i \in Refused}
      /\ events' \subseteq Accepted
      /\ pc' \in {"lake", "sink"} => turn' = turn
  BY ValidateEffect DEF ValidateTopic, external, kafka, TypeOK, Dedupe
<1>2. Topic \in Topics /\ Refused \subseteq Offsets(Topic)
      /\ Accepted \subseteq Offsets(Topic)
  BY ValidateEffect, TopicOrderFacts DEF Topic, Refused, Accepted
<1>3. ASSUME NEW i \in Refused, ~ClockDependent(log[Topic][i])
      PROVE  Verdict(log[Topic][i], clock) = FixedReason(log[Topic][i])
  <2>1. log[Topic][i] \in Msgs /\ log[Topic][i].fault \in Faults
        /\ Verdict(log[Topic][i], clock) # ""
    BY <1>2, OffsetsAreLogged, MsgsAssumption DEF Refused
  <2> QED BY <1>1, <1>3, <2>1, TimelyVerdict DEF FixedReason, Faults
<1>4. Fixed(rejected')
  BY <1>1, <1>3 DEF ReasonInv, Fixed, Reject
<1>5. ASSUME NEW i \in events' PROVE log[Topic][i].fault = "none"
  <2>1. log[Topic][i] \in Msgs /\ Verdict(log[Topic][i], clock) = ""
    BY <1>1, <1>2, OffsetsAreLogged DEF Accepted, Refused
  <2> QED BY <2>1, AcceptedIsFaultless
<1>6. pc' \in {"lake", "sink"} => Topic' = Topic
  BY <1>1 DEF Topic
<1> QED BY <1>1, <1>4, <1>5, <1>6 DEF ReasonInv, Fixed, ClockDependent

LEMMA ReasonFacts == ASSUME TypeOK, ReasonInv, InsertFacts PROVE ReasonInv'
<1>1. /\ UNCHANGED <<outbox, dlqTopic>> /\ pc = "sink" /\ pc' = "validate"
      /\ rejected' = rejected \cup
           {Reject(m, "subscriber_unknown") : m \in At(events \ Known)}
  BY DEF InsertFacts, NextTopic, kafka
<1>2. ASSUME NEW m \in At(events \ Known) PROVE FixedReason(m) = "subscriber_unknown"
  BY <1>1 DEF At, ReasonInv, FixedReason
<1>3. ASSUME NEW r \in rejected', ~ClockDependent(r.msg)
      PROVE  r.reason = FixedReason(r.msg)
  <2>1. CASE r \in rejected
    BY <1>3, <2>1 DEF ReasonInv, Fixed
  <2>2. CASE r \notin rejected
    <3>1. PICK m \in At(events \ Known) : r = Reject(m, "subscriber_unknown")
      BY <1>1, <2>2
    <3>2. r.msg = m /\ r.reason = "subscriber_unknown"
      BY <3>1 DEF Reject
    <3> QED BY <1>2, <3>2
  <2> QED BY <2>1, <2>2
<1>4. Fixed(rejected')
  BY <1>3 DEF Fixed
<1> QED BY <1>1, <1>4 DEF ReasonInv, Fixed, ClockDependent

LEMMA ReasonStep == TypeOK /\ ReasonInv /\ Moves => ReasonInv'
<1> SUFFICES ASSUME TypeOK, ReasonInv, Moves PROVE ReasonInv'
  OBVIOUS
<1>1. CASE \E m \in Msgs : Publish(m)
  <2>1. UNCHANGED <<pc, turn, events, rejected, outbox, dlqTopic>>
    BY <1>1 DEF Publish, locals, kafka
  <2>2. ASSUME pc \in {"lake", "sink"}, NEW i \in events
        PROVE  log'[Topic][i] = log[Topic][i]
    <3>1. Topic \in Topics /\ i \in DOMAIN log[Topic]
      BY <2>2, EventsAreMsgs, BatchAreMsgs DEF TypeOK
    <3> QED BY <1>1, <3>1, PublishAppends
  <2> QED BY <2>1, <2>2, ReasonUnchanged
<1>2. CASE \/ Tick \/ Start \/ Plan \/ Begin \/ WriteLake \/ Commit \/ Deliver \/ LoseSend
           \/ PublishRejections \/ FinishBatch \/ RefreshRollups \/ UNCHANGED vars
  <2>1. /\ \A r \in rejected' \cup outbox' \cup dlqTopic' :
              r \in rejected \cup outbox \cup dlqTopic
        /\ pc' \in {"lake", "sink"} =>
              pc \in {"lake", "sink"} /\ UNCHANGED <<log, turn, events>>
    BY <1>2 DEF Tick, Start, Plan, Begin, WriteLake, Commit, Deliver, LoseSend,
                PublishRejections, FinishBatch, RefreshRollups, vars, external,
                checkpoint, locals, kafka
  <2> QED BY <2>1, ReasonUnchanged
<1>3. CASE UpsertSubscribers \/ UpdateTowerStatus \/ SinkRaises \/ Crash \/ Exits
  <2>1. /\ \A r \in rejected' \cup outbox' \cup dlqTopic' :
              r \in rejected \cup outbox \cup dlqTopic
        /\ pc' \in {"validate", "down"}
    BY <1>3 DEF UpsertSubscribers, UpdateTowerStatus, SinkRaises, Crash, Exits, Down,
                NextTopic, kafka
  <2> QED BY <2>1, ReasonUnchanged
<1> QED BY <1>1, <1>2, <1>3, ReasonValidate, ReasonFacts DEF Moves, Next, DriverStep

-----------------------------------------------------------------------------
(* The theorems.                                                           *)

LEMMA ReplayRun ==
    Spec => [](TypeOK /\ RollupInv /\ RowsInv /\ WholeInv /\ ReplayInv)
<1>1. Spec => []RollupInv
  BY TypeCorrect, RollupInit, RollupStep, NextMoves, PTL DEF Spec
<1>2. Spec => [](RowsInv /\ WholeInv)
  BY TypeCorrect, RowsInit, RowsStep, WholeInit, WholeStep, NextMoves, PTL DEF Spec
<1> QED BY TypeCorrect, <1>1, <1>2, ReplayInit, ReplayStep, NextMoves, PTL DEF Spec

LEMMA OnlyTheClockRewrites ==
    ASSUME ReplayInv, Moves, applied, db' # db
    PROVE  \E m \in BatchMsgs : ClockDependent(m)
<1>1. Commit
  BY OnlyCommitWrites
<1>2. db' = tx /\ tx # db
  BY <1>1 DEF Commit
<1>3. ~Timely
  BY <1>2 DEF ReplayInv
<1> QED BY <1>3 DEF Timely

\* Replaying a batch that was committed changes nothing in the warehouse, rollups
\* included, unless the clock has its part in a verdict of the batch.
THEOREM ReplaysAddNothing == Spec => ReplayAddsNothing
<1>1. ReplayInv /\ [Next]_vars =>
        [applied /\ db' # db => \E m \in BatchMsgs : ClockDependent(m)]_vars
  BY OnlyTheClockRewrites, NextMoves
<1> QED BY ReplayRun, <1>1, PTL DEF Spec, ReplayAddsNothing

\* A message is rejected for one reason however often it is replayed, hence under
\* one event id, as long as the clock plays no part in its verdict.
THEOREM ReasonsReproduced == Spec => []RejectionsReproduced
<1>1. ReasonInv => RejectionsReproduced
  BY DEF ReasonInv, Fixed, RejectionsReproduced
<1> QED BY TypeCorrect, ReasonInit, ReasonStep, NextMoves, <1>1, PTL DEF Spec
=============================================================================
