------------------------------- MODULE Intake -------------------------------
(***************************************************************************)
(* What the events query promises to those who look at its topics, the        *)
(* warehouse and failed-transactions only: each planned batch is loaded in    *)
(* one step, then its rejections are published, then it is finished, and only *)
(* when every message of it is accounted for.                               *)
(*                                                                         *)
(* No crash, exception or replay is visible here: a batch may be loaded more *)
(* than once, but then the second load changes nothing, unless the clock has  *)
(* its part in a verdict.                                                   *)
(***************************************************************************)
EXTENDS Integers, Sequences

CONSTANTS
    Msgs, Topics,       \* as in EventsQuery
    SubscriberTopic, TowerTopic,
    Timeless            \* the messages whose verdict does not depend on the clock

VARIABLES
    log,                \* the domain topics
    planned, done,      \* ends of the planned batch, and of the last finished one
    loaded,             \* the planned batch has been loaded
    rows,               \* the messages with a row in the warehouse
    reviewed            \* the messages whose rejection was published or lost

vars == <<log, planned, done, loaded, rows, reviewed>>

Batch == UNION {{log[t][i] : i \in (done[t] + 1)..planned[t]} : t \in Topics}

\* The row of message s is, or stands for, the row of message m.
Stands(s, m) ==
    /\ s.topic = m.topic
    /\ \/ m.topic = SubscriberTopic /\ s.key = m.key
       \/ m.topic = TowerTopic /\ s.key = m.key /\ s.ts >= m.ts
       \/ m.topic \notin {SubscriberTopic, TowerTopic} /\ s.id = m.id

\* The join drops facts whose tower or bundle has no dimension row.
Dropped(m) == m.topic \notin {SubscriberTopic, TowerTopic} /\ ~m.seeded

\* A message is under review, or a message of the batch under its event id is, or
\* has a row, or is dropped by the join.
Accounted(m) ==
    \/ m \in reviewed
    \/ \E n \in Batch :
          /\ n.topic = m.topic /\ n.id = m.id
          /\ n \in reviewed \/ Dropped(n) \/ \E s \in rows : Stands(s, n)

Init ==
    /\ log = [t \in Topics |-> <<>>]
    /\ planned = [t \in Topics |-> 0] /\ done = planned
    /\ loaded = FALSE
    /\ rows = {} /\ reviewed = {}

Publish ==
    /\ \E m \in Msgs : log' = [log EXCEPT ![m.topic] = Append(@, m)]
    /\ UNCHANGED <<planned, done, loaded, rows, reviewed>>

Plan ==
    /\ planned = done
    /\ planned' # planned
    /\ \A t \in Topics : done[t] <= planned'[t] /\ planned'[t] <= Len(log[t])
    /\ loaded' = FALSE
    /\ UNCHANGED <<log, done, rows, reviewed>>

\* Rows are added, one per key; only the status of a tower gives way to a later one.
Load ==
    /\ planned # done
    /\ rows' \subseteq rows \cup Batch
    /\ \A r \in rows : \/ r \in rows'
                       \/ r.topic = TowerTopic /\ \E s \in rows' : Stands(s, r)
    /\ \A r, s \in rows' : Stands(s, r) => s = r
    /\ loaded /\ Batch \subseteq Timeless => rows' = rows
    /\ loaded' = TRUE
    /\ UNCHANGED <<log, planned, done, reviewed>>

Review ==
    /\ planned # done /\ loaded
    /\ reviewed \subseteq reviewed' /\ reviewed' \subseteq reviewed \cup Batch
    /\ UNCHANGED <<log, planned, done, loaded, rows>>

Finish ==
    /\ planned # done /\ loaded
    /\ \A m \in Batch : Accounted(m)
    /\ done' = planned
    /\ UNCHANGED <<log, planned, loaded, rows, reviewed>>

Next == Publish \/ Plan \/ Load \/ Review \/ Finish

Spec == Init /\ [][Next]_vars
=============================================================================
