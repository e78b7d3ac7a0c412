---------------------------- MODULE EventsIntake ----------------------------
(***************************************************************************)
(* The events query implements Intake.  The planned batch is loaded once its  *)
(* transaction has been committed; a message has a row if one of the tables   *)
(* holds it, and is under review once its rejection has left the client.      *)
(***************************************************************************)
EXTENDS EventsQuery

\* The messages with a row in the tables t.
Rows(t) == t.subs \cup t.towers \cup Stored(t.facts)

I == INSTANCE Intake WITH
        loaded <- applied,
        rows <- Rows(db),
        reviewed <- {r.msg : r \in dlqTopic \cup lost},
        Timeless <- {m \in Msgs : ~ClockDependent(m)}

\* Seen from its topics, the warehouse and failed-transactions, the job loads
\* each batch in one step, publishes its rejections after that, finishes it when
\* nothing of it is unaccounted for, and does all this as if it never crashed,
\* raised or replayed.
ImplementsIntake == I!Spec
=============================================================================
