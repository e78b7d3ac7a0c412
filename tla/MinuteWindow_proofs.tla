------------------------- MODULE MinuteWindow_proofs -------------------------
(***************************************************************************)
(* Lemmas about the refresh window, for every set of stamps and every table. *)
(***************************************************************************)
EXTENDS MinuteWindow, FiniteSetTheorems, TLAPS

\* A minute starts at or before each of its seconds, less than 60 earlier, on
\* a multiple of 60 (the replace(second=0) of _minute_params).
LEMMA MinuteBounds ==
    ASSUME NEW t \in Nat
    PROVE  /\ MinuteOf(t) \in Nat
           /\ MinuteOf(t) <= t /\ t < MinuteOf(t) + 60
           /\ MinuteOf(t) % 60 = 0
BY DEF MinuteOf

\* Later timestamps are in the same or a later minute.
LEMMA MinuteMonotone ==
    ASSUME NEW s \in Nat, NEW t \in Nat, s <= t
    PROVE  MinuteOf(s) <= MinuteOf(t)
BY DEF MinuteOf

\* A non-empty finite set of timestamps has a least and a greatest element,
\* so min(timestamps) and max(timestamps) are what their names say.
LEMMA FiniteHasBounds ==
    ASSUME NEW S \in SUBSET Nat, IsFiniteSet(S), S # {}
    PROVE  /\ Min(S) \in S /\ \A s \in S : Min(S) <= s
           /\ Max(S) \in S /\ \A s \in S : s <= Max(S)
<1> DEFINE Bounded(X) == /\ \E lo \in X : \A x \in X : lo <= x
                         /\ \E hi \in X : \A x \in X : x <= hi
           R == StrictSubsetOrdering(Nat)
           Bad == {X \in FiniteSubsetsOf(Nat) : X # {} /\ ~Bounded(X)}
<1>1. Bad = {}
  <2>1. SUFFICES ASSUME Bad # {} PROVE FALSE
    OBVIOUS
  <2>2. PICK X \in Bad : \A Y \in Bad : ~(<<Y, X>> \in R)
    <3>1. IsWellFoundedOn(R, FiniteSubsetsOf(Nat))
      BY FS_StrictSubsetOrderingWellFounded
    <3>2. Bad \subseteq FiniteSubsetsOf(Nat)
      OBVIOUS
    <3> HIDE DEF Bad, R
    <3> QED BY <2>1, <3>1, <3>2, WFMin
  <2>3. X \in SUBSET Nat /\ IsFiniteSet(X) /\ X # {} /\ ~Bounded(X)
    BY <2>2 DEF FiniteSubsetsOf
  <2>4. PICK x \in X : TRUE
    BY <2>3
  <2> DEFINE Y == X \ {x}
  <2>5. IsFiniteSet(Y) /\ Y \in SUBSET Nat /\ <<Y, X>> \in R
    <3>1. IsFiniteSet(Y)
      BY <2>3, FS_RemoveElement
    <3>2. Y \in SUBSET Nat /\ Y \subseteq X /\ Y # X
      BY <2>3, <2>4
    <3> QED BY <3>1, <3>2, <2>3 DEF StrictSubsetOrdering
  <2>6. CASE Y = {}
    <3>1. X = {x} /\ x \in Nat
      BY <2>3, <2>4, <2>6
    <3>2. Bounded(X)
      BY <3>1
    <3> QED BY <3>2, <2>3
  <2>7. CASE Y # {}
    <3>1. Bounded(Y)
      BY <2>2, <2>5, <2>7 DEF FiniteSubsetsOf
    <3>2. PICK lo \in Y : \A y \in Y : lo <= y
      BY <3>1
    <3>3. PICK hi \in Y : \A y \in Y : y <= hi
      BY <3>1
    <3>4. /\ X = Y \cup {x} /\ X \subseteq Nat
          /\ x \in Nat /\ lo \in Nat /\ hi \in Nat
      BY <2>3, <2>4
    <3>5. \E l \in X : \A y \in X : l <= y
      <4>1. CASE x <= lo
        BY <3>2, <3>4, <4>1
      <4>2. CASE ~(x <= lo)
        BY <3>2, <3>4, <4>2
      <4> QED BY <4>1, <4>2
    <3>6. \E h \in X : \A y \in X : y <= h
      <4>1. CASE hi <= x
        BY <3>3, <3>4, <4>1
      <4>2. CASE ~(hi <= x)
        BY <3>3, <3>4, <4>2
      <4> QED BY <4>1, <4>2
    <3> QED BY <3>5, <3>6, <2>3
  <2> QED BY <2>6, <2>7
<1>2. Bounded(S)
  <2>1. S \in FiniteSubsetsOf(Nat)
    BY DEF FiniteSubsetsOf
  <2> QED BY <1>1, <2>1
<1> QED BY <1>2 DEF Min, Max

\* The refresh is exact: if a rollup tallies a table, the table changes only in
\* records stamped within the batch, and the refresh runs with the least and
\* greatest of the batch's stamps, then the rollup tallies the new table.  It
\* deletes no minute it does not rebuild, and counts nothing twice.
THEOREM RefreshRestoresTally ==
    ASSUME NEW Rows, \A r \in Rows : r.ts \in Nat,
           NEW minutes, \A mi \in minutes : mi \in Nat,
           NEW old \in [Rows -> Nat], NEW new \in [Rows -> Nat],
           NEW stamps \in SUBSET Nat, IsFiniteSet(stamps), stamps # {},
           \A r \in Rows : old[r] # new[r] => r.ts \in stamps
    PROVE  Refreshed(Tally(old, minutes), new, stamps) = Tally(new, minutes)
<1> DEFINE w == Window(stamps)
           rollup == Tally(old, minutes)
<1>1. /\ Min(stamps) \in stamps /\ Max(stamps) \in stamps
      /\ \A s \in stamps : Min(stamps) <= s /\ s <= Max(stamps)
  BY FiniteHasBounds
<1>2. /\ w.lo = MinuteOf(Min(stamps)) /\ w.hi = MinuteOf(Max(stamps))
      /\ w.hiNext = w.hi + 60 /\ w.lo \in Nat /\ w.hi \in Nat
  BY <1>1, MinuteBounds DEF Window
<1>3. DOMAIN rollup = minutes /\ DOMAIN new = Rows /\ DOMAIN old = Rows
  BY DEF Tally
<1>4. ASSUME NEW mi \in minutes, NEW r \in Rows
      PROVE  /\ MinuteOf(r.ts) \in Nat
             /\ w.lo <= mi /\ mi <= w.hi /\ MinuteOf(r.ts) = mi
                   => w.lo <= r.ts /\ r.ts < w.hiNext
             /\ w.lo <= r.ts /\ r.ts < w.hiNext /\ MinuteOf(r.ts) = mi
                   => w.lo <= mi /\ mi <= w.hi
  <2>1. r.ts \in Nat /\ mi \in Nat
    OBVIOUS
  <2>2. /\ MinuteOf(r.ts) \in Nat /\ MinuteOf(r.ts) <= r.ts
        /\ r.ts < MinuteOf(r.ts) + 60 /\ MinuteOf(r.ts) % 60 = 0
    BY <2>1, MinuteBounds
  <2>3. w.lo % 60 = 0 /\ w.hi % 60 = 0
    BY <1>1, <1>2, MinuteBounds
  <2> HIDE DEF w
  <2> QED BY <1>2, <2>1, <2>2, <2>3
<1>5. ASSUME NEW mi \in minutes, NEW r \in Rows,
             ~(w.lo <= mi /\ mi <= w.hi), MinuteOf(r.ts) = mi
      PROVE  old[r] = new[r]
  <2>1. SUFFICES ASSUME r.ts \in stamps PROVE FALSE
    OBVIOUS
  <2>2. w.lo <= MinuteOf(r.ts) /\ MinuteOf(r.ts) <= w.hi
    BY <1>1, <1>2, <2>1, MinuteMonotone
  <2> QED BY <2>2, <1>5
<1>6. ASSUME NEW mi \in minutes, NEW r \in Rows
      PROVE  Refreshed(rollup, new, stamps)[mi][r] = Tally(new, minutes)[mi][r]
  <2>1. rollup[mi][r] = IF MinuteOf(r.ts) = mi THEN old[r] ELSE 0
    BY <1>3 DEF Tally
  <2>2. Tally(new, minutes)[mi][r] = IF MinuteOf(r.ts) = mi THEN new[r] ELSE 0
    BY <1>3 DEF Tally
  <2>3. Refreshed(rollup, new, stamps)[mi][r] =
          (IF w.lo <= mi /\ mi <= w.hi THEN 0 ELSE rollup[mi][r])
          + (IF w.lo <= r.ts /\ r.ts < w.hiNext /\ MinuteOf(r.ts) = mi
               THEN new[r] ELSE 0)
    <3> HIDE DEF rollup
    <3> QED BY <1>3 DEF Refreshed
  <2>4. old[r] \in Nat /\ new[r] \in Nat
    OBVIOUS
  <2> HIDE DEF w, rollup
  <2> QED BY <1>4, <1>5, <2>1, <2>2, <2>3, <2>4
<1>7. /\ Tally(new, minutes) = [mi \in minutes |-> [r \in Rows |-> Tally(new, minutes)[mi][r]]]
      /\ Refreshed(rollup, new, stamps) =
           [mi \in minutes |-> [r \in Rows |-> Refreshed(rollup, new, stamps)[mi][r]]]
  <2> HIDE DEF rollup
  <2> QED BY <1>3 DEF Tally, Refreshed
<1>8. Refreshed(rollup, new, stamps) = Tally(new, minutes)
  <2> HIDE DEF rollup
  <2> QED BY <1>6, <1>7
<1> QED BY <1>8
=============================================================================
