-------------------------------- MODULE Zones --------------------------------
(***************************************************************************)
(* base/TimeZone.cc: a zone as readDataBlock builds it, entry by entry,    *)
(* and the searches that turn UTC into local time and back.  The logger    *)
(* dates its lines in such a zone.  Times are counts of a small unit.      *)
(*                                                                         *)
(* The file (external) lists its transitions in ascending order, further   *)
(* apart than offsets differ, so that local times ascend as well.          *)
(***************************************************************************)
EXTENDS Integers, Sequences, FiniteSets

CONSTANTS
  Offsets,   \* offsets east of UTC
  MaxTypes,  \* bound: local time types of a zone
  MaxTrans,  \* bound: transitions
  MaxUtc,    \* bound: times of transitions
  Apart      \* least distance of transitions

VARIABLES
  localtimes,  \* Data::localtimes, as their offsets
  transitions  \* Data::transitions

zoneVars == <<localtimes, transitions>>

\* A constructor or readDataBlock has added the first type.
Init ==
  /\ \E o \in Offsets : localtimes = <<o>>
  /\ transitions = <<>>

AddLocalTime(o) ==
  /\ Len(localtimes) < MaxTypes /\ transitions = <<>>
  /\ localtimes' = Append(localtimes, o)
  /\ UNCHANGED transitions

\* addTransition computes the local time the new offset starts at.
AddTransition(t, idx) ==
  /\ Len(transitions) < MaxTrans
  /\ transitions # <<>> => t >= transitions[Len(transitions)].utctime + Apart
  /\ transitions' = Append(transitions, [utctime |-> t, localtime |-> t + localtimes[idx],
                                           idx |-> idx])
  /\ UNCHANGED localtimes

Next ==
  \/ \E o \in Offsets : AddLocalTime(o)
  \/ \E t \in 0 .. MaxUtc, idx \in DOMAIN localtimes : AddTransition(t, idx)

ZonesSpec == Init /\ [][Next]_zoneVars

-----------------------------------------------------------------------------
(* The searches *)

Offset(i) == localtimes[transitions[i].idx]
FrontOffset == localtimes[1]

\* What std::upper_bound leaves on its left.
UtcUpTo(t) == {i \in DOMAIN transitions : transitions[i].utctime <= t}
LocalUpTo(l) == {i \in DOMAIN transitions : transitions[i].localtime <= l}

\* findLocalTime(utcTime): of the last transition so far, or the first type.
FindUtc(t) ==
  LET n == Cardinality(UtcUpTo(t)) IN IF n = 0 THEN FrontOffset ELSE Offset(n)

ToLocalTime(t) == t + FindUtc(t)

\* The last local time before transition i, under the offset of the one before.
PriorSecond(i) == transitions[i].utctime - 1 + Offset(i - 1)

\* Mutant: the second look, at the transition before, is left out.
Repeats_Never(n, l) == FALSE

\* --transI: local time l was there before transition n as well.
Repeats(n, l) == IF n > 1 THEN l <= PriorSecond(n) ELSE FALSE

\* findLocalTime(local, postTransition), where n transitions are not after l.
FindLocal(l, post) ==
  LET n == Cardinality(LocalUpTo(l))
  IN IF n = 0 THEN FrontOffset
     ELSE IF n = Len(transitions) THEN Offset(n)
     \* it's a skip: after the last second under the old offset
     ELSE IF PriorSecond(n + 1) < l THEN Offset(IF post THEN n + 1 ELSE n)
     ELSE IF Repeats(n, l) THEN Offset(IF post THEN n ELSE n - 1)
     ELSE Offset(n)

FromLocalTime(l, post) == l - FindLocal(l, post)

-----------------------------------------------------------------------------
(* Properties *)

Largest(S) == CHOOSE x \in S : \A y \in S : y <= x
Least(S)   == CHOOSE x \in S : \A y \in S : x <= y

\* All instants at which a clock in the zone shows l.
Instants(l) == {t \in l - Largest(Offsets) .. l - Least(Offsets) : ToLocalTime(t) = l}
LocalTimes  == Least(Offsets) .. MaxUtc + Apart

\* A local time that occurs is turned into an instant at which it occurs,
\* around transitions in both directions; one that occurs twice into the
\* later of them, or, if asked for that before the change and the change is
\* neither the zone's first nor its last, into the earlier.
LocalTimeIsFound ==
  \A l \in LocalTimes : Instants(l) # {} =>
    /\ FromLocalTime(l, TRUE) = Largest(Instants(l))
    /\ LET n == Cardinality(LocalUpTo(l))
           inner == n > 1 /\ n < Len(transitions)
       IN FromLocalTime(l, FALSE) = IF inner THEN Least(Instants(l)) ELSE Largest(Instants(l))

\* A local time that a change skipped is read with the offset before the
\* change or after it, as asked for: an hour too late, or too early.
SkippedIsBracketed ==
  \A l \in LocalTimes : Instants(l) = {} /\ Cardinality(LocalUpTo(l)) > 0 =>
    ToLocalTime(FromLocalTime(l, TRUE)) < l /\ l < ToLocalTime(FromLocalTime(l, FALSE))

\* TimeZone::fromLocalTime reads every local time, repeated, skipped or neither,
\* as asked for.
LocalTimeIsRight ==
  /\ LocalTimeIsFound
  /\ SkippedIsBracketed
=============================================================================
