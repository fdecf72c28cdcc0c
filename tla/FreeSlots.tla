------------------------------ MODULE FreeSlots ------------------------------
(***************************************************************************)
(* FindFreeSlots (calendar/service.go): the walk over the busy intervals   *)
(* of the calendar that leaves the slots check_availability tells the      *)
(* caller.  One step per turn of the loop.  Times are minutes.             *)
(*                                                                         *)
(* freeBusy (google.go) answers with intervals that meet the window; they  *)
(* may overlap, touch, nest and reach past either end, and come in no      *)
(* order.  sort.Slice is not stable, so any order of equal starts is one   *)
(* the walk may get.                                                       *)
(***************************************************************************)
EXTENDS Integers, Sequences, FiniteSets

CONSTANTS
    Horizon,     \* bound: the last minute considered
    From, To,    \* the window asked for
    MinMinutes,  \* values of minDurationMin; 0 or less: the default
    DefaultGap,  \* the default, 30 minutes
    MaxBusy      \* bound: busy intervals

ASSUME FreeSlotsAssumption ==
    /\ {Horizon, From, To, MaxBusy} \subseteq Nat
    /\ MinMinutes \subseteq Int
    /\ DefaultGap \in Nat \ {0}
    /\ From < To /\ To <= Horizon

VARIABLES
    slotStep,  \* "asked", "walk", "done"
    busy,      \* the intervals, sorted by start
    minD,      \* shortest slot wanted
    index,     \* next interval of the loop
    cursor,    \* everything before it is accounted for
    free       \* the slots found

slotVars == <<slotStep, busy, minD, index, cursor, free>>

\* The intervals freeBusy may answer with.
Intervals ==
    {[s |-> s, e |-> e] : s \in 0..Horizon, e \in 0..Horizon}
BusyIntervals == {b \in Intervals : b.s < b.e /\ b.s < To /\ From < b.e}

SortedByStart(seq) == \A i, j \in DOMAIN seq : i < j => seq[i].s <= seq[j].s

FreeSlotsTypeOK ==
    /\ slotStep \in {"asked", "walk", "done"}
    /\ busy \in Seq(BusyIntervals) /\ SortedByStart(busy)
    /\ minD \in Nat
    /\ index \in 1..(Len(busy) + 1)
    /\ cursor \in From..Horizon
    /\ free \in Seq(Intervals)

FreeSlotsInit ==
    /\ slotStep = "asked"
    /\ busy = <<>>
    /\ minD = 0
    /\ index = 1
    /\ cursor = From
    /\ free = <<>>

\* The answer of freeBusy is sorted and the walk begins at from.
FreeBusyAnswers ==
    /\ slotStep = "asked"
    /\ \E n \in 0..MaxBusy : \E seq \in [1..n -> BusyIntervals] :
          /\ SortedByStart(seq)
          /\ busy' = seq
    /\ \E m \in MinMinutes : minD' = IF m <= 0 THEN DefaultGap ELSE m
    /\ slotStep' = "walk"
    /\ UNCHANGED <<index, cursor, free>>

\* A bug to look for: the cursor stops where the interval begins.
CursorAtStart(b) == IF b.s > cursor THEN b.s ELSE cursor

Advanced(b) == IF b.e > cursor THEN b.e ELSE cursor

\* A bug to look for: a gap of exactly the wanted length is too short.
LongerThan(start, end) == end - start > minD

LongEnough(start, end) == end - start >= minD

WalkBusy ==
    /\ slotStep = "walk" /\ index <= Len(busy)
    /\ LET b == busy[index] IN
          IF b.e < cursor
          THEN UNCHANGED <<cursor, free>>
          ELSE /\ free' = IF b.s > cursor /\ LongEnough(cursor, b.s)
                          THEN Append(free, [s |-> cursor, e |-> b.s]) ELSE free
               /\ cursor' = Advanced(b)
    /\ index' = index + 1
    /\ UNCHANGED <<slotStep, busy, minD>>

LastGap ==
    /\ slotStep = "walk" /\ index > Len(busy)
    /\ free' = IF cursor < To /\ LongEnough(cursor, To)
               THEN Append(free, [s |-> cursor, e |-> To]) ELSE free
    /\ slotStep' = "done"
    /\ UNCHANGED <<busy, minD, index, cursor>>

FreeSlotsNext == FreeBusyAnswers \/ WalkBusy \/ LastGap

FreeSlotsSpec == FreeSlotsInit /\ [][FreeSlotsNext]_slotVars

----------------------------------------------------------------------------
(* Properties.                                                              *)

Overlap(x, y) == x.s < y.e /\ y.s < x.e

BusySet == {busy[i] : i \in DOMAIN busy}

\* A gap of the window that no busy interval meets and that cannot grow.
MaximalGap(g) ==
    /\ g.s >= From /\ g.e <= To /\ g.e - g.s >= minD /\ g.s < g.e
    /\ \A b \in BusySet : ~ Overlap(g, b)
    /\ g.s = From \/ \E b \in BusySet : b.e = g.s
    /\ g.e = To \/ \E b \in BusySet : b.s = g.e

\* FindFreeSlots returns exactly the gaps of [from, to) that are long enough,
\* each once and in order.
SlotsAreTheGaps ==
    slotStep = "done" =>
        /\ {free[i] : i \in DOMAIN free} = {g \in Intervals : MaximalGap(g)}
        /\ \A i, j \in DOMAIN free : i < j => free[i].e < free[j].s

\* The walk keeps its types and finds exactly the gaps (FindFreeSlots).
SlotsInv == FreeSlotsTypeOK /\ SlotsAreTheGaps
=============================================================================
