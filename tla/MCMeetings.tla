------------------------------ MODULE MCMeetings ------------------------------
(* Small instances of the calendar: the meetings of two calls, with an       *)
(* operator who connects two accounts one after the other, and the search for *)
(* free slots.  The first state chooses which of the two is looked at.        *)
EXTENDS Meetings, FreeSlots, TLC

CONSTANTS c1, c2, l1, p1, p2

With(x, y) == (c1 :> x) @@ (c2 :> y)

Lead     == [lead |-> l1, phone |-> p1]
SameLead == [lead |-> l1, phone |-> p2]
Stranger == [lead |-> None, phone |-> p2]

\* Two calls to one lead, on different numbers; a lead and a test call to
\* somebody else, who is known by the number only.
Cases == {With(Lead, SameLead), With(Lead, Stranger)}

Symmetry == Permutations(Accounts)

VARIABLE part

CalendarInit == part \in {"meetings", "slots"} /\ Init /\ FreeSlotsInit

CalendarNext ==
    \/ part = "meetings" /\ Next /\ UNCHANGED <<part, slotVars>>
    \/ part = "slots" /\ FreeSlotsNext /\ UNCHANGED <<part, vars>>

CalendarSpec == CalendarInit /\ [][CalendarNext]_<<part, vars, slotVars>>
=============================================================================
