------------------------------- MODULE Meetings -------------------------------
(***************************************************************************)
(* The tools the language model calls during a call                        *)
(* (handlers_tool_invoke.go), the meetings they book (calendar/service.go, *)
(* google.go, scheduled_meetings.go) and the calendar account the operator *)
(* connects to the bot (handlers_calendar.go, bot_calendar.go).  Google    *)
(* Calendar and PostgreSQL are external.                                   *)
(*                                                                         *)
(* A tool request is cut where it leaves the process: the integration is   *)
(* read, the access token refreshed and stored, the calendar asked, the    *)
(* row written.  A call has one request at a time (a provider waits for    *)
(* the answer); requests of different calls interleave with each other and *)
(* with the operator.  One bot, one tenant.  The marks a tool leaves on    *)
(* the lead and the call, booking included, are in module CallOutcome.     *)
(*                                                                         *)
(* A meeting is named by its event.  A token is the account it opens.      *)
(* Times are minutes; a requested duration is in half minutes, since the   *)
(* tool's argument is a number the code truncates.  Titles, attendees,     *)
(* links, time zones and the log of invocations are left out.              *)
(***************************************************************************)
EXTENDS Integers, Sequences, FiniteSets

CONSTANTS
    Calls,       \* calls in progress
    Leads,       \* leads they may be to
    Phones,      \* numbers they may be to
    Callers,     \* which lead and number each call is to: the cases considered
    Accounts,    \* Google accounts the operator may connect
    None,        \* no lead, no account, no event
    Starts,      \* start times the tools are given
    Durations,   \* durations they are given, in half minutes; 0: none
    DefaultMin,  \* the default duration, 30 minutes
    MaxEvents,   \* bound: events created
    MaxConnects, \* bound: connections by the operator
    MaxFaults    \* bound: failed requests and statements

ASSUME ConstantsAssumption ==
    /\ None \notin Leads \cup Accounts
    /\ Callers \subseteq [Calls -> [lead: Leads \cup {None}, phone: Phones]]
    /\ Starts \cup Durations \subseteq Nat
    /\ DefaultMin \in Nat \ {0}
    /\ {MaxEvents, MaxConnects, MaxFaults} \subseteq Nat

VARIABLES
    caller,      \* lead_id and phone of each call
    integ,       \* bot_calendar_integrations: the bot's row; id 0: no row
    connects,    \* ids given so far, and connections made
    events,      \* what Google holds
    rows,        \* scheduled_meetings
    req,         \* the call's tool request
    touched,     \* history: events a fault, the owner or two moves at once met
    faults       \* history: faults so far

vars == <<caller, integ, connects, events, rows, req, touched, faults>>

Events == 1..MaxEvents

NoInteg == [id |-> 0, refresh |-> None, access |-> None, fresh |-> FALSE]
NoEvent == [state |-> "none", account |-> None, start |-> 0, end |-> 0]
NoRow   == [status |-> "none", lead |-> None, phone |-> None, start |-> 0, end |-> 0]
NoReq   == [step |-> "idle", op |-> "none", event |-> 0, id |-> 0,
            refresh |-> None, token |-> None, start |-> 0, dur |-> 0]

Steps == {"idle", "integration", "refresh", "store", "google", "row"}
Ops   == {"none", "check", "schedule", "cancel", "move"}

Integ == [id: 0..MaxConnects, refresh: Accounts \cup {None},
          access: Accounts \cup {None}, fresh: BOOLEAN]

TypeOK ==
    /\ caller \in Callers
    /\ integ \in Integ
    /\ connects \in 0..MaxConnects
    /\ events \in [Events -> [state: {"none", "live", "deleted"},
                              account: Accounts \cup {None}, start: Nat, end: Nat]]
    /\ rows \in [Events -> [status: {"none", "scheduled", "cancelled"},
                            lead: Leads \cup {None}, phone: Phones \cup {None},
                            start: Nat, end: Nat]]
    /\ req \in [Calls -> [step: Steps, op: Ops, event: 0..MaxEvents,
                          id: 0..MaxConnects, refresh: Accounts \cup {None}, token: Accounts \cup {None}, start: Nat, dur: Nat]]
    /\ touched \subseteq Events
    /\ faults \in 0..MaxFaults

Init ==
    /\ caller \in Callers
    /\ integ = NoInteg
    /\ connects = 0
    /\ events = [e \in Events |-> NoEvent]
    /\ rows = [e \in Events |-> NoRow]
    /\ req = [c \in Calls |-> NoReq]
    /\ touched = {}
    /\ faults = 0

----------------------------------------------------------------------------
(* The operator and the calendar's owner.                                   *)

\* CompleteAuth: the upsert keeps the row's id and replaces both tokens.
Connect(a) ==
    /\ connects < MaxConnects
    /\ connects' = connects + 1
    /\ integ' = [id |-> IF integ.id = 0 THEN connects + 1 ELSE integ.id,
                 refresh |-> a, access |-> a, fresh |-> TRUE]
    /\ UNCHANGED <<caller, events, rows, req, touched, faults>>

Disconnect ==
    /\ integ.id # 0
    /\ integ' = NoInteg
    /\ UNCHANGED <<caller, connects, events, rows, req, touched, faults>>

\* An access token lives an hour; the code renews it a minute before.
TokenExpires ==
    /\ integ.fresh
    /\ integ' = [integ EXCEPT !.fresh = FALSE]
    /\ UNCHANGED <<caller, connects, events, rows, req, touched, faults>>

\* The owner deletes the event in Google; nothing tells the backend.
OwnerDeletes(e) ==
    /\ events[e].state = "live"
    /\ events' = [events EXCEPT ![e].state = "deleted"]
    /\ touched' = touched \cup {e}
    /\ UNCHANGED <<caller, integ, connects, rows, req, faults>>

----------------------------------------------------------------------------
(* A request begins.  The bot is the one of the call's campaign.            *)

\* The WHERE of GetScheduledMeetingForLead.
Owns(c, e) ==
    /\ rows[e].status = "scheduled"
    /\ \/ caller[c].lead # None /\ rows[e].lead = caller[c].lead
       \/ rows[e].phone = caller[c].phone

Unused == {e \in Events : events[e].state = "none"}

CheckAvailability(c) ==
    /\ req[c].step = "idle"
    /\ req' = [req EXCEPT ![c] = [NoReq EXCEPT !.step = "integration", !.op = "check"]]
    /\ UNCHANGED <<caller, integ, connects, events, rows, touched, faults>>

ScheduleMeeting(c, start, dur) ==
    /\ req[c].step = "idle"
    /\ Unused # {}  \* bound
    /\ req' = [req EXCEPT ![c] = [NoReq EXCEPT !.step = "integration", !.op = "schedule",
                                               !.start = start,
                                               !.dur = IF dur = 0 THEN DefaultMin
                                                       ELSE dur \div 2]]
    /\ UNCHANGED <<caller, integ, connects, events, rows, touched, faults>>

CancelMeeting(c, e) ==
    /\ req[c].step = "idle"
    /\ Owns(c, e)
    /\ req' = [req EXCEPT ![c] = [NoReq EXCEPT !.step = "integration", !.op = "cancel",
                                               !.event = e]]
    /\ UNCHANGED <<caller, integ, connects, events, rows, touched, faults>>

Moving(e) == {c \in Calls : req[c].op = "move" /\ req[c].event = e}

\* Without a duration the meeting keeps the one its row says.
RescheduleMeeting(c, e, start, dur) ==
    /\ req[c].step = "idle"
    /\ Owns(c, e)
    /\ req' = [req EXCEPT ![c] = [NoReq EXCEPT !.step = "integration", !.op = "move",
                                               !.event = e, !.start = start,
                                               !.dur = IF dur = 0
                                                       THEN rows[e].end - rows[e].start
                                                       ELSE dur \div 2]]
    /\ touched' = IF Moving(e) # {} THEN touched \cup {e} ELSE touched
    /\ UNCHANGED <<caller, integ, connects, events, rows, faults>>

----------------------------------------------------------------------------
(* calendar.Service: the token.                                             *)

Answer(c) == req' = [req EXCEPT ![c] = NoReq]

ToCalendar(c) ==
    req' = [req EXCEPT ![c].id = 0, ![c].refresh = None, ![c].step = "google"]
ToRow(c, e) ==
    req' = [req EXCEPT ![c].event = e, ![c].token = None, ![c].step = "row"]

Fault ==
    /\ faults < MaxFaults
    /\ faults' = faults + 1

GetBotCalendarIntegration(c) ==
    /\ req[c].step = "integration"
    /\ \/ /\ integ.id = 0
          /\ Answer(c)
       \/ /\ integ.id # 0
          /\ req' = IF integ.fresh
                    THEN [req EXCEPT ![c].token = integ.access, ![c].step = "google"]
                    ELSE [req EXCEPT ![c].id = integ.id, ![c].refresh = integ.refresh,
                                     ![c].step = "refresh"]
    /\ UNCHANGED <<caller, integ, connects, events, rows, touched, faults>>

RefreshToken(c) ==
    /\ req[c].step = "refresh"
    /\ req' = [req EXCEPT ![c].token = req[c].refresh, ![c].step = "store"]
    /\ UNCHANGED <<caller, integ, connects, events, rows, touched, faults>>

\* UPDATE ... WHERE id = the row that was read; ErrNotFound is only logged.
UpdateBotCalendarAccessToken(c) ==
    /\ req[c].step = "store"
    /\ integ' = IF integ.id = req[c].id
                THEN [integ EXCEPT !.access = req[c].token, !.fresh = TRUE]
                ELSE integ
    /\ ToCalendar(c)
    /\ UNCHANGED <<caller, connects, events, rows, touched, faults>>

----------------------------------------------------------------------------
(* calendar.Service: the calendar, and the row.                             *)

\* freeBusy only reads; the slots are computed from it in module FreeSlots.
FreeBusy(c) ==
    /\ req[c].step = "google" /\ req[c].op = "check"
    /\ Answer(c)
    /\ UNCHANGED <<caller, integ, connects, events, rows, touched, faults>>

\* The service has its own default for a duration of no minutes.
EventEnd(c) == req[c].start + (IF req[c].dur = 0 THEN DefaultMin ELSE req[c].dur)
RowEnd(c)   == req[c].start + req[c].dur

CreateEvent(c) ==
    /\ req[c].step = "google" /\ req[c].op = "schedule"
    /\ Unused # {}
    /\ LET e == CHOOSE x \in Unused : \A y \in Unused : x <= y IN
          /\ events' = [events EXCEPT ![e] = [state |-> "live", account |-> req[c].token,
                                              start |-> req[c].start, end |-> EventEnd(c)]]
          /\ \/ /\ ToRow(c, e)
                /\ UNCHANGED <<touched, faults>>
             \/ /\ Fault  \* the answer is lost
                /\ touched' = touched \cup {e}
                /\ Answer(c)
    /\ UNCHANGED <<caller, integ, connects, rows>>

\* A bug to look for: the row is written only when the call has a lead.
CreateScheduledMeetingForLead(c) ==
    rows' = IF caller[c].lead = None THEN rows
            ELSE [rows EXCEPT ![req[c].event] =
                    [status |-> "scheduled", lead |-> caller[c].lead,
                     phone |-> caller[c].phone, start |-> req[c].start, end |-> RowEnd(c)]]

CreateScheduledMeeting(c) ==
    rows' = [rows EXCEPT ![req[c].event] =
                [status |-> "scheduled", lead |-> caller[c].lead,
                 phone |-> caller[c].phone, start |-> req[c].start, end |-> RowEnd(c)]]

SchedulePersists(c) ==
    /\ req[c].step = "row" /\ req[c].op = "schedule"
    /\ \/ /\ CreateScheduledMeeting(c)
          /\ UNCHANGED <<touched, faults>>
       \/ /\ Fault
          /\ touched' = touched \cup {req[c].event}
          /\ UNCHANGED rows
    /\ Answer(c)
    /\ UNCHANGED <<caller, integ, connects, events>>

\* Google knows the event only in the account that holds it.
Known(c) == events[req[c].event].account = req[c].token

\* A bug to look for: a 404 counts as deleted, too.
DeletedOrUnknown(c) == TRUE

\* 204, 200 and 410 are success, 404 is not.
DeleteSucceeds(c) == Known(c)

DeleteEvent(c) ==
    /\ req[c].step = "google" /\ req[c].op = "cancel"
    /\ LET e == req[c].event IN
          \/ /\ DeleteSucceeds(c)
             /\ events' = [events EXCEPT ![e].state = IF Known(c) THEN "deleted" ELSE @]
             /\ \/ /\ ToRow(c, e)
                   /\ UNCHANGED <<touched, faults>>
                \/ /\ Fault
                   /\ touched' = touched \cup {e}
                   /\ Answer(c)
          \/ /\ ~ DeleteSucceeds(c)
             /\ Answer(c)
             /\ UNCHANGED <<events, touched, faults>>
    /\ UNCHANGED <<caller, integ, connects, rows>>

\* A bug to look for: the other spelling.
Canceled(status) == IF status = "scheduled" THEN "canceled" ELSE status

Cancelled(status) == IF status = "scheduled" THEN "cancelled" ELSE status

MarkScheduledMeetingCancelled(c) ==
    /\ req[c].step = "row" /\ req[c].op = "cancel"
    /\ LET e == req[c].event IN
          \/ /\ rows' = [rows EXCEPT ![e].status = Cancelled(@)]
             /\ UNCHANGED <<touched, faults>>
          \/ /\ Fault
             /\ touched' = touched \cup {e}
             /\ UNCHANGED rows
    /\ Answer(c)
    /\ UNCHANGED <<caller, integ, connects, events>>

PatchEvent(c) ==
    /\ req[c].step = "google" /\ req[c].op = "move"
    /\ LET e == req[c].event IN
          \/ /\ Known(c) /\ events[e].state = "live"
             /\ events' = [events EXCEPT ![e].start = req[c].start, ![e].end = EventEnd(c)]
             /\ \/ /\ ToRow(c, e)
                   /\ UNCHANGED <<touched, faults>>
                \/ /\ Fault
                   /\ touched' = touched \cup {e}
                   /\ Answer(c)
          \/ /\ ~ (Known(c) /\ events[e].state = "live")
             /\ Answer(c)
             /\ UNCHANGED <<events, touched, faults>>
    /\ UNCHANGED <<caller, integ, connects, rows>>

\* A bug to look for: the end is left where it was.
RowMovedStartOnly(e, start, end) == [rows[e] EXCEPT !.start = start]

RowMoved(e, start, end) == [rows[e] EXCEPT !.start = start, !.end = end]

UpdateScheduledMeetingTimes(c) ==
    /\ req[c].step = "row" /\ req[c].op = "move"
    /\ LET e == req[c].event IN
          \/ /\ rows' = IF rows[e].status = "scheduled"
                        THEN [rows EXCEPT ![e] = RowMoved(e, req[c].start, RowEnd(c))]
                        ELSE rows
             /\ UNCHANGED <<touched, faults>>
          \/ /\ Fault
             /\ touched' = touched \cup {e}
             /\ UNCHANGED rows
    /\ Answer(c)
    /\ UNCHANGED <<caller, integ, connects, events>>

\* A request that fails before it has an effect, or whose caller gave up: the
\* handler returns (reads, refresh, calendar), or goes on without the token's
\* UPDATE.
RequestFails(c) ==
    /\ Fault
    /\ \/ /\ req[c].step \in {"integration", "refresh", "google"}
          /\ Answer(c)
       \/ /\ req[c].step = "store"
          /\ ToCalendar(c)
    /\ UNCHANGED <<caller, integ, connects, events, rows, touched>>

----------------------------------------------------------------------------
ToolStarts(c) ==
    \/ CheckAvailability(c)
    \/ \E s \in Starts, d \in Durations : ScheduleMeeting(c, s, d)
    \/ \E e \in Events : CancelMeeting(c, e)
    \/ \E e \in Events, s \in Starts, d \in Durations : RescheduleMeeting(c, e, s, d)

ToolProceeds(c) ==
    \/ GetBotCalendarIntegration(c) \/ RefreshToken(c) \/ UpdateBotCalendarAccessToken(c)
    \/ FreeBusy(c) \/ CreateEvent(c) \/ SchedulePersists(c)
    \/ DeleteEvent(c) \/ MarkScheduledMeetingCancelled(c)
    \/ PatchEvent(c) \/ UpdateScheduledMeetingTimes(c)
    \/ RequestFails(c)

Next ==
    \/ \E a \in Accounts : Connect(a)
    \/ Disconnect
    \/ TokenExpires
    \/ \E e \in Events : OwnerDeletes(e)
    \/ \E c \in Calls : ToolStarts(c) \/ ToolProceeds(c)

Spec == Init /\ [][Next]_vars

----------------------------------------------------------------------------
(* Properties.                                                              *)

InProgress(e) == \E c \in Calls : req[c].event = e

\* A meeting the backend shows as cancelled is not in the calendar any more,
\* however cancellations, moves, reconnections and lost answers interleave
\* (executeToolAction marks the row only after DeleteEvent succeeded).
CancelledMeansGone ==
    \A e \in Events : rows[e].status = "cancelled" => events[e].state = "deleted"

\* An event without a row (one its lead can neither list, cancel nor move) is
\* left only by a fault: by a lost answer of events.insert or a failed INSERT.
OrphanEventsComeFromFaults ==
    \A e \in Events :
        events[e].state # "none" /\ rows[e].status = "none"
            => InProgress(e) \/ e \in touched

\* A meeting the bot says a lead has is in the calendar at the time it says,
\* unless a fault, the owner or two overlapping moves came between.  A meeting
\* of no minutes (a duration below one is truncated in the row and replaced
\* by the default in the event) is excepted.
RowAgreesWithEvent ==
    \A e \in Events :
        /\ rows[e].status = "scheduled" /\ ~ InProgress(e)
        /\ e \notin touched
        /\ rows[e].end > rows[e].start
        => /\ events[e].state = "live"
           /\ events[e].start = rows[e].start
           /\ events[e].end = rows[e].end

\* What the backend says of a meeting and what Google holds agree: both tables
\* keep their shape, a cancelled meeting is gone, an event without a row comes
\* from a fault, and a scheduled row has its event at its time
\* (executeToolAction, calendar.Service).
MeetingsInv ==
    /\ TypeOK
    /\ CancelledMeansGone
    /\ OrphanEventsComeFromFaults
    /\ RowAgreesWithEvent
=============================================================================
