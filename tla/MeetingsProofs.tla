---------------------------- MODULE MeetingsProofs ----------------------------
(***************************************************************************)
(* Proofs about the calendar.  Whatever calls, operators, the owner of the *)
(* calendar and faults there are, what the backend says of a meeting and   *)
(* what Google holds agree; and the free slots are the gaps between the    *)
(* busy intervals.                                                         *)
(***************************************************************************)
EXTENDS Meetings, FreeSlots, NaturalsInduction, WellFoundedInduction, TLAPS

-----------------------------------------------------------------------------
(* The inductive invariant *)

AtRow(c, op, e) == req[c].step = "row" /\ req[c].op = op /\ req[c].event = e

\* The event has the times of the request that made or moved it.
HasTimesOf(c) ==
    /\ events[req[c].event].start = req[c].start
    /\ events[req[c].event].end = EventEnd(c)

\* A request that is about to write the row knows what it did in Google, and
\* one that cancels or moves is about an event with a row.
ReqOk(c) ==
    /\ req[c].step = "row" =>
          req[c].op \in {"schedule", "cancel", "move"} /\ req[c].event \in Events
    /\ req[c].op \in {"cancel", "move"} =>
          req[c].event \in Events /\ rows[req[c].event].status # "none"
    /\ AtRow(c, "schedule", req[c].event) =>
          /\ rows[req[c].event].status = "none" /\ events[req[c].event].state # "none"
          /\ req[c].event \notin touched =>
                events[req[c].event].state = "live" /\ HasTimesOf(c)
    /\ AtRow(c, "cancel", req[c].event) => events[req[c].event].state = "deleted"
    /\ AtRow(c, "move", req[c].event) /\ req[c].event \notin touched => HasTimesOf(c)

\* Only a request about to write the row of an event lets the two differ.
MeetingOk(e) ==
    /\ rows[e].end >= rows[e].start
    /\ rows[e].status # "none" => events[e].state # "none"
    /\ rows[e].status = "cancelled" => events[e].state = "deleted"
    /\ events[e].state # "none" /\ rows[e].status = "none" =>
          e \in touched \/ \E c \in Calls : AtRow(c, "schedule", e)
    /\ rows[e].status = "scheduled" /\ e \notin touched =>
          /\ events[e].state = "live" \/ \E c \in Calls : AtRow(c, "cancel", e)
          /\ \/ events[e].start = rows[e].start /\ events[e].end = rows[e].end
             \/ rows[e].end = rows[e].start
             \/ \E c \in Calls : AtRow(c, "move", e)

\* An event is booked by one request, and moved by one unless it is touched.
OneWriter ==
    \A c, d \in Calls : c # d /\ req[c].event = req[d].event =>
        /\ ~ (AtRow(c, "schedule", req[c].event) /\ AtRow(d, "schedule", req[c].event))
        /\ req[c].op = "move" /\ req[d].op = "move" => req[c].event \in touched

Agreement ==
    /\ \A c \in Calls : ReqOk(c)
    /\ \A e \in Events : MeetingOk(e)
    /\ OneWriter

IndInv == TypeOK /\ Agreement

-----------------------------------------------------------------------------
(* Types *)

EventType == [state: {"none", "live", "deleted"}, account: Accounts \cup {None},
              start: Nat, end: Nat]
RowType == [status: {"none", "scheduled", "cancelled"}, lead: Leads \cup {None},
            phone: Phones \cup {None}, start: Nat, end: Nat]
ReqType == [step: Steps, op: Ops, event: 0..MaxEvents, id: 0..MaxConnects,
            refresh: Accounts \cup {None}, token: Accounts \cup {None}, start: Nat, dur: Nat]

LEMMA Typing ==
    TypeOK <=> /\ caller \in Callers /\ integ \in Integ /\ connects \in 0..MaxConnects
               /\ events \in [Events -> EventType] /\ rows \in [Events -> RowType]
               /\ req \in [Calls -> ReqType] /\ touched \subseteq Events
               /\ faults \in 0..MaxFaults
BY DEF TypeOK, EventType, RowType, ReqType

LEMMA ReqFields ==
    ASSUME NEW r \in ReqType
    PROVE  /\ r.step \in Steps /\ r.op \in Ops /\ r.event \in 0..MaxEvents
           /\ r.id \in 0..MaxConnects /\ r.refresh \in Accounts \cup {None}
           /\ r.token \in Accounts \cup {None} /\ r.start \in Nat /\ r.dur \in Nat
BY DEF ReqType

LEMMA RowFields ==
    ASSUME NEW r \in RowType
    PROVE  r.status \in {"none", "scheduled", "cancelled"} /\ r.start \in Nat /\ r.end \in Nat
BY DEF RowType

LEMMA Constants ==
    /\ DefaultMin \in Nat \ {0} /\ MaxEvents \in Nat /\ MaxConnects \in Nat /\ MaxFaults \in Nat
    /\ Starts \subseteq Nat /\ Durations \subseteq Nat
    /\ Callers \subseteq [Calls -> [lead: Leads \cup {None}, phone: Phones]]
BY ConstantsAssumption

LEMMA NoReqFields ==
    /\ NoReq \in ReqType /\ NoReq.step = "idle" /\ NoReq.op = "none" /\ NoReq.event = 0
BY Constants DEF NoReq, ReqType, Steps, Ops

LEMMA StepsAndOps ==
    /\ {"integration", "refresh", "store", "google", "row"} \subseteq Steps
    /\ {"check", "schedule", "cancel", "move"} \subseteq Ops
    /\ 0 \in 0..MaxEvents /\ 0 \in 0..MaxConnects
BY Constants DEF Steps, Ops

\* A request's record is replaced; the others stay.
LEMMA ReqFrame ==
    ASSUME req \in [Calls -> ReqType], NEW c \in Calls, NEW new \in ReqType,
           req' = [req EXCEPT ![c] = new]
    PROVE  /\ req' \in [Calls -> ReqType]
           /\ \A d \in Calls : req'[d] = IF d = c THEN new ELSE req[d]
OBVIOUS

LEMMA FaultType ==
    ASSUME faults \in 0..MaxFaults, Fault \/ UNCHANGED faults
    PROVE  faults' \in 0..MaxFaults
<1>1. MaxFaults \in Nat
  BY Constants
<1> QED
  BY <1>1 DEF Fault

LEMMA InitImpliesInv == Init => IndInv
<1> SUFFICES ASSUME Init PROVE IndInv
  OBVIOUS
<1>1. /\ req \in [Calls -> ReqType] /\ \A c \in Calls : req[c].step = "idle" /\ req[c].op = "none"
  BY NoReqFields DEF Init
<1>2. /\ events \in [Events -> EventType] /\ rows \in [Events -> RowType]
      /\ \A e \in Events : /\ events[e].state = "none" /\ rows[e].status = "none"
                           /\ rows[e].start = 0 /\ rows[e].end = 0
  BY DEF Init, EventType, RowType, NoEvent, NoRow
<1>3. integ \in Integ /\ connects \in 0..MaxConnects /\ faults \in 0..MaxFaults
  BY Constants DEF Init, Integ, NoInteg
<1>4. TypeOK
  BY <1>1, <1>2, <1>3, Typing DEF Init
<1>5. ASSUME NEW c \in Calls PROVE ReqOk(c)
  BY <1>1 DEF ReqOk, AtRow
<1>6. ASSUME NEW e \in Events PROVE MeetingOk(e)
  BY <1>2 DEF MeetingOk
<1>7. OneWriter
  BY <1>1 DEF OneWriter, AtRow
<1> QED
  BY <1>4, <1>5, <1>6, <1>7 DEF IndInv, Agreement

-----------------------------------------------------------------------------
(* Requests that write neither the calendar nor a row *)

LEMMA ReqMoves ==
    ASSUME IndInv, NEW c \in Calls, NEW new \in ReqType, req' = [req EXCEPT ![c] = new],
           UNCHANGED <<events, rows>>, touched \subseteq touched',
           req[c].step # "row", new.step # "row",
           new.op \in {"cancel", "move"} =>
              new.event \in Events /\ rows[new.event].status # "none",
           new.op = "move" =>
              \A d \in Calls \ {c} : req[d].op = "move" /\ req[d].event = new.event
                                     => new.event \in touched'
    PROVE  Agreement'
<1>0. /\ (\A d \in Calls : ReqOk(d)) /\ (\A e \in Events : MeetingOk(e)) /\ OneWriter
      /\ req \in [Calls -> ReqType] /\ events' = events /\ rows' = rows
  BY Typing DEF IndInv, Agreement
<1>1. /\ \A d \in Calls : req'[d] = IF d = c THEN new ELSE req[d]
  BY <1>0, ReqFrame
<1>2. \A d \in Calls, op \in Ops, e \in 0..MaxEvents :
         AtRow(d, op, e)' <=> AtRow(d, op, e)
  BY <1>1 DEF AtRow
<1>3. ASSUME NEW d \in Calls PROVE ReqOk(d)'
  <2>1. CASE d = c
    BY <1>0, <1>1, <2>1 DEF ReqOk, AtRow
  <2>2. CASE d # c
    <3>1. ReqOk(d) /\ req'[d] = req[d]
      BY <1>0, <1>1, <2>2
    <3> QED
      BY <1>0, <3>1 DEF ReqOk, AtRow, HasTimesOf, EventEnd
  <2> QED
    BY <2>1, <2>2
<1>4. ASSUME NEW e \in Events PROVE MeetingOk(e)'
  <2>1. \A d \in Calls : /\ AtRow(d, "schedule", e)' <=> AtRow(d, "schedule", e)
                         /\ AtRow(d, "cancel", e)' <=> AtRow(d, "cancel", e)
                         /\ AtRow(d, "move", e)' <=> AtRow(d, "move", e)
    BY <1>2 DEF Ops, Events
  <2>2. MeetingOk(e)
    BY <1>0
  <2> QED
    BY <1>0, <2>1, <2>2 DEF MeetingOk
<1>5. OneWriter'
  <2>1. ASSUME NEW d \in Calls, NEW f \in Calls, d # f, req'[d].event = req'[f].event
        PROVE  /\ ~ (AtRow(d, "schedule", req[d].event)' /\ AtRow(f, "schedule", req[d].event)')
               /\ req'[d].op = "move" /\ req'[f].op = "move" => req'[d].event \in touched'
    <3>1. CASE d # c /\ f # c
      <4>1. req'[d] = req[d] /\ req'[f] = req[f]
        BY <1>1, <3>1
      <4> QED
        BY <1>0, <2>1, <4>1 DEF OneWriter, AtRow
    <3>2. CASE d = c
      BY <1>1, <2>1, <3>2 DEF AtRow
    <3>3. CASE f = c
      BY <1>1, <2>1, <3>3 DEF AtRow
    <3> QED
      BY <3>1, <3>2, <3>3
  <2> QED
    BY <2>1 DEF OneWriter
<1> QED
  BY <1>3, <1>4, <1>5 DEF Agreement

-----------------------------------------------------------------------------
(* Requests that write: one event is concerned *)

LEMMA WriteFrame ==
    ASSUME IndInv, NEW c \in Calls, NEW e \in Events, NEW new \in ReqType,
           req' = [req EXCEPT ![c] = new],
           \A x \in Events \ {e} : events'[x] = events[x] /\ rows'[x] = rows[x],
           touched \subseteq touched',
           req[c].step = "row" => req[c].event = e,
           new.step = "row" => new.event = e,
           new.op = "move" => req[c].op = "move" /\ req[c].event = new.event,
           new.step = "row" /\ new.op = "schedule" =>
              \A d \in Calls \ {c} : ~ AtRow(d, "schedule", e),
           ReqOk(c)', MeetingOk(e)',
           \A d \in Calls \ {c} : req[d].event = e => ReqOk(d)'
    PROVE  Agreement'
<1>0. /\ (\A d \in Calls : ReqOk(d)) /\ (\A x \in Events : MeetingOk(x)) /\ OneWriter
      /\ req \in [Calls -> ReqType]
  BY Typing DEF IndInv, Agreement
<1>1. \A d \in Calls : req'[d] = IF d = c THEN new ELSE req[d]
  BY <1>0, ReqFrame
<1>2. ASSUME NEW d \in Calls PROVE ReqOk(d)'
  <2>1. CASE d # c /\ req[d].event # e
    <3>1. ReqOk(d) /\ req'[d] = req[d]
      BY <1>0, <1>1, <2>1
    <3>2. req[d].step = "row" \/ req[d].op \in {"cancel", "move"} =>
             req[d].event \in Events \ {e}
      BY <2>1, <3>1 DEF ReqOk
    <3> QED
      BY <3>1, <3>2 DEF ReqOk, AtRow, HasTimesOf, EventEnd
  <2> QED
    BY <2>1
<1>3. ASSUME NEW x \in Events PROVE MeetingOk(x)'
  <2>1. CASE x # e
    <3>1. ASSUME NEW d \in Calls, NEW op \in Ops, AtRow(d, op, x)
          PROVE  AtRow(d, op, x)'
      BY <1>1, <2>1, <3>1 DEF AtRow
    <3>2. \A d \in Calls : /\ AtRow(d, "schedule", x) => AtRow(d, "schedule", x)'
                           /\ AtRow(d, "cancel", x) => AtRow(d, "cancel", x)'
                           /\ AtRow(d, "move", x) => AtRow(d, "move", x)'
      BY <3>1 DEF Ops
    <3>3. MeetingOk(x)
      BY <1>0
    <3> QED
      BY <2>1, <3>2, <3>3 DEF MeetingOk
  <2> QED
    BY <2>1
<1>4. OneWriter'
  <2>1. ASSUME NEW d \in Calls, NEW f \in Calls, d # f, req'[d].event = req'[f].event
        PROVE  /\ ~ (AtRow(d, "schedule", req[d].event)' /\ AtRow(f, "schedule", req[d].event)')
               /\ req'[d].op = "move" /\ req'[f].op = "move" => req'[d].event \in touched'
    <3>1. CASE d # c /\ f # c
      <4>1. req'[d] = req[d] /\ req'[f] = req[f]
        BY <1>1, <3>1
      <4> QED
        BY <1>0, <2>1, <4>1 DEF OneWriter, AtRow
    <3>2. CASE d = c
      <4>1. req'[f] = req[f] /\ req'[c] = new
        BY <1>1, <2>1, <3>2
      <4> QED
        BY <1>0, <2>1, <3>2, <4>1 DEF OneWriter, AtRow
    <3>3. CASE f = c
      <4>1. req'[d] = req[d] /\ req'[c] = new
        BY <1>1, <2>1, <3>3
      <4> QED
        BY <1>0, <2>1, <3>3, <4>1 DEF OneWriter, AtRow
    <3> QED
      BY <3>1, <3>2, <3>3
  <2> QED
    BY <2>1 DEF OneWriter
<1> QED
  BY <1>2, <1>3, <1>4 DEF Agreement

\* An answered request is about no event any more.
LEMMA AnswerFrame ==
    ASSUME IndInv, NEW c \in Calls, NEW e \in Events, Answer(c),
           \A x \in Events \ {e} : events'[x] = events[x] /\ rows'[x] = rows[x],
           touched \subseteq touched',
           req[c].step = "row" => req[c].event = e,
           MeetingOk(e)', \A d \in Calls \ {c} : req[d].event = e => ReqOk(d)'
    PROVE  Agreement'
<1>0. req \in [Calls -> ReqType]
  BY Typing DEF IndInv
<1>1. req' = [req EXCEPT ![c] = NoReq]
  BY DEF Answer
<1>2. req'[c] = NoReq
  BY <1>0, <1>1
<1>3. ReqOk(c)'
  BY <1>2, NoReqFields DEF ReqOk, AtRow
<1> QED
  BY <1>1, <1>3, NoReqFields, WriteFrame

\* The event events.insert makes is one nobody has used.
LEMMA UnusedEvent ==
    ASSUME Unused # {}
    PROVE  (CHOOSE x \in Unused : \A y \in Unused : x <= y) \in Unused
<1>1. Unused \subseteq Nat
  BY Constants DEF Unused, Events
<1>2. \A x, y \in Nat : <<x, y>> \in OpToRel(<, Nat) <=> x < y
  BY DEF OpToRel
<1> DEFINE R == OpToRel(<, Nat)
<1> HIDE DEF R
<1>3. IsWellFoundedOn(R, Nat)
  BY NatLessThanWellFounded DEF R
<1>4. PICK x \in Unused : \A y \in Unused : ~ (<<y, x>> \in R)
  BY <1>1, <1>3, WFMin
<1>5. \A x_1, y \in Nat : <<x_1, y>> \in R <=> x_1 < y
  BY <1>2 DEF R
<1>6. ASSUME NEW y \in Unused PROVE x <= y
  <2>1. x \in Nat /\ y \in Nat /\ ~ (y < x)
    BY <1>1, <1>4, <1>5
  <2> QED
    BY <2>1
<1> QED
  BY <1>6

-----------------------------------------------------------------------------
(* Every step keeps the invariant *)

\* What an invariant state offers to the proof of a step.
LEMMA InvFacts ==
    ASSUME IndInv
    PROVE  /\ caller \in [Calls -> [lead: Leads \cup {None}, phone: Phones]]
           /\ caller \in Callers /\ integ \in Integ /\ connects \in 0..MaxConnects
           /\ events \in [Events -> EventType] /\ rows \in [Events -> RowType]
           /\ req \in [Calls -> ReqType] /\ touched \subseteq Events /\ faults \in 0..MaxFaults
           /\ \A c \in Calls : ReqOk(c)
           /\ \A e \in Events : MeetingOk(e)
           /\ OneWriter
BY Typing, Constants DEF IndInv, Agreement

LEMMA IntegFields ==
    ASSUME integ \in Integ
    PROVE  /\ integ.id \in 0..MaxConnects /\ integ.refresh \in Accounts \cup {None}
           /\ integ.access \in Accounts \cup {None} /\ integ.fresh \in BOOLEAN
BY DEF Integ

\* The operator, and the hour of a token.
LEMMA OperatorStep ==
    ASSUME IndInv, \/ \E a \in Accounts : Connect(a)
                   \/ Disconnect \/ TokenExpires
    PROVE  IndInv'
<1>0. /\ integ \in Integ /\ connects \in 0..MaxConnects /\ MaxConnects \in Nat
  BY InvFacts, Constants
<1>1. UNCHANGED <<caller, events, rows, req, touched, faults>>
  BY DEF Connect, Disconnect, TokenExpires
<1>2. integ' \in Integ /\ connects' \in 0..MaxConnects
  <2>1. ASSUME NEW a \in Accounts, Connect(a)
        PROVE  integ' \in Integ /\ connects' \in 0..MaxConnects
    <3>1. connects < MaxConnects /\ connects' = connects + 1
      BY <2>1 DEF Connect
    <3>2. connects + 1 \in 0..MaxConnects /\ integ.id \in 0..MaxConnects
      BY <1>0, <3>1, IntegFields
    <3> QED
      BY <2>1, <3>1, <3>2 DEF Connect, Integ
  <2>2. CASE Disconnect
    BY <1>0, <2>2 DEF Disconnect, Integ, NoInteg
  <2>3. CASE TokenExpires
    BY <1>0, <2>3 DEF TokenExpires, Integ
  <2> QED
    BY <2>1, <2>2, <2>3
<1>3. TypeOK'
  BY <1>1, <1>2 DEF IndInv, TypeOK
<1>4. Agreement'
  BY <1>1 DEF IndInv, Agreement, ReqOk, MeetingOk, OneWriter, AtRow, HasTimesOf, EventEnd
<1> QED
  BY <1>3, <1>4 DEF IndInv

LEMMA OwnerStep ==
    ASSUME IndInv, NEW e \in Events, OwnerDeletes(e)
    PROVE  IndInv'
<1>0. /\ events \in [Events -> EventType] /\ touched \subseteq Events
      /\ \A c \in Calls : ReqOk(c)
      /\ \A x \in Events : MeetingOk(x)
      /\ OneWriter
  BY InvFacts
<1> DEFINE new == [events[e] EXCEPT !.state = "deleted"]
<1>1. /\ events[e].state = "live" /\ events' = [events EXCEPT ![e] = new]
      /\ touched' = touched \cup {e}
      /\ UNCHANGED <<caller, integ, connects, rows, req, faults>>
  BY DEF OwnerDeletes
<1>2. /\ new \in EventType /\ new.state = "deleted"
      /\ new.start = events[e].start /\ new.end = events[e].end
  BY <1>0 DEF EventType
<1> HIDE DEF new
<1>3. /\ events' \in [Events -> EventType]
      /\ \A x \in Events : events'[x] = IF x = e THEN new ELSE events[x]
  BY <1>0, <1>1, <1>2
<1>4. TypeOK'
  BY <1>0, <1>1, <1>3, Typing DEF IndInv, TypeOK, EventType
<1>5. \A c \in Calls, op \in Ops, x \in Events : AtRow(c, op, x)' <=> AtRow(c, op, x)
  BY <1>1 DEF AtRow
<1>6. ASSUME NEW c \in Calls PROVE ReqOk(c)'
  <2>1. ReqOk(c) /\ req'[c] = req[c] /\ rows' = rows
    BY <1>0, <1>1
  <2>2. req[c].step = "row" => req[c].event \in Events
    BY <2>1 DEF ReqOk
  <2>3. CASE req[c].event = e
    BY <1>1, <1>2, <1>3, <2>1, <2>2, <2>3 DEF ReqOk, AtRow
  <2>4. CASE req[c].event # e
    <3>1. req[c].step = "row" => events'[req[c].event] = events[req[c].event]
      BY <1>3, <2>2, <2>4
    <3>2. req[c].event \notin touched' => req[c].event \notin touched
      BY <1>1
    <3> QED
      BY <2>1, <3>1, <3>2 DEF ReqOk, AtRow, HasTimesOf, EventEnd
  <2> QED
    BY <2>3, <2>4
<1>7. ASSUME NEW x \in Events PROVE MeetingOk(x)'
  <2>1. MeetingOk(x) /\ rows' = rows
    BY <1>0, <1>1
  <2>2. \A c \in Calls : /\ AtRow(c, "schedule", x)' <=> AtRow(c, "schedule", x)
                         /\ AtRow(c, "cancel", x)' <=> AtRow(c, "cancel", x)
                         /\ AtRow(c, "move", x)' <=> AtRow(c, "move", x)
    BY <1>5 DEF Ops
  <2>3. CASE x = e
    BY <1>1, <1>2, <1>3, <2>1, <2>2, <2>3 DEF MeetingOk
  <2>4. CASE x # e
    BY <1>1, <1>3, <2>1, <2>2, <2>4 DEF MeetingOk
  <2> QED
    BY <2>3, <2>4
<1>8. OneWriter'
  BY <1>0, <1>1 DEF OneWriter, AtRow
<1> QED
  BY <1>4, <1>6, <1>7, <1>8 DEF IndInv, Agreement

\* A request that begins, or goes on without having written anything.
LEMMA QuietStep ==
    ASSUME IndInv, NEW c \in Calls, NEW new \in ReqType, req' = [req EXCEPT ![c] = new],
           integ' \in Integ, faults' \in 0..MaxFaults,
           UNCHANGED <<caller, connects, events, rows, touched>>,
           req[c].step # "row", new.step # "row",
           \/ new.op = "none" \/ new.op = "check" \/ new.op = "schedule"
           \/ new.op = req[c].op /\ new.event = req[c].event
    PROVE  IndInv'
<1>0. /\ req \in [Calls -> ReqType] /\ ReqOk(c) /\ OneWriter
  BY InvFacts
<1>1. TypeOK'
  <2>1. req' \in [Calls -> ReqType]
    BY <1>0, ReqFrame
  <2> QED
    BY <2>1 DEF IndInv, TypeOK, ReqType
<1>2. new.op \in {"cancel", "move"} => new.event \in Events /\ rows[new.event].status # "none"
  BY <1>0 DEF ReqOk
<1>3. ASSUME NEW d \in Calls \ {c}, new.op = "move", req[d].op = "move",
             req[d].event = new.event
      PROVE  new.event \in touched'
  <2>1. new.op = req[c].op /\ new.event = req[c].event
    BY <1>3
  <2> QED
    BY <1>0, <1>3, <2>1 DEF OneWriter
<1>4. Agreement'
  BY <1>2, <1>3, ReqMoves
<1> QED
  BY <1>1, <1>4 DEF IndInv

LEMMA StartStep ==
    ASSUME IndInv, NEW c \in Calls, ToolStarts(c)
    PROVE  IndInv'
<1>0. /\ req \in [Calls -> ReqType] /\ integ \in Integ /\ faults \in 0..MaxFaults
      /\ rows \in [Events -> RowType] /\ touched \subseteq Events
      /\ (\A d \in Calls : ReqOk(d)) /\ (\A e \in Events : MeetingOk(e))
      /\ DefaultMin \in Nat /\ MaxEvents \in Nat /\ MaxConnects \in Nat
  BY InvFacts, Constants
<1>1. ASSUME CheckAvailability(c) PROVE IndInv'
  <2> DEFINE new == [NoReq EXCEPT !.step = "integration", !.op = "check"]
  <2>1. /\ req[c].step = "idle" /\ req' = [req EXCEPT ![c] = new]
        /\ UNCHANGED <<caller, integ, connects, events, rows, touched, faults>>
    BY <1>1 DEF CheckAvailability
  <2>2. new \in ReqType /\ new.step = "integration" /\ new.op = "check"
    BY NoReqFields, StepsAndOps DEF ReqType
  <2> HIDE DEF new
  <2> QED
    BY <1>0, <2>1, <2>2, QuietStep
<1>2. ASSUME NEW s \in Starts, NEW dur \in Durations, ScheduleMeeting(c, s, dur) PROVE IndInv'
  <2> DEFINE min == IF dur = 0 THEN DefaultMin ELSE dur \div 2
             new == [NoReq EXCEPT !.step = "integration", !.op = "schedule", !.start = s,
                                  !.dur = min]
  <2>1. /\ req[c].step = "idle" /\ req' = [req EXCEPT ![c] = new]
        /\ UNCHANGED <<caller, integ, connects, events, rows, touched, faults>>
    BY <1>2 DEF ScheduleMeeting
  <2>2. s \in Nat /\ min \in Nat
    BY <1>0, Constants
  <2> HIDE DEF min
  <2>3. new \in ReqType /\ new.step = "integration" /\ new.op = "schedule"
    BY <2>2, NoReqFields, StepsAndOps DEF ReqType
  <2> HIDE DEF new
  <2> QED
    BY <1>0, <2>1, <2>3, QuietStep
<1>3. ASSUME NEW e \in Events, CancelMeeting(c, e) PROVE IndInv'
  <2> DEFINE new == [NoReq EXCEPT !.step = "integration", !.op = "cancel", !.event = e]
  <2>1. /\ req[c].step = "idle" /\ req' = [req EXCEPT ![c] = new]
        /\ UNCHANGED <<caller, integ, connects, events, rows, touched, faults>>
    BY <1>3 DEF CancelMeeting
  <2>2. rows[e].status = "scheduled"
    BY <1>3 DEF CancelMeeting, Owns
  <2>3. new \in ReqType /\ new.step = "integration" /\ new.op = "cancel" /\ new.event = e
    <3>1. e \in 0..MaxEvents
      BY <1>0 DEF Events
    <3> QED
      BY <3>1, NoReqFields, StepsAndOps DEF ReqType
  <2> HIDE DEF new
  <2>4. Agreement'
    BY <2>1, <2>2, <2>3, ReqMoves
  <2>5. req' \in [Calls -> ReqType]
    BY <1>0, <2>1, <2>3
  <2>6. TypeOK'
    BY <2>1, <2>5 DEF IndInv, TypeOK, ReqType
  <2> QED
    BY <2>4, <2>6 DEF IndInv
<1>4. ASSUME NEW e \in Events, NEW s \in Starts, NEW dur \in Durations,
             RescheduleMeeting(c, e, s, dur)
      PROVE  IndInv'
  <2> DEFINE min == IF dur = 0 THEN rows[e].end - rows[e].start ELSE dur \div 2
             new == [NoReq EXCEPT !.step = "integration", !.op = "move", !.event = e,
                                  !.start = s, !.dur = min]
  <2>1. /\ req[c].step = "idle" /\ req' = [req EXCEPT ![c] = new]
        /\ touched' = IF Moving(e) # {} THEN touched \cup {e} ELSE touched
        /\ UNCHANGED <<caller, integ, connects, events, rows, faults>>
    BY <1>4 DEF RescheduleMeeting
  <2>2. rows[e].status = "scheduled"
    BY <1>4 DEF RescheduleMeeting, Owns
  <2>3. s \in Nat /\ min \in Nat
    <3>1. rows[e].end >= rows[e].start /\ rows[e].start \in Nat /\ rows[e].end \in Nat
      <4>1. MeetingOk(e) /\ rows[e] \in RowType
        BY <1>0
      <4> QED
        BY <4>1, RowFields DEF MeetingOk
    <3>2. dur \in Nat /\ s \in Nat
      BY Constants
    <3> QED
      BY <3>1, <3>2
  <2> HIDE DEF min
  <2>4. new \in ReqType /\ new.step = "integration" /\ new.op = "move" /\ new.event = e
    <3>1. e \in 0..MaxEvents
      BY <1>0 DEF Events
    <3> QED
      BY <2>3, <3>1, NoReqFields, StepsAndOps DEF ReqType
  <2> HIDE DEF new
  <2>5. ASSUME NEW d \in Calls \ {c}, req[d].op = "move", req[d].event = e
        PROVE  e \in touched'
    <3>1. d \in Moving(e)
      BY <2>5 DEF Moving
    <3> QED
      BY <2>1, <3>1
  <2>6. Agreement'
    BY <2>1, <2>2, <2>4, <2>5, ReqMoves
  <2>7. req' \in [Calls -> ReqType] /\ touched' \subseteq Events
    BY <1>0, <2>1, <2>4
  <2>8. TypeOK'
    BY <2>1, <2>7 DEF IndInv, TypeOK, ReqType
  <2> QED
    BY <2>6, <2>8 DEF IndInv
<1> QED
  BY <1>1, <1>2, <1>3, <1>4 DEF ToolStarts

\* The integration is read, the token refreshed and stored, the calendar asked,
\* or the request fails.
LEMMA TokenStep ==
    ASSUME IndInv, NEW c \in Calls,
           \/ GetBotCalendarIntegration(c) \/ RefreshToken(c) \/ UpdateBotCalendarAccessToken(c)
           \/ FreeBusy(c) \/ RequestFails(c)
    PROVE  IndInv'
<1>0. /\ req \in [Calls -> ReqType] /\ req[c] \in ReqType /\ integ \in Integ
      /\ faults \in 0..MaxFaults
  BY InvFacts
<1>i. /\ integ.id \in 0..MaxConnects /\ integ.refresh \in Accounts \cup {None}
      /\ integ.access \in Accounts \cup {None}
  BY <1>0, IntegFields
<1>answer. ASSUME Answer(c), integ' \in Integ, faults' \in 0..MaxFaults, req[c].step # "row",
                  UNCHANGED <<caller, connects, events, rows, touched>>
           PROVE  IndInv'
  BY <1>answer, NoReqFields, QuietStep DEF Answer
<1>toCalendar. ASSUME ToCalendar(c), integ' \in Integ, faults' \in 0..MaxFaults,
                      req[c].step # "row",
                      UNCHANGED <<caller, connects, events, rows, touched>>
               PROVE  IndInv'
  <2> DEFINE new == [req[c] EXCEPT !.id = 0, !.refresh = None, !.step = "google"]
  <2>1. req' = [req EXCEPT ![c] = new]
    BY <1>toCalendar DEF ToCalendar
  <2>2. new \in ReqType /\ new.step = "google" /\ new.op = req[c].op /\ new.event = req[c].event
    BY <1>0, StepsAndOps DEF ReqType
  <2> HIDE DEF new
  <2> QED
    BY <1>toCalendar, <2>1, <2>2, QuietStep
<1>1. CASE GetBotCalendarIntegration(c)
  <2> DEFINE known == [req[c] EXCEPT !.token = integ.access, !.step = "google"]
             stale == [req[c] EXCEPT !.id = integ.id, !.refresh = integ.refresh,
                                     !.step = "refresh"]
  <2>1. /\ req[c].step = "integration"
        /\ UNCHANGED <<caller, integ, connects, events, rows, touched, faults>>
        /\ Answer(c) \/ req' = [req EXCEPT ![c] = known] \/ req' = [req EXCEPT ![c] = stale]
    BY <1>1 DEF GetBotCalendarIntegration
  <2>2. /\ known \in ReqType /\ known.step = "google"
        /\ known.op = req[c].op /\ known.event = req[c].event
    BY <1>0, <1>i DEF ReqType, Steps
  <2>3. /\ stale \in ReqType /\ stale.step = "refresh"
        /\ stale.op = req[c].op /\ stale.event = req[c].event
    BY <1>0, <1>i DEF ReqType, Steps
  <2> HIDE DEF known, stale
  <2>4. CASE req' = [req EXCEPT ![c] = known]
    BY <1>0, <2>1, <2>2, <2>4, QuietStep
  <2>5. CASE req' = [req EXCEPT ![c] = stale]
    BY <1>0, <2>1, <2>3, <2>5, QuietStep
  <2> QED
    BY <1>0, <1>answer, <2>1, <2>4, <2>5
<1>2. CASE RefreshToken(c)
  <2> DEFINE new == [req[c] EXCEPT !.token = req[c].refresh, !.step = "store"]
  <2>1. /\ req[c].step = "refresh" /\ req' = [req EXCEPT ![c] = new]
        /\ UNCHANGED <<caller, integ, connects, events, rows, touched, faults>>
    BY <1>2 DEF RefreshToken
  <2>2. new \in ReqType /\ new.step = "store" /\ new.op = req[c].op /\ new.event = req[c].event
    BY <1>0 DEF ReqType, Steps
  <2> HIDE DEF new
  <2> QED
    BY <1>0, <2>1, <2>2, QuietStep
<1>3. CASE UpdateBotCalendarAccessToken(c)
  <2>1. /\ req[c].step = "store" /\ ToCalendar(c)
        /\ UNCHANGED <<caller, connects, events, rows, touched, faults>>
    BY <1>3 DEF UpdateBotCalendarAccessToken
  <2>2. integ' \in Integ
    <3>1. req[c].token \in Accounts \cup {None}
      BY <1>0, ReqFields
    <3> QED
      BY <1>0, <1>3, <3>1 DEF UpdateBotCalendarAccessToken, Integ
  <2> QED
    BY <1>0, <1>toCalendar, <2>1, <2>2
<1>4. CASE FreeBusy(c)
  BY <1>0, <1>4, <1>answer DEF FreeBusy
<1>5. CASE RequestFails(c)
  <2>1. faults' \in 0..MaxFaults
    BY <1>0, <1>5, FaultType DEF RequestFails
  <2> QED
    BY <1>0, <1>5, <1>answer, <1>toCalendar, <2>1 DEF RequestFails
<1> QED
  BY <1>1, <1>2, <1>3, <1>4, <1>5

\* Google has answered: the row is next.
LEMMA ToRowEffect ==
    ASSUME req \in [Calls -> ReqType], NEW c \in Calls, NEW e \in Events, ToRow(c, e)
    PROVE  \E new \in ReqType :
              /\ req' = [req EXCEPT ![c] = new] /\ req'[c] = new
              /\ new.step = "row" /\ new.event = e /\ new.op = req[c].op
              /\ new.start = req[c].start /\ new.dur = req[c].dur
<1> DEFINE new == [req[c] EXCEPT !.event = e, !.token = None, !.step = "row"]
<1>1. req' = [req EXCEPT ![c] = new]
  BY DEF ToRow
<1>2. e \in 0..MaxEvents /\ req[c] \in ReqType
  BY Constants DEF Events
<1>3. new \in ReqType /\ new.step = "row" /\ new.event = e /\ new.op = req[c].op
      /\ new.start = req[c].start /\ new.dur = req[c].dur
  BY <1>2, StepsAndOps DEF ReqType
<1> HIDE DEF new
<1>4. req'[c] = new
  BY <1>1
<1> QED
  BY <1>1, <1>3, <1>4

LEMMA AnswerEffect ==
    ASSUME req \in [Calls -> ReqType], NEW c \in Calls, Answer(c)
    PROVE  /\ req' \in [Calls -> ReqType]
           /\ \A d \in Calls : req'[d] = IF d = c THEN NoReq ELSE req[d]
BY NoReqFields, ReqFrame DEF Answer

\* The times of a request, as Google and as the row gets them.
LEMMA Ends ==
    ASSUME req \in [Calls -> ReqType], NEW c \in Calls
    PROVE  /\ req[c].start \in Nat /\ EventEnd(c) \in Nat /\ RowEnd(c) \in Nat
           /\ RowEnd(c) >= req[c].start
           /\ RowEnd(c) = req[c].start \/ RowEnd(c) = EventEnd(c)
<1>1. req[c].start \in Nat /\ req[c].dur \in Nat
  BY ReqFields
<1> QED
  BY <1>1, Constants DEF EventEnd, RowEnd

LEMMA CreateEventStep ==
    ASSUME IndInv, NEW c \in Calls, CreateEvent(c)
    PROVE  IndInv'
<1>0. /\ events \in [Events -> EventType] /\ rows \in [Events -> RowType]
      /\ req \in [Calls -> ReqType] /\ touched \subseteq Events /\ faults \in 0..MaxFaults
      /\ (\A d \in Calls : ReqOk(d)) /\ (\A x \in Events : MeetingOk(x))
  BY InvFacts
<1>e. PICK e \in Unused : e = CHOOSE x \in Unused : \A y \in Unused : x <= y
  BY UnusedEvent DEF CreateEvent
<1> DEFINE booked == [state |-> "live", account |-> req[c].token,
                       start |-> req[c].start, end |-> EventEnd(c)]
<1>1. /\ req[c].step = "google" /\ req[c].op = "schedule"
      /\ events' = [events EXCEPT ![e] = booked]
      /\ UNCHANGED <<caller, integ, connects, rows>>
      /\ \/ ToRow(c, e) /\ UNCHANGED <<touched, faults>>
         \/ Fault /\ touched' = touched \cup {e} /\ Answer(c)
  BY <1>e DEF CreateEvent
<1>2. e \in Events /\ events[e].state = "none"
  BY <1>e DEF Unused
<1>3. booked \in EventType /\ booked.state = "live" /\ booked.start = req[c].start
      /\ booked.end = EventEnd(c)
  <2>1. req[c].token \in Accounts \cup {None} /\ req[c].start \in Nat /\ EventEnd(c) \in Nat
    BY <1>0, ReqFields, Ends
  <2> QED
    BY <2>1 DEF EventType
<1> HIDE DEF booked
<1>4. /\ events' \in [Events -> EventType] /\ events'[e] = booked
      /\ \A x \in Events \ {e} : events'[x] = events[x]
  BY <1>0, <1>1, <1>2, <1>3
<1>5. rows[e].status = "none" /\ rows'[e] = rows[e] /\ rows[e].end >= rows[e].start
  <2>1. MeetingOk(e)
    BY <1>0, <1>2
  <2> QED
    BY <1>1, <1>2, <2>1 DEF MeetingOk
\* Nobody else is about this event.
<1>6. \A d \in Calls : req[d].event = e =>
         req[d].step # "row" /\ req[d].op \notin {"cancel", "move"}
  <2>1. ASSUME NEW d \in Calls, req[d].event = e
        PROVE  req[d].step # "row" /\ req[d].op \notin {"cancel", "move"}
    <3>1. ReqOk(d)
      BY <1>0
    <3> QED
      BY <1>2, <1>5, <2>1, <3>1 DEF ReqOk, AtRow
  <2> QED
    BY <2>1
<1>7. CASE ToRow(c, e) /\ UNCHANGED <<touched, faults>>
  <2>1. PICK new \in ReqType :
           /\ req' = [req EXCEPT ![c] = new] /\ req'[c] = new
           /\ new.step = "row" /\ new.event = e /\ new.op = req[c].op
           /\ new.start = req[c].start /\ new.dur = req[c].dur
    BY <1>0, <1>2, <1>7, ToRowEffect
  <2>2. req' \in [Calls -> ReqType] /\ \A d \in Calls \ {c} : req'[d] = req[d]
    BY <1>0, <2>1
  <2>3. TypeOK'
    BY <1>1, <1>4, <1>7, <2>2 DEF IndInv, TypeOK, EventType, ReqType
  <2>4. ReqOk(c)'
    BY <1>1, <1>2, <1>3, <1>4, <1>5, <2>1 DEF ReqOk, AtRow, HasTimesOf, EventEnd
  <2>5. MeetingOk(e)'
    BY <1>1, <1>5, <2>1 DEF MeetingOk, AtRow
  <2>6. ASSUME NEW d \in Calls \ {c}, req[d].event = e PROVE ReqOk(d)'
    BY <1>6, <2>2, <2>6 DEF ReqOk, AtRow
  <2>7. \A d \in Calls \ {c} : ~ AtRow(d, "schedule", e)
    BY <1>6 DEF AtRow
  <2>8. Agreement'
    <3>1. /\ \A x \in Events \ {e} : events'[x] = events[x] /\ rows'[x] = rows[x]
          /\ touched \subseteq touched' /\ req[c].step # "row" /\ new.op = "schedule"
      BY <1>1, <1>4, <1>7, <2>1
    <3> QED
      BY <1>2, <2>1, <2>4, <2>5, <2>6, <2>7, <3>1, WriteFrame
  <2> QED
    BY <2>3, <2>8 DEF IndInv
<1>8. CASE Fault /\ touched' = touched \cup {e} /\ Answer(c)
  <2>1. /\ req' \in [Calls -> ReqType] /\ \A d \in Calls \ {c} : req'[d] = req[d]
        /\ faults' \in 0..MaxFaults
    BY <1>0, <1>8, AnswerEffect, FaultType
  <2>2. TypeOK'
    BY <1>0, <1>1, <1>2, <1>4, <1>8, <2>1 DEF IndInv, TypeOK, EventType, ReqType
  <2>3. MeetingOk(e)'
    BY <1>1, <1>5, <1>8 DEF MeetingOk
  <2>4. ASSUME NEW d \in Calls \ {c}, req[d].event = e PROVE ReqOk(d)'
    BY <1>6, <2>1, <2>4 DEF ReqOk, AtRow
  <2>5. Agreement'
    <3>1. /\ \A x \in Events \ {e} : events'[x] = events[x] /\ rows'[x] = rows[x]
          /\ touched \subseteq touched' /\ req[c].step # "row"
      BY <1>1, <1>4, <1>8
    <3> QED
      BY <1>2, <1>8, <2>3, <2>4, <3>1, AnswerFrame
  <2> QED
    BY <2>2, <2>5 DEF IndInv
<1> QED
  BY <1>1, <1>7, <1>8

LEMMA PersistStep ==
    ASSUME IndInv, NEW c \in Calls, SchedulePersists(c)
    PROVE  IndInv'
<1>0. /\ caller \in [Calls -> [lead: Leads \cup {None}, phone: Phones]]
      /\ events \in [Events -> EventType] /\ rows \in [Events -> RowType]
      /\ req \in [Calls -> ReqType] /\ touched \subseteq Events /\ faults \in 0..MaxFaults
      /\ (\A d \in Calls : ReqOk(d)) /\ (\A x \in Events : MeetingOk(x)) /\ OneWriter
  BY InvFacts
<1>e. PICK e \in Events : e = req[c].event
  <2>1. ReqOk(c)
    BY <1>0
  <2> QED
    BY <2>1 DEF SchedulePersists, ReqOk
<1> DEFINE kept == [status |-> "scheduled", lead |-> caller[c].lead, phone |-> caller[c].phone,
                     start |-> req[c].start, end |-> RowEnd(c)]
<1>1. /\ req[c].step = "row" /\ req[c].op = "schedule" /\ Answer(c)
      /\ UNCHANGED <<caller, integ, connects, events>>
      /\ \/ rows' = [rows EXCEPT ![e] = kept] /\ UNCHANGED <<touched, faults>>
         \/ Fault /\ touched' = touched \cup {e} /\ UNCHANGED rows
  BY <1>e DEF SchedulePersists, CreateScheduledMeeting
<1>2. /\ e \in Events /\ rows[e].status = "none" /\ events[e].state # "none"
      /\ e \notin touched => /\ events[e].state = "live"
                             /\ events[e].start = req[c].start /\ events[e].end = EventEnd(c)
  <2>1. ReqOk(c)
    BY <1>0
  <2> QED
    BY <1>1, <1>e, <2>1 DEF ReqOk, AtRow, HasTimesOf
<1>3. /\ RowEnd(c) >= req[c].start /\ RowEnd(c) \in Nat
      /\ RowEnd(c) = req[c].start \/ RowEnd(c) = EventEnd(c)
  BY <1>0, Ends
<1>4. /\ kept \in RowType /\ kept.status = "scheduled" /\ kept.start = req[c].start
      /\ kept.end = RowEnd(c)
  <2>1. req[c].start \in Nat /\ caller[c] \in [lead: Leads \cup {None}, phone: Phones]
    BY <1>0, ReqFields
  <2> QED
    BY <1>3, <2>1 DEF RowType
\* No other request is about this event: its row is not there yet.
<1>5. \A d \in Calls \ {c} : req[d].event = e =>
         req[d].step # "row" /\ req[d].op \notin {"cancel", "move"}
  <2>1. ASSUME NEW d \in Calls \ {c}, req[d].event = e
        PROVE  req[d].step # "row" /\ req[d].op \notin {"cancel", "move"}
    <3>1. ReqOk(d) /\ ~ AtRow(d, "schedule", e)
      BY <1>0, <1>1, <1>e, <2>1 DEF OneWriter, AtRow
    <3> QED
      BY <1>2, <2>1, <3>1 DEF ReqOk, AtRow
  <2> QED
    BY <2>1
<1> HIDE DEF kept
<1>6. /\ req' \in [Calls -> ReqType] /\ \A d \in Calls \ {c} : req'[d] = req[d]
      /\ faults' \in 0..MaxFaults
  BY <1>0, <1>1, AnswerEffect, FaultType
<1>7. ASSUME NEW d \in Calls \ {c}, req[d].event = e PROVE ReqOk(d)'
  BY <1>5, <1>6, <1>7 DEF ReqOk, AtRow
<1>8. /\ rows' \in [Events -> RowType] /\ touched' \subseteq Events /\ touched \subseteq touched'
      /\ \A x \in Events \ {e} : events'[x] = events[x] /\ rows'[x] = rows[x]
      /\ \/ rows'[e] = kept /\ touched' = touched
         \/ rows'[e] = rows[e] /\ e \in touched'
  BY <1>0, <1>1, <1>2, <1>4
<1>9. MeetingOk(e)'
  <2>1. CASE rows'[e] = kept /\ touched' = touched
    BY <1>1, <1>2, <1>3, <1>4, <2>1 DEF MeetingOk
  <2>2. CASE rows'[e] = rows[e] /\ e \in touched'
    <3>1. MeetingOk(e)
      BY <1>0, <1>2
    <3> QED
      BY <1>1, <1>2, <2>2, <3>1 DEF MeetingOk
  <2> QED
    BY <1>8, <2>1, <2>2
<1>10. TypeOK'
  BY <1>1, <1>6, <1>8 DEF IndInv, TypeOK, RowType, ReqType
<1>11. Agreement'
  BY <1>1, <1>2, <1>e, <1>7, <1>8, <1>9, AnswerFrame
<1> QED
  BY <1>10, <1>11 DEF IndInv

\* A request that cancels or moves is about an event of the calendar with a row.
LEMMA RequestedEvent ==
    ASSUME IndInv, NEW c \in Calls, req[c].op \in {"cancel", "move"}
    PROVE  /\ req[c].event \in Events /\ rows[req[c].event].status # "none"
           /\ \A d \in Calls : req[d].event = req[c].event => ~ AtRow(d, "schedule", req[c].event)
<1>1. \A d \in Calls : ReqOk(d)
  BY InvFacts
<1>2. req[c].event \in Events /\ rows[req[c].event].status # "none"
  BY <1>1 DEF ReqOk
<1> QED
  BY <1>1, <1>2 DEF ReqOk, AtRow

\* A request that gives up at the calendar changes nothing else.
LEMMA GivesUp ==
    ASSUME IndInv, NEW c \in Calls, req[c].step = "google", Answer(c),
           UNCHANGED <<caller, integ, connects, events, rows, touched, faults>>
    PROVE  IndInv'
<1>1. integ \in Integ /\ faults \in 0..MaxFaults
  BY InvFacts
<1> QED
  BY <1>1, NoReqFields, QuietStep DEF Answer

LEMMA DeleteEventStep ==
    ASSUME IndInv, NEW c \in Calls, DeleteEvent(c)
    PROVE  IndInv'
<1>0. /\ events \in [Events -> EventType] /\ req \in [Calls -> ReqType]
      /\ touched \subseteq Events /\ faults \in 0..MaxFaults
      /\ (\A d \in Calls : ReqOk(d)) /\ (\A x \in Events : MeetingOk(x))
  BY InvFacts
<1>1. /\ req[c].step = "google" /\ req[c].op = "cancel"
      /\ UNCHANGED <<caller, integ, connects, rows>>
  BY DEF DeleteEvent
<1>e. PICK e \in Events : e = req[c].event
  BY <1>1, RequestedEvent
<1>2. /\ rows[e].status # "none"
      /\ \A d \in Calls : req[d].event = e => ~ AtRow(d, "schedule", e)
  BY <1>1, <1>e, RequestedEvent
<1> DEFINE gone == [events[e] EXCEPT !.state = "deleted"]
<1>3. /\ gone \in EventType /\ gone.state = "deleted"
      /\ gone.start = events[e].start /\ gone.end = events[e].end
  BY <1>0 DEF EventType
<1>4. CASE Answer(c) /\ UNCHANGED <<events, touched, faults>>
  BY <1>1, <1>4, GivesUp
<1>5. ASSUME events' = [events EXCEPT ![e] = gone], touched' \subseteq Events,
             touched \subseteq touched', faults' \in 0..MaxFaults,
             NEW new \in ReqType, req' = [req EXCEPT ![c] = new],
             \/ new.step = "row" /\ new.event = e /\ new.op = "cancel"
             \/ new = NoReq /\ e \in touched'
      PROVE  IndInv'
  <2> HIDE DEF gone
  <2>1. /\ events' \in [Events -> EventType] /\ events'[e] = gone
        /\ \A x \in Events \ {e} : events'[x] = events[x] /\ rows'[x] = rows[x]
        /\ req' \in [Calls -> ReqType] /\ req'[c] = new
        /\ \A d \in Calls \ {c} : req'[d] = req[d]
        /\ rows' = rows
    BY <1>0, <1>1, <1>3, <1>5
  <2>2. TypeOK'
    BY <1>1, <1>5, <2>1 DEF IndInv, TypeOK, EventType, ReqType
  <2>3. new.op \notin {"move", "schedule"}
    BY <1>5, NoReqFields
  <2>4. ReqOk(c)'
    BY <1>2, <1>3, <1>5, <2>1, NoReqFields DEF ReqOk, AtRow
  <2>5. MeetingOk(e)'
    <3>1. MeetingOk(e)
      BY <1>0
    <3>2. \A d \in Calls : AtRow(d, "move", e) => AtRow(d, "move", e)'
      BY <1>1, <2>1 DEF AtRow
    <3>3. e \in touched' \/ AtRow(c, "cancel", e)'
      BY <1>5, <2>1 DEF AtRow
    <3>4. e \in touched => e \in touched'
      BY <1>5
    <3> QED
      BY <1>2, <1>3, <2>1, <3>1, <3>2, <3>3, <3>4 DEF MeetingOk
  <2>6. ASSUME NEW d \in Calls \ {c}, req[d].event = e PROVE ReqOk(d)'
    <3>1. ReqOk(d) /\ req'[d] = req[d] /\ ~ AtRow(d, "schedule", e)
      BY <1>0, <1>2, <2>1, <2>6
    <3>2. e \in touched => e \in touched'
      BY <1>5
    <3> QED
      BY <1>2, <1>3, <2>1, <2>6, <3>1, <3>2 DEF ReqOk, AtRow, HasTimesOf, EventEnd
  <2>7. Agreement'
    <3>1. /\ req[c].step # "row" /\ (new.step = "row" => new.event = e)
      BY <1>1, <1>5, NoReqFields
    <3> QED
      BY <1>5, <2>1, <2>3, <2>4, <2>5, <2>6, <3>1, WriteFrame
  <2> QED
    BY <2>2, <2>7 DEF IndInv
<1>6. CASE /\ events' = [events EXCEPT ![e] = gone]
           /\ ToRow(c, e) /\ UNCHANGED <<touched, faults>>
  <2>1. PICK new \in ReqType :
           /\ req' = [req EXCEPT ![c] = new] /\ req'[c] = new
           /\ new.step = "row" /\ new.event = e /\ new.op = req[c].op
    BY <1>0, <1>6, ToRowEffect
  <2> QED
    BY <1>0, <1>1, <1>5, <1>6, <2>1
<1>7. CASE /\ events' = [events EXCEPT ![e] = gone]
           /\ Fault /\ touched' = touched \cup {e} /\ Answer(c)
  <2>1. faults' \in 0..MaxFaults /\ req' = [req EXCEPT ![c] = NoReq]
    BY <1>0, <1>7, FaultType DEF Answer
  <2> QED
    BY <1>0, <1>5, <1>7, <2>1, NoReqFields
<1> QED
  BY <1>1, <1>e, <1>4, <1>6, <1>7 DEF DeleteEvent, DeleteSucceeds

LEMMA MarkStep ==
    ASSUME IndInv, NEW c \in Calls, MarkScheduledMeetingCancelled(c)
    PROVE  IndInv'
<1>0. /\ rows \in [Events -> RowType] /\ req \in [Calls -> ReqType]
      /\ touched \subseteq Events /\ faults \in 0..MaxFaults
      /\ (\A d \in Calls : ReqOk(d)) /\ (\A x \in Events : MeetingOk(x))
  BY InvFacts
<1>1. /\ req[c].step = "row" /\ req[c].op = "cancel" /\ Answer(c)
      /\ UNCHANGED <<caller, integ, connects, events>>
  BY DEF MarkScheduledMeetingCancelled
<1>e. PICK e \in Events : e = req[c].event
  BY <1>1, RequestedEvent
<1>2. /\ rows[e].status # "none" /\ events[e].state = "deleted"
      /\ \A d \in Calls : req[d].event = e => ~ AtRow(d, "schedule", e)
  <2>1. ReqOk(c)
    BY <1>0
  <2> QED
    BY <1>1, <1>e, <2>1, RequestedEvent DEF ReqOk, AtRow
<1> DEFINE new == [rows[e] EXCEPT !.status = Cancelled(@)]
<1>3. \/ rows' = [rows EXCEPT ![e] = new] /\ UNCHANGED <<touched, faults>>
      \/ Fault /\ touched' = touched \cup {e} /\ UNCHANGED rows
  BY <1>e DEF MarkScheduledMeetingCancelled
<1>4. /\ new \in RowType /\ new.status = "cancelled"
      /\ new.start = rows[e].start /\ new.end = rows[e].end
  <2>1. rows[e] \in RowType
    BY <1>0
  <2>2. Cancelled(rows[e].status) = "cancelled"
    BY <1>2, <2>1 DEF Cancelled, RowType
  <2> QED
    BY <2>1, <2>2 DEF RowType
<1> HIDE DEF new
<1>5. /\ req' \in [Calls -> ReqType] /\ (\A d \in Calls \ {c} : req'[d] = req[d])
      /\ faults' \in 0..MaxFaults
  BY <1>0, <1>1, <1>3, AnswerEffect, FaultType
<1>6. /\ rows' \in [Events -> RowType] /\ touched' \subseteq Events /\ touched \subseteq touched'
      /\ \A x \in Events \ {e} : events'[x] = events[x] /\ rows'[x] = rows[x]
      /\ rows'[e] = new \/ (rows'[e] = rows[e] /\ e \in touched')
      /\ events' = events
  BY <1>0, <1>1, <1>3, <1>4
<1>7. rows'[e].status # "none"
  BY <1>2, <1>4, <1>6
<1>8. ASSUME NEW d \in Calls \ {c}, req[d].event = e PROVE ReqOk(d)'
  <2>1. ReqOk(d) /\ req'[d] = req[d] /\ ~ AtRow(d, "schedule", e)
    BY <1>0, <1>2, <1>5, <1>8
  <2>2. e \in touched => e \in touched'
    BY <1>6
  <2> QED
    BY <1>6, <1>7, <1>8, <2>1, <2>2 DEF ReqOk, AtRow, HasTimesOf, EventEnd
<1>9. MeetingOk(e)'
  <2>1. MeetingOk(e)
    BY <1>0
  <2>2. CASE rows'[e] = new
    BY <1>2, <1>4, <1>6, <2>1, <2>2 DEF MeetingOk
  <2>3. CASE rows'[e] = rows[e] /\ e \in touched'
    BY <1>2, <1>6, <2>1, <2>3 DEF MeetingOk
  <2> QED
    BY <1>6, <2>2, <2>3
<1>10. TypeOK'
  BY <1>1, <1>5, <1>6 DEF IndInv, TypeOK, RowType, ReqType
<1>11. Agreement'
  BY <1>1, <1>e, <1>6, <1>8, <1>9, AnswerFrame
<1> QED
  BY <1>10, <1>11 DEF IndInv

LEMMA PatchEventStep ==
    ASSUME IndInv, NEW c \in Calls, PatchEvent(c)
    PROVE  IndInv'
<1>0. /\ events \in [Events -> EventType] /\ req \in [Calls -> ReqType]
      /\ touched \subseteq Events /\ faults \in 0..MaxFaults
      /\ (\A d \in Calls : ReqOk(d)) /\ (\A x \in Events : MeetingOk(x)) /\ OneWriter
  BY InvFacts
<1>1. /\ req[c].step = "google" /\ req[c].op = "move"
      /\ UNCHANGED <<caller, integ, connects, rows>>
  BY DEF PatchEvent
<1>e. PICK e \in Events : e = req[c].event
  BY <1>1, RequestedEvent
<1>2. /\ rows[e].status # "none"
      /\ \A d \in Calls : req[d].event = e => ~ AtRow(d, "schedule", e)
  BY <1>1, <1>e, RequestedEvent
<1> DEFINE moved == [events[e] EXCEPT !.start = req[c].start, !.end = EventEnd(c)]
<1>3. /\ moved \in EventType /\ moved.state = events[e].state
      /\ moved.start = req[c].start /\ moved.end = EventEnd(c)
  <2>1. events[e] \in EventType /\ req[c].start \in Nat /\ EventEnd(c) \in Nat
    BY <1>0, Ends
  <2> QED
    BY <2>1 DEF EventType
<1>4. CASE Answer(c) /\ UNCHANGED <<events, touched, faults>>
  BY <1>1, <1>4, GivesUp
<1>5. ASSUME events[e].state = "live",
             events' = [events EXCEPT ![e] = moved], touched' \subseteq Events,
             touched \subseteq touched', faults' \in 0..MaxFaults,
             NEW new \in ReqType, req' = [req EXCEPT ![c] = new],
             \/ /\ new.step = "row" /\ new.event = e /\ new.op = "move"
                /\ new.start = req[c].start /\ new.dur = req[c].dur
             \/ new = NoReq /\ e \in touched'
      PROVE  IndInv'
  <2> HIDE DEF moved
  <2>1. /\ events' \in [Events -> EventType] /\ events'[e] = moved
        /\ \A x \in Events \ {e} : events'[x] = events[x] /\ rows'[x] = rows[x]
        /\ req' \in [Calls -> ReqType] /\ req'[c] = new
        /\ \A d \in Calls \ {c} : req'[d] = req[d]
        /\ rows' = rows
    BY <1>0, <1>1, <1>3, <1>5
  <2>2. TypeOK'
    BY <1>1, <1>5, <2>1 DEF IndInv, TypeOK, EventType, ReqType
  <2>3. /\ new.op # "schedule"
        /\ new.op = "move" => req[c].op = "move" /\ req[c].event = new.event
        /\ new.step = "row" => new.event = e
    BY <1>1, <1>e, <1>5, NoReqFields
  <2>4. ReqOk(c)'
    BY <1>2, <1>3, <1>5, <2>1, NoReqFields DEF ReqOk, AtRow, HasTimesOf, EventEnd
  <2>5. MeetingOk(e)'
    <3>1. MeetingOk(e)
      BY <1>0
    <3>2. e \in touched' \/ AtRow(c, "move", e)'
      BY <1>5, <2>1 DEF AtRow
    <3> QED
      BY <1>2, <1>3, <1>5, <2>1, <3>1, <3>2 DEF MeetingOk
  <2>6. ASSUME NEW d \in Calls \ {c}, req[d].event = e PROVE ReqOk(d)'
    <3>1. ReqOk(d) /\ req'[d] = req[d] /\ ~ AtRow(d, "schedule", e)
      BY <1>0, <1>2, <2>1, <2>6
    <3>2. req[d].op = "move" => e \in touched'
      BY <1>0, <1>1, <1>e, <1>5, <2>6 DEF OneWriter
    <3>3. ~ AtRow(d, "cancel", e)
      BY <1>5, <2>6, <3>1 DEF ReqOk, AtRow
    <3> QED
      BY <1>2, <2>1, <2>6, <3>1, <3>2, <3>3 DEF ReqOk, AtRow
  <2>7. Agreement'
    <3>1. req[c].step # "row"
      BY <1>1
    <3> QED
      BY <1>5, <2>1, <2>3, <2>4, <2>5, <2>6, <3>1, WriteFrame
  <2> QED
    BY <2>2, <2>7 DEF IndInv
<1>6. CASE /\ events[e].state = "live" /\ events' = [events EXCEPT ![e] = moved]
           /\ ToRow(c, e) /\ UNCHANGED <<touched, faults>>
  <2>1. PICK new \in ReqType :
           /\ req' = [req EXCEPT ![c] = new] /\ req'[c] = new
           /\ new.step = "row" /\ new.event = e /\ new.op = req[c].op
           /\ new.start = req[c].start /\ new.dur = req[c].dur
    BY <1>0, <1>6, ToRowEffect
  <2> QED
    BY <1>0, <1>1, <1>5, <1>6, <2>1
<1>7. CASE /\ events[e].state = "live" /\ events' = [events EXCEPT ![e] = moved]
           /\ Fault /\ touched' = touched \cup {e} /\ Answer(c)
  <2>1. faults' \in 0..MaxFaults /\ req' = [req EXCEPT ![c] = NoReq]
    BY <1>0, <1>7, FaultType DEF Answer
  <2> QED
    BY <1>0, <1>5, <1>7, <2>1, NoReqFields
<1> QED
  BY <1>1, <1>e, <1>4, <1>6, <1>7 DEF PatchEvent

LEMMA UpdateTimesStep ==
    ASSUME IndInv, NEW c \in Calls, UpdateScheduledMeetingTimes(c)
    PROVE  IndInv'
<1>0. /\ rows \in [Events -> RowType] /\ req \in [Calls -> ReqType]
      /\ touched \subseteq Events /\ faults \in 0..MaxFaults
      /\ (\A d \in Calls : ReqOk(d)) /\ (\A x \in Events : MeetingOk(x))
  BY InvFacts
<1>1. /\ req[c].step = "row" /\ req[c].op = "move" /\ Answer(c)
      /\ UNCHANGED <<caller, integ, connects, events>>
  BY DEF UpdateScheduledMeetingTimes
<1>e. PICK e \in Events : e = req[c].event
  BY <1>1, RequestedEvent
<1>2. /\ rows[e].status # "none"
      /\ \A d \in Calls : req[d].event = e => ~ AtRow(d, "schedule", e)
      /\ e \notin touched =>
            events[e].start = req[c].start /\ events[e].end = EventEnd(c)
  <2>1. ReqOk(c)
    BY <1>0
  <2> QED
    BY <1>1, <1>e, <2>1, RequestedEvent DEF ReqOk, AtRow, HasTimesOf
<1> DEFINE new == RowMoved(e, req[c].start, RowEnd(c))
<1>3. \/ rows[e].status = "scheduled" /\ rows' = [rows EXCEPT ![e] = new]
         /\ UNCHANGED <<touched, faults>>
      \/ rows[e].status # "scheduled" /\ UNCHANGED <<rows, touched, faults>>
      \/ Fault /\ touched' = touched \cup {e} /\ UNCHANGED rows
  BY <1>e DEF UpdateScheduledMeetingTimes
<1>4. /\ new \in RowType /\ new.status = rows[e].status
      /\ new.start = req[c].start /\ new.end = RowEnd(c)
  <2>1. rows[e] \in RowType /\ req[c].start \in Nat /\ RowEnd(c) \in Nat
    BY <1>0, Ends
  <2> QED
    BY <2>1 DEF RowType, RowMoved
<1> HIDE DEF new
<1>5. /\ req' \in [Calls -> ReqType] /\ (\A d \in Calls \ {c} : req'[d] = req[d])
      /\ faults' \in 0..MaxFaults
  BY <1>0, <1>1, <1>3, AnswerEffect, FaultType
<1>6. /\ rows' \in [Events -> RowType] /\ touched' \subseteq Events /\ touched \subseteq touched'
      /\ \A x \in Events \ {e} : events'[x] = events[x] /\ rows'[x] = rows[x]
      /\ \/ rows'[e] = new /\ touched' = touched
         \/ rows'[e] = rows[e] /\ (e \in touched' \/ rows[e].status # "scheduled")
      /\ events' = events
  BY <1>0, <1>1, <1>3, <1>4
<1>7. rows'[e].status = rows[e].status
  BY <1>4, <1>6
<1>8. ASSUME NEW d \in Calls \ {c}, req[d].event = e PROVE ReqOk(d)'
  <2>1. ReqOk(d) /\ req'[d] = req[d] /\ ~ AtRow(d, "schedule", e)
    BY <1>0, <1>2, <1>5, <1>8
  <2>2. e \in touched => e \in touched'
    BY <1>6
  <2> QED
    BY <1>6, <1>7, <1>8, <2>1, <2>2 DEF ReqOk, AtRow, HasTimesOf, EventEnd
<1>9. MeetingOk(e)'
  <2>1. MeetingOk(e)
    BY <1>0
  <2>2. CASE rows'[e] = new /\ touched' = touched
    <3>1. /\ RowEnd(c) >= req[c].start
          /\ RowEnd(c) = req[c].start \/ RowEnd(c) = EventEnd(c)
      BY <1>0, Ends
    <3>2. \A d \in Calls : AtRow(d, "cancel", e) => AtRow(d, "cancel", e)'
      BY <1>1, <1>5 DEF AtRow
    <3> QED
      BY <1>2, <1>4, <1>6, <2>1, <2>2, <3>1, <3>2 DEF MeetingOk
  <2>3. CASE rows'[e] = rows[e] /\ (e \in touched' \/ rows[e].status # "scheduled")
    BY <1>2, <1>6, <2>1, <2>3 DEF MeetingOk
  <2> QED
    BY <1>6, <2>2, <2>3
<1>10. TypeOK'
  BY <1>1, <1>5, <1>6 DEF IndInv, TypeOK, RowType, ReqType
<1>11. Agreement'
  BY <1>1, <1>e, <1>6, <1>8, <1>9, AnswerFrame
<1> QED
  BY <1>10, <1>11 DEF IndInv

LEMMA InvStep == IndInv /\ [Next]_vars => IndInv'
<1> SUFFICES ASSUME IndInv, [Next]_vars PROVE IndInv'
  OBVIOUS
<1>1. CASE UNCHANGED vars
  <2>1. TypeOK'
    BY <1>1 DEF IndInv, TypeOK, vars
  <2>2. Agreement'
    BY <1>1 DEF IndInv, Agreement, ReqOk, MeetingOk, OneWriter, AtRow, HasTimesOf, EventEnd, vars
  <2> QED
    BY <2>1, <2>2 DEF IndInv
<1>2. ASSUME NEW c \in Calls, ToolProceeds(c) PROVE IndInv'
  BY <1>2, TokenStep, CreateEventStep, PersistStep, DeleteEventStep, MarkStep, PatchEventStep,
     UpdateTimesStep DEF ToolProceeds
<1> QED
  BY <1>1, <1>2, OperatorStep, OwnerStep, StartStep DEF Next

\* What the backend says of a meeting and what Google holds agree: a cancelled
\* meeting is gone, an event without a row comes from a lost answer or a failed
\* INSERT, and a scheduled row has its event at its time, unless a fault, the
\* owner or two moves at once came between (executeToolAction,
\* calendar.Service); for any number of calls, accounts, meetings and faults.
THEOREM MeetingsAgree == Spec => []MeetingsInv
<1>1. IndInv => MeetingsInv
  <2> SUFFICES ASSUME IndInv PROVE MeetingsInv
    OBVIOUS
  <2>0. /\ TypeOK /\ \A e \in Events : MeetingOk(e) /\ rows[e].start \in Nat /\ rows[e].end \in Nat
    BY InvFacts, RowFields DEF IndInv
  <2>1. CancelledMeansGone
    BY <2>0 DEF CancelledMeansGone, MeetingOk
  <2>2. OrphanEventsComeFromFaults
    BY <2>0 DEF OrphanEventsComeFromFaults, MeetingOk, InProgress, AtRow
  <2>3. RowAgreesWithEvent
    <3>1. ASSUME NEW e \in Events, rows[e].status = "scheduled", ~ InProgress(e), e \notin touched,
                 rows[e].end > rows[e].start
          PROVE  /\ events[e].state = "live"
                 /\ events[e].start = rows[e].start /\ events[e].end = rows[e].end
      <4>1. \A c \in Calls : ~ AtRow(c, "cancel", e) /\ ~ AtRow(c, "move", e)
        BY <3>1 DEF InProgress, AtRow
      <4>2. rows[e].end # rows[e].start
        BY <2>0, <3>1
      <4> QED
        BY <2>0, <3>1, <4>1, <4>2 DEF MeetingOk
    <3> QED
      BY <3>1 DEF RowAgreesWithEvent
  <2> QED
    BY <2>0, <2>1, <2>2, <2>3 DEF MeetingsInv
<1> QED
  BY <1>1, InitImpliesInv, InvStep, PTL DEF Spec

-----------------------------------------------------------------------------
(* Free slots.  The walk has seen the intervals before index: they end at    *)
(* the cursor at the latest, which is the end of one of them or the start of *)
(* the window, and the gaps that end where one of them begins were found.    *)

Seen == 1..(index - 1)

CursorInv ==
    /\ cursor = From \/ \E j \in Seen : busy[j].e = cursor
    /\ \A j \in Seen : busy[j].e <= cursor

GapsFound ==
    /\ \A g \in Intervals :
          (\E i \in 1..Len(free) : free[i] = g) => MaximalGap(g) /\ g.e < cursor
    /\ \A g \in Intervals :
          MaximalGap(g) /\ (\E j \in Seen : busy[j].s = g.e)
            => \E i \in 1..Len(free) : free[i] = g

InOrder == \A i, j \in 1..Len(free) : i < j => free[i].e < free[j].s

\* SlotsInv made inductive.
SlotsIndInv ==
    /\ FreeSlotsTypeOK
    /\ slotStep = "asked" => index = 1 /\ cursor = From /\ free = <<>>
    /\ slotStep = "walk" => minD > 0 /\ CursorInv /\ GapsFound /\ InOrder
    /\ SlotsAreTheGaps

LEMMA SlotsConstants ==
    /\ From \in Nat /\ To \in Nat /\ Horizon \in Nat /\ MaxBusy \in Nat
    /\ From < To /\ To <= Horizon /\ DefaultGap \in Nat \ {0} /\ MinMinutes \subseteq Int
BY FreeSlotsAssumption

LEMMA BusyFacts ==
    ASSUME FreeSlotsTypeOK
    PROVE  /\ Len(busy) \in Nat /\ DOMAIN busy = 1..Len(busy) /\ index \in Nat
           /\ \A j \in 1..Len(busy) :
                 /\ busy[j].s \in 0..Horizon /\ busy[j].e \in 0..Horizon
                 /\ busy[j].s < busy[j].e /\ busy[j].s < To /\ From < busy[j].e
           /\ \A i, j \in 1..Len(busy) : i < j => busy[i].s <= busy[j].s
           /\ BusySet = {busy[j] : j \in 1..Len(busy)}
<1>1. busy \in Seq(BusyIntervals) /\ SortedByStart(busy) /\ index \in 1..(Len(busy) + 1)
  BY DEF FreeSlotsTypeOK
<1>2. Len(busy) \in Nat /\ DOMAIN busy = 1..Len(busy) /\ index \in Nat
  BY <1>1
<1>3. \A j \in 1..Len(busy) : busy[j] \in BusyIntervals
  BY <1>1
<1>4. \A b \in BusyIntervals : /\ b.s \in 0..Horizon /\ b.e \in 0..Horizon
                               /\ b.s < b.e /\ b.s < To /\ From < b.e
  BY DEF BusyIntervals, Intervals
<1> QED
  BY <1>1, <1>2, <1>3, <1>4 DEF SortedByStart, BusySet

\* A gap of the window, without the definitions of the property.
LEMMA GapFacts ==
    ASSUME FreeSlotsTypeOK, NEW g \in Intervals
    PROVE  /\ g.s \in 0..Horizon /\ g.e \in 0..Horizon /\ g = [s |-> g.s, e |-> g.e]
           /\ MaximalGap(g) <=>
                /\ From <= g.s /\ g.e <= To /\ minD <= g.e - g.s /\ g.s < g.e
                /\ \A j \in 1..Len(busy) : busy[j].e <= g.s \/ g.e <= busy[j].s
                /\ g.s = From \/ \E j \in 1..Len(busy) : busy[j].e = g.s
                /\ g.e = To \/ \E j \in 1..Len(busy) : busy[j].s = g.e
<1>1. g.s \in 0..Horizon /\ g.e \in 0..Horizon /\ g = [s |-> g.s, e |-> g.e]
  BY DEF Intervals
<1>2. minD \in Nat
  BY DEF FreeSlotsTypeOK
<1>3. \A j \in 1..Len(busy) : ~Overlap(g, busy[j]) <=> busy[j].e <= g.s \/ g.e <= busy[j].s
  BY <1>1, BusyFacts, SlotsConstants DEF Overlap
<1>4. (\A b \in BusySet : ~Overlap(g, b))
        <=> \A j \in 1..Len(busy) : busy[j].e <= g.s \/ g.e <= busy[j].s
  BY <1>3, BusyFacts
<1>5. /\ (\E b \in BusySet : b.e = g.s) <=> \E j \in 1..Len(busy) : busy[j].e = g.s
      /\ (\E b \in BusySet : b.s = g.e) <=> \E j \in 1..Len(busy) : busy[j].s = g.e
  BY BusyFacts
<1>6. (g.s >= From <=> From <= g.s) /\ (g.e - g.s >= minD <=> minD <= g.e - g.s)
  BY <1>1, <1>2, SlotsConstants
<1> QED
  BY <1>1, <1>4, <1>5, <1>6 DEF MaximalGap

LEMMA SlotsIndInit == FreeSlotsInit => SlotsIndInv
<1> SUFFICES ASSUME FreeSlotsInit PROVE SlotsIndInv
  OBVIOUS
<1>1. /\ slotStep = "asked" /\ index = 1 /\ cursor = From /\ free = <<>> /\ busy = <<>>
      /\ minD = 0
  BY DEF FreeSlotsInit
<1>2. FreeSlotsTypeOK
  <2>1. Len(busy) = 0 /\ DOMAIN busy = {} /\ busy \in Seq(BusyIntervals)
    BY <1>1
  <2>2. From \in From..Horizon
    BY SlotsConstants
  <2>3. free \in Seq(Intervals) /\ index \in 1..(Len(busy) + 1)
    BY <1>1, <2>1
  <2> QED
    BY <1>1, <2>1, <2>2, <2>3 DEF FreeSlotsTypeOK, SortedByStart
<1> QED
  BY <1>1, <1>2 DEF SlotsIndInv, SlotsAreTheGaps

LEMMA AnswersStep ==
    ASSUME SlotsIndInv, FreeBusyAnswers
    PROVE  SlotsIndInv'
<1>1. /\ slotStep' = "walk" /\ index' = 1 /\ cursor' = From /\ free' = <<>>
  BY DEF FreeBusyAnswers, SlotsIndInv
<1>2. PICK n \in 0..MaxBusy : busy' \in [1..n -> BusyIntervals] /\ SortedByStart(busy')
  BY DEF FreeBusyAnswers
<1>3. n \in Nat /\ busy' \in Seq(BusyIntervals) /\ Len(busy') = n
  <2>1. n \in Nat
    BY SlotsConstants
  <2> QED
    BY <1>2, <2>1
<1>4. minD' \in Nat /\ minD' > 0
  BY SlotsConstants DEF FreeBusyAnswers
<1>5. FreeSlotsTypeOK'
  <2>1. From \in From..Horizon /\ 1 \in 1..(n + 1)
    BY <1>3, SlotsConstants
  <2>2. free' \in Seq(Intervals)
    BY <1>1
  <2> QED
    BY <1>1, <1>2, <1>3, <1>4, <2>1, <2>2 DEF FreeSlotsTypeOK
<1>6. Seen' = {} /\ Len(free') = 0
  BY <1>1 DEF Seen
<1> QED
  BY <1>1, <1>4, <1>5, <1>6
     DEF SlotsIndInv, CursorInv, GapsFound, InOrder, SlotsAreTheGaps

\* A gap that ends where the next interval begins, and where none before began,
\* begins at the cursor.
LEMMA GapAtCursor ==
    ASSUME FreeSlotsTypeOK, CursorInv, index <= Len(busy),
           NEW g \in Intervals, MaximalGap(g), g.e = busy[index].s,
           \A j \in Seen : busy[j].s # g.e
    PROVE  g.s = cursor
<1>0. /\ index \in 1..Len(busy) /\ cursor \in Nat /\ g.s \in Nat /\ g.e \in Nat /\ Seen \subseteq 1..Len(busy)
      /\ Len(busy) \in Nat
  BY BusyFacts, GapFacts, SlotsConstants DEF FreeSlotsTypeOK, Seen
<1>1. /\ From <= g.s /\ g.s < g.e
      /\ \A j \in 1..Len(busy) : busy[j].e <= g.s \/ g.e <= busy[j].s
      /\ g.s = From \/ \E j \in 1..Len(busy) : busy[j].e = g.s
  BY GapFacts
<1>2. \A j \in Seen : busy[j].e <= g.s
  <2> SUFFICES ASSUME NEW j \in Seen PROVE busy[j].e <= g.s
    OBVIOUS
  <2>1. j \in 1..Len(busy) /\ j < index
    BY <1>0 DEF Seen
  <2>2. busy[j].s <= busy[index].s /\ busy[j].s \in Nat /\ busy[index].s \in Nat
    BY <1>0, <2>1, BusyFacts
  <2>3. busy[j].s < g.e
    BY <1>0, <2>2
  <2> QED
    BY <1>0, <1>1, <2>1, <2>2, <2>3
<1>3. cursor <= g.s
  BY <1>0, <1>1, <1>2, SlotsConstants DEF CursorInv
<1>4. g.s <= cursor
  <2>1. CASE g.s = From
    BY <1>0, <2>1, SlotsConstants DEF FreeSlotsTypeOK
  <2>2. ASSUME NEW j \in 1..Len(busy), busy[j].e = g.s PROVE g.s <= cursor
    <3>1. busy[j].s < busy[index].s /\ busy[j].s \in Nat /\ busy[index].s \in Nat
      BY <1>0, <1>1, <2>2, BusyFacts
    <3>2. ~(index < j) /\ j # index
      BY <1>0, <3>1, BusyFacts
    <3>3. j \in Seen
      BY <1>0, <3>2 DEF Seen
    <3> QED
      BY <2>2, <3>3 DEF CursorInv
  <2> QED
    BY <1>1, <2>1, <2>2
<1> QED
  BY <1>0, <1>3, <1>4

LEMMA WalkStep ==
    ASSUME SlotsIndInv, WalkBusy
    PROVE  SlotsIndInv'
<1> DEFINE b == busy[index]
           gap == [s |-> cursor, e |-> b.s]
           found == ~(b.e < cursor) /\ b.s > cursor /\ LongEnough(cursor, b.s)
<1>0. /\ FreeSlotsTypeOK /\ slotStep = "walk" /\ index <= Len(busy)
      /\ minD > 0 /\ minD \in Nat /\ CursorInv /\ GapsFound /\ InOrder
      /\ UNCHANGED <<slotStep, busy, minD>> /\ index' = index + 1
  BY DEF SlotsIndInv, FreeSlotsTypeOK, WalkBusy
<1>1. /\ index \in 1..Len(busy) /\ cursor \in From..Horizon /\ cursor \in Nat /\ Len(busy) \in Nat
      /\ b.s \in 0..Horizon /\ b.e \in 0..Horizon
      /\ b.s < b.e /\ b.s < To /\ From < b.e /\ free \in Seq(Intervals) /\ Len(free) \in Nat
      /\ Seen \subseteq 1..Len(busy) /\ Seen' = Seen \cup {index}
  BY <1>0, BusyFacts, SlotsConstants DEF FreeSlotsTypeOK, Seen
<1>2. /\ cursor' = IF b.e > cursor THEN b.e ELSE cursor
      /\ free' = IF found THEN Append(free, gap) ELSE free
  BY <1>1, SlotsConstants DEF WalkBusy, Advanced
<1>3. cursor' \in From..Horizon /\ cursor <= cursor' /\ b.e <= cursor' /\ cursor' \in Nat
  BY <1>1, <1>2, SlotsConstants
<1>4. CursorInv'
  <2>1. cursor' = From \/ \E j \in Seen' : busy[j].e = cursor'
    BY <1>0, <1>1, <1>2 DEF CursorInv
  <2>2. \A j \in Seen' : busy[j].e <= cursor'
    <3> SUFFICES ASSUME NEW j \in Seen' PROVE busy[j].e <= cursor'
      OBVIOUS
    <3>1. CASE j = index
      BY <1>3, <3>1
    <3>2. CASE j # index
      <4>1. j \in Seen /\ j \in 1..Len(busy)
        BY <1>1, <3>2
      <4>2. busy[j].e <= cursor /\ busy[j].e \in Nat
        BY <1>0, <4>1, BusyFacts, SlotsConstants DEF CursorInv
      <4> QED
        BY <1>1, <1>3, <4>2
    <3> QED
      BY <3>1, <3>2
  <2> QED
    BY <1>0, <2>1, <2>2 DEF CursorInv
<1>5. \A g : MaximalGap(g)' <=> MaximalGap(g)
  BY <1>0 DEF MaximalGap, BusySet, Overlap
<1>6. found => gap \in Intervals /\ MaximalGap(gap) /\ gap.s = cursor /\ gap.e = b.s
  <2> SUFFICES ASSUME found
               PROVE  gap \in Intervals /\ MaximalGap(gap) /\ gap.s = cursor /\ gap.e = b.s
    OBVIOUS
  <2>1. gap \in Intervals /\ gap.s = cursor /\ gap.e = b.s
    BY <1>1, SlotsConstants DEF Intervals
  <2>2. cursor < b.s /\ minD <= b.s - cursor
    BY <1>0, <1>1 DEF LongEnough
  <2>3. \A j \in 1..Len(busy) : busy[j].e <= cursor \/ b.s <= busy[j].s
    <3> SUFFICES ASSUME NEW j \in 1..Len(busy) PROVE busy[j].e <= cursor \/ b.s <= busy[j].s
      OBVIOUS
    <3>1. CASE j < index
      <4>1. j \in Seen
        BY <1>1, <3>1 DEF Seen
      <4> QED
        BY <1>0, <4>1 DEF CursorInv
    <3>2. CASE j = index
      BY <1>1, <3>2
    <3>3. CASE index < j
      BY <1>0, <1>1, <3>3, BusyFacts
    <3> QED
      BY <1>1, <3>1, <3>2, <3>3
  <2>4. cursor = From \/ \E j \in 1..Len(busy) : busy[j].e = cursor
    BY <1>0, <1>1 DEF CursorInv
  <2>5. b.s <= To /\ From <= cursor /\ \E j \in 1..Len(busy) : busy[j].s = b.s
    BY <1>1, SlotsConstants
  <2> HIDE DEF gap
  <2> QED
    BY <1>0, <2>1, <2>2, <2>3, <2>4, <2>5, GapFacts
<1>7. /\ free' \in Seq(Intervals) /\ Len(free') \in Nat
      /\ \A i \in 1..Len(free) : i \in 1..Len(free') /\ free'[i] = free[i]
      /\ \A i \in 1..Len(free') : i \in 1..Len(free) \/ (found /\ i = Len(free) + 1 /\ free'[i] = gap)
      /\ found => Len(free) + 1 \in 1..Len(free') /\ free'[Len(free) + 1] = gap
  <2> HIDE DEF gap, found
  <2>1. CASE found
    <3>1. free' = Append(free, gap) /\ gap \in Intervals
      BY <1>2, <1>6, <2>1
    <3> QED
      BY <1>1, <2>1, <3>1
  <2>2. CASE ~found
    <3>1. free' = free
      BY <1>2, <2>2
    <3> QED
      BY <1>1, <2>2, <3>1
  <2> QED
    BY <2>1, <2>2
<1>8. FreeSlotsTypeOK'
  <2>1. index' \in 1..(Len(busy') + 1)
    BY <1>0, <1>1
  <2> QED
    BY <1>0, <1>3, <1>7, <2>1 DEF FreeSlotsTypeOK
<1>9. \A i \in 1..Len(free) : /\ free[i].e < cursor /\ free[i].e \in Nat /\ free[i].s \in Nat
                              /\ MaximalGap(free[i])
  <2>1. \A i \in 1..Len(free) : free[i] \in Intervals
    BY <1>1
  <2>2. \A g \in Intervals : g.e \in Nat /\ g.s \in Nat
    BY SlotsConstants DEF Intervals
  <2> QED
    BY <1>0, <2>1, <2>2 DEF GapsFound
<1>10. \A i \in 1..Len(free') : MaximalGap(free'[i]) /\ free'[i].e < cursor'
  <2> SUFFICES ASSUME NEW i \in 1..Len(free') PROVE MaximalGap(free'[i]) /\ free'[i].e < cursor'
    OBVIOUS
  <2>1. CASE i \in 1..Len(free)
    BY <1>1, <1>3, <1>7, <1>9, <2>1
  <2>2. CASE i \notin 1..Len(free)
    <3>1. found /\ free'[i] = gap
      BY <1>7, <2>2
    <3>2. MaximalGap(gap) /\ gap.e = b.s
      BY <1>6, <3>1
    <3> HIDE DEF gap
    <3> QED
      BY <1>1, <1>3, <3>1, <3>2, SlotsConstants
  <2> QED
    BY <2>1, <2>2
<1>11. ASSUME NEW g \in Intervals, MaximalGap(g), NEW j \in Seen', busy[j].s = g.e
       PROVE  \E i \in 1..Len(free') : free'[i] = g
  <2>1. CASE \E k \in Seen : busy[k].s = g.e
    <3>1. PICK i \in 1..Len(free) : free[i] = g
      BY <1>0, <1>11, <2>1 DEF GapsFound
    <3> QED
      BY <1>7, <3>1
  <2>2. CASE \A k \in Seen : busy[k].s # g.e
    <3>1. j = index /\ g.e = b.s
      BY <1>1, <1>11, <2>2
    <3>2. g.s = cursor
      BY <1>0, <1>11, <2>2, <3>1, GapAtCursor
    <3>3. /\ g.s < g.e /\ minD <= g.e - g.s /\ g = [s |-> g.s, e |-> g.e]
      BY <1>0, <1>11, GapFacts
    <3>4. found /\ gap = g
      BY <1>0, <1>1, <3>1, <3>2, <3>3, SlotsConstants DEF LongEnough
    <3> HIDE DEF gap, found
    <3> QED
      BY <1>7, <3>4
  <2> QED
    BY <2>1, <2>2
<1>12. GapsFound'
  <2>1. \A g \in Intervals :
          (\E i \in 1..Len(free') : free'[i] = g) => MaximalGap(g)' /\ g.e < cursor'
    BY <1>5, <1>10
  <2>2. \A g \in Intervals : MaximalGap(g)' /\ (\E j \in Seen' : busy'[j].s = g.e)
          => \E i \in 1..Len(free') : free'[i] = g
    BY <1>0, <1>5, <1>11
  <2> QED
    BY <2>1, <2>2 DEF GapsFound
<1>13. InOrder'
  <2> SUFFICES ASSUME NEW i \in 1..Len(free'), NEW j \in 1..Len(free'), i < j
               PROVE  free'[i].e < free'[j].s
    BY DEF InOrder
  <2>1. CASE j \in 1..Len(free)
    <3>1. i \in 1..Len(free)
      BY <1>1, <2>1
    <3> QED
      BY <1>0, <1>7, <2>1, <3>1 DEF InOrder
  <2>2. CASE j \notin 1..Len(free)
    <3>1. found /\ free'[j] = gap /\ j = Len(free) + 1
      BY <1>7, <2>2
    <3>2. i \in 1..Len(free)
      BY <1>1, <3>1
    <3>3. gap.s = cursor
      BY <1>6, <3>1
    <3> HIDE DEF gap
    <3> QED
      BY <1>7, <1>9, <3>1, <3>2, <3>3
  <2> QED
    BY <2>1, <2>2
<1> QED
  BY <1>0, <1>4, <1>8, <1>12, <1>13 DEF SlotsIndInv, SlotsAreTheGaps

LEMMA LastGapStep ==
    ASSUME SlotsIndInv, LastGap
    PROVE  SlotsIndInv'
<1> DEFINE gap == [s |-> cursor, e |-> To]
           found == cursor < To /\ LongEnough(cursor, To)
<1>0. /\ FreeSlotsTypeOK /\ slotStep = "walk" /\ index > Len(busy)
      /\ minD > 0 /\ minD \in Nat /\ CursorInv /\ GapsFound /\ InOrder
      /\ slotStep' = "done" /\ UNCHANGED <<busy, minD, index, cursor>>
      /\ free' = IF found THEN Append(free, gap) ELSE free
  BY DEF SlotsIndInv, FreeSlotsTypeOK, LastGap
<1>1. /\ cursor \in From..Horizon /\ cursor \in Nat /\ Len(busy) \in Nat
      /\ free \in Seq(Intervals) /\ Len(free) \in Nat /\ Seen = 1..Len(busy)
  BY <1>0, BusyFacts, SlotsConstants DEF FreeSlotsTypeOK, Seen
<1>2. \A g : MaximalGap(g)' <=> MaximalGap(g)
  BY <1>0 DEF MaximalGap, BusySet, Overlap
<1>3. found => gap \in Intervals /\ MaximalGap(gap) /\ gap.s = cursor /\ gap.e = To
  <2> SUFFICES ASSUME found
               PROVE  gap \in Intervals /\ MaximalGap(gap) /\ gap.s = cursor /\ gap.e = To
    OBVIOUS
  <2>1. gap \in Intervals /\ gap.s = cursor /\ gap.e = To
    BY <1>1, SlotsConstants DEF Intervals
  <2>2. cursor < To /\ minD <= To - cursor /\ To <= To /\ From <= cursor
    BY <1>0, <1>1, SlotsConstants DEF LongEnough
  <2>3. /\ \A j \in 1..Len(busy) : busy[j].e <= cursor
        /\ cursor = From \/ \E j \in 1..Len(busy) : busy[j].e = cursor
    BY <1>0, <1>1 DEF CursorInv
  <2> HIDE DEF gap
  <2> QED
    BY <1>0, <2>1, <2>2, <2>3, GapFacts
<1>4. /\ free' \in Seq(Intervals) /\ Len(free') \in Nat
      /\ \A i \in 1..Len(free) : i \in 1..Len(free') /\ free'[i] = free[i]
      /\ \A i \in 1..Len(free') : i \in 1..Len(free) \/ (found /\ i = Len(free) + 1 /\ free'[i] = gap)
      /\ found => Len(free) + 1 \in 1..Len(free') /\ free'[Len(free) + 1] = gap
  <2> HIDE DEF gap, found
  <2>1. CASE found
    <3>1. free' = Append(free, gap) /\ gap \in Intervals
      BY <1>0, <1>3, <2>1
    <3> QED
      BY <1>1, <2>1, <3>1
  <2>2. CASE ~found
    <3>1. free' = free
      BY <1>0, <2>2
    <3> QED
      BY <1>1, <2>2, <3>1
  <2> QED
    BY <2>1, <2>2
<1>5. FreeSlotsTypeOK'
  BY <1>0, <1>4 DEF FreeSlotsTypeOK
<1>6. \A i \in 1..Len(free) : /\ free[i].e < cursor /\ free[i].e \in Nat /\ free[i].s \in Nat
                              /\ MaximalGap(free[i]) /\ free[i] \in Intervals
  <2>1. \A i \in 1..Len(free) : free[i] \in Intervals
    BY <1>1
  <2>2. \A g \in Intervals : g.e \in Nat /\ g.s \in Nat
    BY SlotsConstants DEF Intervals
  <2> QED
    BY <1>0, <2>1, <2>2 DEF GapsFound
<1>7. ASSUME NEW i \in 1..Len(free') PROVE MaximalGap(free'[i]) /\ free'[i] \in Intervals
  <2> HIDE DEF gap, found
  <2> QED
    BY <1>3, <1>4, <1>6
<1>8. ASSUME NEW g \in Intervals, MaximalGap(g) PROVE \E i \in 1..Len(free') : free'[i] = g
  <2>1. /\ From <= g.s /\ g.s < g.e /\ minD <= g.e - g.s /\ g = [s |-> g.s, e |-> g.e]
        /\ \A j \in 1..Len(busy) : busy[j].e <= g.s \/ g.e <= busy[j].s
        /\ g.s = From \/ \E j \in 1..Len(busy) : busy[j].e = g.s
        /\ g.e = To \/ \E j \in 1..Len(busy) : busy[j].s = g.e
        /\ g.s \in Nat /\ g.e \in Nat
    BY <1>0, <1>8, GapFacts, SlotsConstants
  <2>2. CASE \E j \in 1..Len(busy) : busy[j].s = g.e
    <3>1. PICK i \in 1..Len(free) : free[i] = g
      BY <1>0, <1>1, <1>8, <2>2 DEF GapsFound
    <3> QED
      BY <1>4, <3>1
  <2>3. CASE g.e = To
    <3>1. \A j \in 1..Len(busy) : busy[j].e <= g.s
      BY <1>0, <2>1, <2>3, BusyFacts, SlotsConstants
    <3>2. cursor <= g.s
      BY <1>0, <1>1, <2>1, <3>1, SlotsConstants DEF CursorInv
    <3>3. g.s <= cursor
      BY <1>0, <1>1, <2>1, SlotsConstants DEF CursorInv
    <3>4. g.s = cursor
      BY <1>1, <2>1, <3>2, <3>3
    <3>5. found /\ gap = g
      BY <1>0, <1>1, <2>1, <2>3, <3>4, SlotsConstants DEF LongEnough
    <3> HIDE DEF gap, found
    <3> QED
      BY <1>4, <3>5
  <2> QED
    BY <2>1, <2>2, <2>3
<1>9. ASSUME NEW i \in 1..Len(free'), NEW j \in 1..Len(free'), i < j
      PROVE  free'[i].e < free'[j].s
  <2>1. CASE j \in 1..Len(free)
    <3>1. i \in 1..Len(free)
      BY <1>1, <1>9, <2>1
    <3> QED
      BY <1>0, <1>4, <1>9, <2>1, <3>1 DEF InOrder
  <2>2. CASE j \notin 1..Len(free)
    <3>1. found /\ free'[j] = gap /\ j = Len(free) + 1
      BY <1>4, <2>2
    <3>2. i \in 1..Len(free)
      BY <1>1, <1>9, <3>1
    <3>3. gap.s = cursor
      BY <1>3, <3>1
    <3> HIDE DEF gap
    <3> QED
      BY <1>4, <1>6, <3>1, <3>2, <3>3
  <2> QED
    BY <2>1, <2>2
<1>10. SlotsAreTheGaps'
  <2>1. DOMAIN free' = 1..Len(free')
    BY <1>4
  <2>2. {free'[i] : i \in DOMAIN free'} = {g \in Intervals : MaximalGap(g)}
    BY <1>7, <1>8, <2>1
  <2>3. {g \in Intervals : MaximalGap(g)'} = {g \in Intervals : MaximalGap(g)}
    BY <1>2
  <2> QED
    BY <1>9, <2>1, <2>2, <2>3 DEF SlotsAreTheGaps
<1> QED
  BY <1>0, <1>5, <1>10 DEF SlotsIndInv

(* The walk over the busy intervals finds exactly the free gaps of the     *)
(* window that are long enough, each once and in order, for any intervals, *)
(* overlapping or not, any window and any length wanted (FindFreeSlots).   *)
THEOREM SlotsAreFree == FreeSlotsSpec => []SlotsInv
<1>1. ASSUME SlotsIndInv, [FreeSlotsNext]_slotVars PROVE SlotsIndInv'
  <2>1. CASE UNCHANGED slotVars
    BY <1>1, <2>1
       DEF slotVars, SlotsIndInv, FreeSlotsTypeOK, CursorInv, GapsFound, InOrder, Seen,
           SlotsAreTheGaps, MaximalGap, BusySet, Overlap
  <2> QED
    BY <1>1, <2>1, AnswersStep, WalkStep, LastGapStep DEF FreeSlotsNext
<1>2. SlotsIndInv => SlotsInv
  BY DEF SlotsIndInv, SlotsInv
<1>3. FreeSlotsSpec => []SlotsIndInv
  BY <1>1, SlotsIndInit, PTL DEF FreeSlotsSpec
<1> QED
  BY <1>2, <1>3, PTL
=============================================================================
