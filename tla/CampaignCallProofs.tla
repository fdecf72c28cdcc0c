-------------------------- MODULE CampaignCallProofs --------------------------
(***************************************************************************)
(* The calls the dispatcher makes: how often a row is dialled, for whom,   *)
(* how many channels a campaign has, and the life cycle of a call's row:   *)
(* what is in Asterisk, which events are still on their way, and that with *)
(* one backend process the rows implement CallLifecycle.                   *)
(***************************************************************************)
EXTENDS CampaignDispatchProofs

-----------------------------------------------------------------------------
(* What the steps do to the two tables. *)

\* The INSERT and the UPDATE of MarkCampaignLeadDispatched.
LEMMA MarkEffect ==
    ASSUME TypeInv, NEW r \in Replicas, MarkDispatched(r)
    PROVE  /\ tick[r].row.id \in Rows
           /\ \E k \in Calls :
                /\ calls[k].status = "none"
                /\ calls'[k] = [calls[k] EXCEPT !.status = "queued",
                                                !.row = tick[r].row.id]
                /\ calls'[k].status = "queued" /\ calls'[k].row = tick[r].row.id
                /\ \A j \in Calls \ {k} : calls'[j] = calls[j]
           /\ \A l \in Rows \ {tick[r].row.id} :
                campaign_leads'[l] = campaign_leads[l]
           /\ campaign_leads'[tick[r].row.id] =
                IF campaign_leads[tick[r].row.id].status = "absent"
                THEN campaign_leads[tick[r].row.id]
                ELSE Dispatched(campaign_leads[tick[r].row.id])
<1>1. PICK l \in Rows : l = tick[r].row.id
  BY RowCampaign DEF MarkDispatched
<1>2. PICK k \in Calls :
        /\ calls[k].status = "none"
        /\ calls' = [calls EXCEPT ![k] = [@ EXCEPT !.status = "queued", !.row = l]]
  BY <1>1 DEF MarkDispatched
<1>3. calls \in [Calls -> CallRow] /\ campaign_leads \in [Rows -> LeadRow]
  BY DEF TypeInv
<1>4. /\ calls'[k] = [calls[k] EXCEPT !.status = "queued", !.row = l]
      /\ \A j \in Calls \ {k} : calls'[j] = calls[j]
  BY <1>2, <1>3
<1>5. calls'[k].status = "queued" /\ calls'[k].row = l
  BY <1>3, <1>4 DEF CallRow
<1>6. campaign_leads' = IF campaign_leads[l].status = "absent" THEN campaign_leads
                        ELSE [campaign_leads EXCEPT ![l] = Dispatched(@)]
  BY <1>1 DEF MarkDispatched
<1>7. /\ \A m \in Rows \ {l} : campaign_leads'[m] = campaign_leads[m]
      /\ campaign_leads'[l] = IF campaign_leads[l].status = "absent"
                              THEN campaign_leads[l] ELSE Dispatched(campaign_leads[l])
  BY <1>3, <1>6
<1> QED
  BY <1>1, <1>2, <1>4, <1>5, <1>7

\* It dials the row at hand, which it never brings back, and touches no other.
LEMMA MarkedRow ==
    ASSUME TypeInv, NEW r \in Replicas, MarkDispatched(r), NEW l \in Rows
    PROVE  /\ \/ campaign_leads'[l] = campaign_leads[l]
              \/ l = tick[r].row.id /\ campaign_leads'[l].status = "calling"
           /\ \A k \in Calls : \/ calls'[k].row = calls[k].row
                               \/ calls'[k].row = tick[r].row.id
<1>1. \/ campaign_leads'[l] = campaign_leads[l]
      \/ l = tick[r].row.id /\ campaign_leads'[l] = Dispatched(campaign_leads[l])
  BY MarkEffect
<1>2. PICK k \in Calls : /\ calls'[k].row = tick[r].row.id
                         /\ \A j \in Calls \ {k} : calls'[j] = calls[j]
  BY MarkEffect
<1> QED
  BY <1>1, <1>2 DEF Dispatched

\* Only the worker's INSERT gives a call a row.
LEMMA LeadStep ==
    ASSUME TypeInv, [Next]_vars, \A r \in Replicas : ~MarkDispatched(r),
           NEW k \in Calls
    PROVE  calls'[k].row = calls[k].row
<1> USE DEF dbVars, slotVars, astVars
<1>0. calls \in [Calls -> CallRow]
  BY DEF TypeInv
<1>1. CASE UNCHANGED calls
  BY <1>1
<1>2. ASSUME NEW r \in Replicas, TestCall(r) PROVE calls'[k].row = calls[k].row
  BY <1>0, <1>2 DEF TestCall, CallRow
<1>3. ASSUME NEW j \in Calls, DialSession(j) \/ UpdateCallChannel(j) \/ DialFailed(j)
      PROVE  calls'[k].row = calls[k].row
  <2>1. CASE DialSession(j)
    BY <1>0, <2>1 DEF DialSession, CallRow
  <2>2. CASE UpdateCallChannel(j)
    <3> DEFINE row == [calls[j] EXCEPT !.channel_id = j, !.status = "dialing"]
    <3>1. row.row = calls[j].row
      BY <1>0 DEF CallRow
    <3>2. UNCHANGED calls \/ calls' = [calls EXCEPT ![j] = row]
      BY <2>2 DEF UpdateCallChannel
    <3> HIDE DEF row
    <3> QED
      BY <1>0, <3>1, <3>2
  <2>3. CASE DialFailed(j)
    BY <1>0, <2>3 DEF DialFailed, CallRow
  <2> QED
    BY <1>3, <2>1, <2>2, <2>3
<1>4. ASSUME NEW r \in Replicas, StasisBridge(r) PROVE calls'[k].row = calls[k].row
  BY <1>0, <1>4 DEF StasisBridge, CallRow
<1>5. ASSUME NEW r \in Replicas, FinishCall(r) PROVE calls'[k].row = calls[k].row
  <2>1. \/ UNCHANGED calls
        \/ calls'[k] = [calls[k] EXCEPT !.status = handler[r].status]
        \/ calls'[k] = calls[k]
    BY <1>0, <1>5 DEF FinishCall
  <2> QED
    BY <1>0, <2>1 DEF CallRow
<1>6. \/ UNCHANGED calls
      \/ \E r \in Replicas : TestCall(r) \/ StasisBridge(r) \/ FinishCall(r)
      \/ \E j \in Calls : DialSession(j) \/ UpdateCallChannel(j) \/ DialFailed(j)
  <2>1. ASSUME NEW r \in Replicas, Worker(r) PROVE UNCHANGED calls
    BY <2>1 DEF Worker, StartTick, CheckRow, SkipCampaignLead, TryAcquire, SendToken,
       MarkFailed
  <2>2. ASSUME NEW r \in Replicas, ARILoop(r)
        PROVE  UNCHANGED calls \/ StasisBridge(r) \/ FinishCall(r)
    BY <2>2 DEF ARILoop, StasisStart, ChannelDestroyed, HandlerRelease, HandlerDrain
  <2>3. ASSUME NEW j \in Calls, Dialer(j)
        PROVE  UNCHANGED calls \/ DialSession(j) \/ UpdateCallChannel(j) \/ DialFailed(j)
    BY <2>3 DEF Dialer, DialOriginate, DialRelease, DialDrain
  <2>4. CASE Portal
    BY <2>4 DEF Portal, UpdateCampaign, AddLeadsToCampaign, RemoveLeadFromCampaign,
       AddDoNotCall, RemoveDoNotCall
  <2>5. ASSUME NEW j \in Calls, ChannelAnswers(j) \/ ChannelEnds(j)
        PROVE UNCHANGED calls
    BY <2>5 DEF ChannelAnswers, ChannelEnds
  <2>6. ASSUME NEW r \in Replicas, Restart(r) PROVE UNCHANGED calls
    BY <2>6 DEF Restart
  <2>7. CASE CloseWindow \/ OpenWindow \/ LoseEvents \/ UNCHANGED vars
    BY <2>7 DEF CloseWindow, OpenWindow, LoseEvents, vars
  <2> QED
    BY <2>1, <2>2, <2>3, <2>4, <2>5, <2>6, <2>7 DEF Next
<1> QED
  BY <1>1, <1>2, <1>3, <1>4, <1>5, <1>6

\* An id that was not handed out yet has no attempts.
UnusedFresh ==
    \A l \in Rows : campaign_leads[l].status = "unused" => campaign_leads[l].attempts = 0

\* What the other statements on campaign_leads do to a row: it is new, blocked by
\* the worker that has it in hand, or removed, no more, and a removed row never
\* comes back.
RowStep(l) ==
    /\ campaign_leads'[l].attempts = campaign_leads[l].attempts
    /\ \/ campaign_leads'[l].status = campaign_leads[l].status
       \/ campaign_leads'[l].status = "absent"
       \/ /\ campaign_leads'[l].status = "blocked"
          /\ campaign_leads[l].status # "absent"
          /\ \E r \in Replicas : tick[r].pc = "skip" /\ tick[r].row.id = l
       \/ /\ campaign_leads[l].status = "unused"
          /\ campaign_leads'[l].status = "pending"
          /\ \E c \in Campaigns : AddLeadsToCampaign(c)

LEMMA LeadRowStep ==
    ASSUME TypeInv, UnusedFresh, [Next]_vars, \A r \in Replicas : ~MarkDispatched(r),
           NEW l \in Rows
    PROVE  RowStep(l)
<1> USE DEF dbVars, slotVars, astVars
<1>0. campaign_leads \in [Rows -> LeadRow]
  BY DEF TypeInv
<1>1. CASE UNCHANGED campaign_leads
  BY <1>1 DEF RowStep
<1>2. ASSUME NEW r \in Replicas, SkipCampaignLead(r) PROVE RowStep(l)
  BY <1>0, <1>2 DEF SkipCampaignLead, LeadRow, RowStep
<1>3. ASSUME NEW c \in Campaigns, UpdateCampaign(c) PROVE RowStep(l)
  BY <1>0, <1>3 DEF UpdateCampaign, LeadRow, RowStep
<1>4. ASSUME NEW m \in Rows, RemoveLeadFromCampaign(m) PROVE RowStep(l)
  BY <1>0, <1>4 DEF RemoveLeadFromCampaign, LeadRow, RowStep
<1>5. ASSUME NEW c \in Campaigns, AddLeadsToCampaign(c) PROVE RowStep(l)
  <2>1. PICK W \in Inserted(c) :
          campaign_leads' = [w \in Rows |-> IF w \in W THEN NewRow ELSE campaign_leads[w]]
    BY <1>5 DEF AddLeadsToCampaign
  <2>2. l \in W => campaign_leads[l].status = "unused"
    BY <2>1 DEF Inserted, Free
  <2> QED
    BY <1>0, <1>5, <2>1, <2>2 DEF UnusedFresh, NewRow, RowStep
<1>6. \/ UNCHANGED campaign_leads
      \/ \E r \in Replicas : SkipCampaignLead(r)
      \/ \E c \in Campaigns : UpdateCampaign(c) \/ AddLeadsToCampaign(c)
      \/ \E m \in Rows : RemoveLeadFromCampaign(m)
  <2>1. ASSUME NEW r \in Replicas, Worker(r)
        PROVE  UNCHANGED campaign_leads \/ SkipCampaignLead(r)
    BY <2>1 DEF Worker, StartTick, CheckRow, TryAcquire, SendToken, MarkFailed
  <2>2. ASSUME NEW r \in Replicas, ARILoop(r) PROVE UNCHANGED campaign_leads
    BY <2>2 DEF ARILoop, StasisStart, StasisBridge, ChannelDestroyed, FinishCall,
       HandlerRelease, HandlerDrain
  <2>3. ASSUME NEW j \in Calls, Dialer(j) PROVE UNCHANGED campaign_leads
    BY <2>3 DEF Dialer, DialSession, DialOriginate, UpdateCallChannel, DialFailed,
       DialRelease, DialDrain
  <2>4. CASE Portal
    BY <2>4 DEF Portal, TestCall, AddDoNotCall, RemoveDoNotCall
  <2>5. ASSUME NEW j \in Calls, ChannelAnswers(j) \/ ChannelEnds(j)
        PROVE UNCHANGED campaign_leads
    BY <2>5 DEF ChannelAnswers, ChannelEnds
  <2>6. ASSUME NEW r \in Replicas, Restart(r) PROVE UNCHANGED campaign_leads
    BY <2>6 DEF Restart
  <2>7. CASE CloseWindow \/ OpenWindow \/ LoseEvents \/ UNCHANGED vars
    BY <2>7 DEF CloseWindow, OpenWindow, LoseEvents, vars
  <2> QED
    BY <2>1, <2>2, <2>3, <2>4, <2>5, <2>6, <2>7 DEF Next
<1> QED
  BY <1>1, <1>2, <1>3, <1>4, <1>5, <1>6

-----------------------------------------------------------------------------
(* attempts counts the calls made *)

\* A call id the table has not handed out has no lead.
FreshHasNoLead == \A k \in Calls : calls[k].status = "none" => calls[k].row = None

\* AttemptsCountCalls made inductive.
AttemptsInv == TypeInv /\ FreshHasNoLead /\ UnusedFresh /\ AttemptsCountCalls

Made(l) == {k \in Calls : calls[k].row = l}

LEMMA MadeFinite ==
    ASSUME NEW l \in Rows
    PROVE  /\ IsFiniteSet(Made(l)) /\ Cardinality(Made(l)) \in Nat
           /\ IsFiniteSet(Made(l)') /\ Cardinality(Made(l)') \in Nat
<1>1. Made(l) \subseteq Calls /\ Made(l)' \subseteq Calls
  BY DEF Made
<1>2. IsFiniteSet(Made(l)) /\ IsFiniteSet(Made(l)')
  BY <1>1, ConstantsAssumption, FS_Subset
<1> QED
  BY <1>2, FS_CardinalityType

LEMMA FreshLeadStep == TypeInv /\ FreshHasNoLead /\ [Next]_vars => FreshHasNoLead'
<1> SUFFICES ASSUME TypeInv, FreshHasNoLead, [Next]_vars,
                    NEW k \in Calls, calls'[k].status = "none"
             PROVE  calls'[k].row = None
  BY DEF FreshHasNoLead
<1>1. calls[k].row = None
  BY FreshStep DEF FreshHasNoLead
<1>2. CASE \A r \in Replicas : ~MarkDispatched(r)
  BY <1>1, <1>2, LeadStep
<1>3. ASSUME NEW r \in Replicas, MarkDispatched(r) PROVE calls'[k].row = None
  BY <1>1, <1>3, MarkEffect
<1> QED
  BY <1>2, <1>3

LEMMA UnusedFreshStep == TypeInv /\ UnusedFresh /\ [Next]_vars => UnusedFresh'
<1> SUFFICES ASSUME TypeInv, UnusedFresh, [Next]_vars,
                    NEW l \in Rows, campaign_leads'[l].status = "unused"
             PROVE  campaign_leads'[l].attempts = 0
  BY DEF UnusedFresh
<1>1. CASE \A r \in Replicas : ~MarkDispatched(r)
  BY <1>1, LeadRowStep DEF UnusedFresh, RowStep
<1>2. ASSUME NEW r \in Replicas, MarkDispatched(r) PROVE campaign_leads'[l].attempts = 0
  <2>1. campaign_leads'[l] = campaign_leads[l] \/ campaign_leads'[l].status = "calling"
    BY <1>2, MarkedRow
  <2> QED
    BY <2>1 DEF UnusedFresh
<1> QED
  BY <1>1, <1>2

LEMMA AttemptsStep == AttemptsInv /\ [Next]_vars => AttemptsInv'
<1> SUFFICES ASSUME AttemptsInv, [Next]_vars PROVE AttemptsInv'
  OBVIOUS
<1>1. TypeInv /\ TypeInv' /\ FreshHasNoLead /\ FreshHasNoLead' /\ UnusedFresh /\ UnusedFresh'
  BY TypeStep, FreshLeadStep, UnusedFreshStep DEF AttemptsInv
<1>2. \A l \in Rows : /\ campaign_leads[l].attempts \in Nat
                       /\ IF campaign_leads[l].status = "absent"
                          THEN campaign_leads[l].attempts <= Cardinality(Made(l))
                          ELSE campaign_leads[l].attempts = Cardinality(Made(l))
  BY <1>1 DEF AttemptsInv, AttemptsCountCalls, Made, TypeInv, LeadRow
<1>3. SUFFICES ASSUME NEW l \in Rows
               PROVE  IF campaign_leads'[l].status = "absent"
                      THEN campaign_leads'[l].attempts <= Cardinality(Made(l)')
                      ELSE campaign_leads'[l].attempts = Cardinality(Made(l)')
  BY <1>1 DEF AttemptsInv, AttemptsCountCalls, Made
<1>4. CASE \A r \in Replicas : ~MarkDispatched(r)
  <2>1. Made(l)' = Made(l)
    BY <1>1, <1>4, LeadStep DEF Made
  <2> QED
    BY <1>1, <1>2, <1>4, <2>1, LeadRowStep, MadeFinite DEF RowStep
<1>5. ASSUME NEW r \in Replicas, MarkDispatched(r)
      PROVE  IF campaign_leads'[l].status = "absent"
             THEN campaign_leads'[l].attempts <= Cardinality(Made(l)')
             ELSE campaign_leads'[l].attempts = Cardinality(Made(l)')
  <2>1. PICK k \in Calls : /\ calls[k].status = "none"
                           /\ calls'[k].row = tick[r].row.id
                           /\ \A j \in Calls \ {k} : calls'[j] = calls[j]
    BY <1>1, <1>5, MarkEffect
  <2>2. calls[k].row = None /\ None \notin Rows
    BY <1>1, <2>1, ConstantsAssumption DEF FreshHasNoLead
  <2>3. CASE l # tick[r].row.id
    <3>1. \A j \in Calls : calls'[j].row = l <=> calls[j].row = l
      BY <2>1, <2>2, <2>3
    <3>2. Made(l)' = Made(l)
      BY <3>1 DEF Made
    <3>3. campaign_leads'[l] = campaign_leads[l]
      BY <1>1, <1>5, <2>3, MarkEffect
    <3> QED
      BY <1>2, <3>2, <3>3
  <2>4. CASE l = tick[r].row.id
    <3>1. Made(l)' = Made(l) \cup {k} /\ k \notin Made(l)
      BY <2>1, <2>2, <2>4 DEF Made
    <3>2. Cardinality(Made(l)') = Cardinality(Made(l)) + 1
      BY <3>1, MadeFinite, FS_AddElement
    <3>3. campaign_leads'[l] = IF campaign_leads[l].status = "absent"
                               THEN campaign_leads[l] ELSE Dispatched(campaign_leads[l])
      BY <1>1, <1>5, <2>4, MarkEffect
    <3> QED
      BY <1>2, <3>2, <3>3, MadeFinite DEF Dispatched
  <2> QED
    BY <2>3, <2>4
<1> QED
  BY <1>4, <1>5

LEMMA AttemptsInit == Init => AttemptsInv
<1> SUFFICES ASSUME Init PROVE AttemptsInv
  OBVIOUS
<1>1. \A k \in Calls : calls[k].row = None
  BY DEF Init, NoCall
<1>2. \A l \in Rows : {k \in Calls : calls[k].row = l} = {}
  BY <1>1, ConstantsAssumption
<1>3. \A l \in Rows : campaign_leads[l].status # "absent" /\ campaign_leads[l].attempts = 0
  BY DEF Init, NewRow, UnusedRow
<1>4. AttemptsCountCalls
  <2>1. SUFFICES ASSUME NEW l \in Rows
                 PROVE  /\ campaign_leads[l].status # "absent"
                        /\ campaign_leads[l].attempts =
                             Cardinality({k \in Calls : calls[k].row = l})
    BY DEF AttemptsCountCalls
  <2>2. Cardinality({k \in Calls : calls[k].row = l}) = 0
    BY <1>2, FS_EmptySet
  <2> QED
    BY <1>3, <2>2
<1> QED
  BY <1>1, <1>3, <1>4, TypeInit DEF AttemptsInv, FreshHasNoLead, UnusedFresh

\* MarkCampaignLeadDispatched writes attempts and the call in one transaction:
\* a row that was never removed has been attempted exactly once per call made for
\* it, for any number of replicas that dispatch it from stale lists.
THEOREM AttemptsAreCalls == Spec => []AttemptsCountCalls
<1>1. AttemptsInv => AttemptsCountCalls
  BY DEF AttemptsInv
<1> QED
  BY <1>1, AttemptsInit, AttemptsStep, PTL DEF Spec

-----------------------------------------------------------------------------
(* The worker's way through its due list *)

Working(t) == t.pc \in {"skip", "acquire", "send", "mark"}

\* Row l is on the list, or is the one being worked on.
Ahead(t, l) == \/ \E d \in t.due : d.id = l
               \/ Working(t) /\ t.row.id = l

\* A tick comes to each row once.
EachOnce(t) ==
    /\ \A d, e \in t.due : d.id = e.id => d = e
    /\ Working(t) => \A d \in t.due : d.id # t.row.id

LEMMA NextRowShape ==
    ASSUME NEW t \in TickType
    PROVE  NextRow(t).pc \in {"idle", "row"} /\ NextRow(t).due \subseteq t.due
BY DEF NextRow, IdleTick, TickType, Ticks

LEMMA CheckCapShape ==
    ASSUME NEW t \in TickType
    PROVE  /\ CheckCap(t).pc \in {"idle", "row", "acquire"}
           /\ CheckCap(t).due \subseteq t.due
           /\ CheckCap(t).pc = "acquire" => CheckCap(t).row = t.row
<1> DEFINE n == IF t.count = Uncounted THEN CountCallsToday ELSE t.count
           u == [t EXCEPT !.count = n]
           a == [t EXCEPT !.pc = "acquire", !.count = n]
<1>1. u.due = t.due /\ a.due = t.due /\ a.row = t.row /\ a.pc = "acquire"
  <2> HIDE DEF n
  <2>1. t \in Ticks
    BY DEF TickType
  <2> QED BY <2>1 DEF Ticks
<1>2. n \in Int
  <2>1. t.count \in Int
    BY TickStepType
  <2> QED
    BY <2>1, CountType
<1>3. u \in TickType
  <2> HIDE DEF n
  <2> QED BY <1>2, TickStepType
<1>4. NextRow(u).pc \in {"idle", "row"} /\ NextRow(u).due \subseteq t.due
  <2> HIDE DEF u
  <2> QED BY <1>1, <1>3, NextRowShape
<1>5. CheckCap(t) = NextRow(u) \/ CheckCap(t) = a
  BY DEF CheckCap
<1> HIDE DEF n, u, a
<1> QED
  BY <1>1, <1>4, <1>5

\* Taking a row off the list.
LEMMA TakeRow ==
    ASSUME NEW t \in TickType, NEW d \in t.due
    PROVE  LET u == [t EXCEPT !.due = @ \ {d}, !.row = d]
           IN  /\ u \in TickType /\ u.row = d /\ u.due = t.due \ {d} /\ u.pc = t.pc
               /\ [u EXCEPT !.pc = "skip"].pc = "skip"
               /\ [u EXCEPT !.pc = "skip"].due = u.due
               /\ [u EXCEPT !.pc = "skip"].row = d
<1> DEFINE u == [t EXCEPT !.due = @ \ {d}, !.row = d]
<1>1. t \in Ticks /\ d \in DueRow /\ t.due \ {d} \in SUBSET DueRow
  BY DEF TickType, Ticks
<1>2. u \in Ticks /\ u.row = d /\ u.due = t.due \ {d} /\ u.pc = t.pc
  BY <1>1 DEF Ticks
<1>3. u \in TickType
  BY <1>1, <1>2 DEF TickType
<1>4. /\ [u EXCEPT !.pc = "skip"].pc = "skip"
      /\ [u EXCEPT !.pc = "skip"].due = u.due
      /\ [u EXCEPT !.pc = "skip"].row = d
  <2> HIDE DEF u
  <2> QED BY <1>2 DEF Ticks
<1> QED
  BY <1>2, <1>3, <1>4

\* A checked row is skipped or on its way to the semaphore, or the tick goes on.
LEMMA CheckRowShape ==
    ASSUME TypeInv, NEW r \in Replicas, CheckRow(r)
    PROVE  \E d \in tick[r].due :
             /\ tick'[r].due \subseteq tick[r].due \ {d}
             /\ tick'[r].pc \in {"idle", "row", "skip", "acquire"}
             /\ Working(tick'[r]) => tick'[r].row = d
             /\ tick'[r].pc = "acquire" => ~IsBlockedPhone(d.id) \/ Fault
             /\ \A q \in Replicas \ {r} : tick'[q] = tick[q]
<1> DEFINE T(d) == [tick[r] EXCEPT !.due = @ \ {d}, !.row = d]
<1>1. PICK d \in tick[r].due :
        \/ tick' = [tick EXCEPT ![r] = NextRow(T(d))]
        \/ tick' = [tick EXCEPT ![r] = [T(d) EXCEPT !.pc = "skip"]]
        \/ /\ tick' = [tick EXCEPT ![r] = CheckCap(T(d))]
           /\ ~IsBlockedPhone(d.id) \/ Fault
  BY DEF CheckRow
<1>2. tick \in [Replicas -> TickType] /\ tick[r] \in TickType
  BY DEF TypeInv
<1>3. /\ T(d) \in TickType /\ T(d).row = d /\ T(d).due = tick[r].due \ {d}
      /\ [T(d) EXCEPT !.pc = "skip"].pc = "skip"
      /\ [T(d) EXCEPT !.pc = "skip"].due = T(d).due
      /\ [T(d) EXCEPT !.pc = "skip"].row = d
  BY <1>2, TakeRow
<1> HIDE DEF T
<1>4. NextRow(T(d)).pc \in {"idle", "row"} /\ NextRow(T(d)).due \subseteq T(d).due
  BY <1>3, NextRowShape
<1>5. /\ CheckCap(T(d)).pc \in {"idle", "row", "acquire"}
      /\ CheckCap(T(d)).due \subseteq T(d).due
      /\ CheckCap(T(d)).pc = "acquire" => CheckCap(T(d)).row = T(d).row
  BY <1>3, CheckCapShape
<1>6. \A q \in Replicas \ {r} : tick'[q] = tick[q]
  BY <1>1, <1>2
<1>7. CASE tick' = [tick EXCEPT ![r] = NextRow(T(d))]
  <2>1. tick'[r] = NextRow(T(d))
    BY <1>2, <1>7
  <2> QED
    BY <1>3, <1>4, <1>6, <2>1 DEF Working
<1>8. CASE tick' = [tick EXCEPT ![r] = [T(d) EXCEPT !.pc = "skip"]]
  <2>1. tick'[r] = [T(d) EXCEPT !.pc = "skip"]
    BY <1>2, <1>8
  <2> QED
    BY <1>3, <1>6, <2>1
<1>9. CASE /\ tick' = [tick EXCEPT ![r] = CheckCap(T(d))]
           /\ ~IsBlockedPhone(d.id) \/ Fault
  <2>1. tick'[r] = CheckCap(T(d))
    BY <1>2, <1>9
  <2> QED
    BY <1>3, <1>5, <1>6, <1>9, <2>1 DEF Working
<1> QED
  BY <1>1, <1>7, <1>8, <1>9

\* What any step can do to the worker of replica r.
LEMMA TickStep ==
    ASSUME TypeInv, [Next]_vars, NEW r \in Replicas
    PROVE  \/ StartTick(r)
           \/ CheckRow(r)
           \/ tick'[r] = tick[r]
           \/ /\ tick'[r].due \subseteq tick[r].due
              /\ tick'[r].pc \in {"idle", "row"}
           \/ /\ tick'[r].due = tick[r].due /\ tick'[r].row = tick[r].row
              /\ tick[r].pc \in {"acquire", "send"}
              /\ tick'[r].pc \in {"send", "mark"}
<1> USE DEF dbVars, slotVars, astVars
<1>0. tick \in [Replicas -> TickType] /\ tick[r] \in TickType
  BY DEF TypeInv
<1>1. CASE UNCHANGED tick
  BY <1>1
<1>2. ASSUME NEW q \in Replicas, q # r, Worker(q)
      PROVE  tick'[r] = tick[r]
  BY <1>0, <1>2 DEF Worker, StartTick, CheckRow, SkipCampaignLead, TryAcquire, SendToken,
     MarkDispatched, MarkFailed
<1>3. ASSUME tick' = [tick EXCEPT ![r] = NextRow(@)]
      PROVE  tick'[r].due \subseteq tick[r].due /\ tick'[r].pc \in {"idle", "row"}
  BY <1>0, <1>3, NextRowShape
<1>4. ASSUME TryAcquire(r)
      PROVE  /\ tick'[r].due = tick[r].due /\ tick'[r].row = tick[r].row
             /\ tick[r].pc = "acquire" /\ tick'[r].pc = "send"
  <2>1. tick'[r] = [tick[r] EXCEPT !.pc = "send"] /\ tick[r].pc = "acquire"
    BY <1>0, <1>4 DEF TryAcquire
  <2> QED
    BY <1>0, <2>1 DEF TickType, Ticks
<1>5. ASSUME SendToken(r)
      PROVE  \/ /\ tick'[r].due \subseteq tick[r].due
                /\ tick'[r].pc \in {"idle", "row"}
             \/ /\ tick'[r].due = tick[r].due /\ tick'[r].row = tick[r].row
                /\ tick[r].pc = "send" /\ tick'[r].pc = "mark"
  <2>1. CASE tick' = [tick EXCEPT ![r] = NextRow(@)]
    BY <1>3, <2>1
  <2>2. CASE tick' = [tick EXCEPT ![r] = [@ EXCEPT !.pc = "mark", !.count = tick[r].count + 1]]
    <3>1. tick'[r] = [tick[r] EXCEPT !.pc = "mark", !.count = tick[r].count + 1]
      BY <1>0, <2>2
    <3>2. tick[r].pc = "send"
      BY <1>5 DEF SendToken
    <3> QED
      BY <1>0, <3>1, <3>2 DEF TickType, Ticks
  <2> QED
    BY <1>5, <2>1, <2>2 DEF SendToken
<1>6. ASSUME NEW q \in Replicas, Restart(q)
      PROVE  \/ tick'[r] = tick[r]
             \/ tick'[r].due \subseteq tick[r].due /\ tick'[r].pc \in {"idle", "row"}
  <2>1. tick'[r] = IF r = q THEN IdleTick ELSE tick[r]
    BY <1>0, <1>6 DEF Restart
  <2> QED
    BY <2>1 DEF IdleTick
<1>7. ASSUME Worker(r)
      PROVE  \/ StartTick(r) \/ CheckRow(r) \/ TryAcquire(r) \/ SendToken(r)
             \/ tick' = [tick EXCEPT ![r] = NextRow(@)]
  BY <1>7 DEF Worker, SkipCampaignLead, MarkDispatched, MarkFailed
<1>8. UNCHANGED tick \/ \E q \in Replicas : Worker(q) \/ Restart(q)
  <2>1. ASSUME NEW q \in Replicas, ARILoop(q) PROVE UNCHANGED tick
    BY <2>1 DEF ARILoop, StasisStart, StasisBridge, ChannelDestroyed, FinishCall,
       HandlerRelease, HandlerDrain
  <2>2. ASSUME NEW j \in Calls, Dialer(j) PROVE UNCHANGED tick
    BY <2>2 DEF Dialer, DialSession, DialOriginate, UpdateCallChannel, DialFailed,
       DialRelease, DialDrain
  <2>3. CASE Portal
    BY <2>3 DEF Portal, TestCall, UpdateCampaign, AddLeadsToCampaign,
       RemoveLeadFromCampaign, AddDoNotCall, RemoveDoNotCall
  <2>4. ASSUME NEW j \in Calls, ChannelAnswers(j) \/ ChannelEnds(j) PROVE UNCHANGED tick
    BY <2>4 DEF ChannelAnswers, ChannelEnds
  <2>5. CASE CloseWindow \/ OpenWindow \/ LoseEvents \/ UNCHANGED vars
    BY <2>5 DEF CloseWindow, OpenWindow, LoseEvents, vars
  <2> QED
    BY <2>1, <2>2, <2>3, <2>4, <2>5 DEF Next
<1> QED
  BY <1>1, <1>2, <1>3, <1>4, <1>5, <1>6, <1>7, <1>8

\* The due list of a tick never grows; each row on it is worked on once.
LEMMA AheadStep ==
    ASSUME TypeInv, [Next]_vars, NEW r \in Replicas, EachOnce(tick[r])
    PROVE  /\ EachOnce(tick'[r])
           /\ \/ StartTick(r)
              \/ \A l \in Rows : Ahead(tick'[r], l) => Ahead(tick[r], l)
<1>0. tick[r] \in TickType /\ tick \in [Replicas -> TickType]
  BY DEF TypeInv
<1>1. CASE StartTick(r)
  <2>1. PICK S \in SUBSET Dispatchable :
          tick' = [tick EXCEPT ![r] = [IdleTick EXCEPT !.pc = "row", !.due = S]]
    BY <1>1 DEF StartTick
  <2>2. tick'[r].due = S /\ tick'[r].pc = "row"
    BY <1>0, <2>1 DEF IdleTick
  <2>3. \A d, e \in Dispatchable : d.id = e.id => d = e
    BY DEF Dispatchable
  <2> QED
    BY <1>1, <2>2, <2>3 DEF EachOnce, Working
<1>2. CASE CheckRow(r)
  <2>1. PICK d \in tick[r].due :
          /\ tick'[r].due \subseteq tick[r].due \ {d}
          /\ Working(tick'[r]) => tick'[r].row = d
    BY <1>2, CheckRowShape
  <2>2. \A e, f \in tick[r].due : e.id = f.id => e = f
    BY DEF EachOnce
  <2> QED
    BY <2>1, <2>2 DEF EachOnce, Ahead
<1>3. CASE tick'[r] = tick[r]
  BY <1>3
<1>4. CASE /\ tick'[r].due \subseteq tick[r].due
           /\ tick'[r].pc \in {"idle", "row"}
  BY <1>4 DEF EachOnce, Ahead, Working
<1>5. CASE /\ tick'[r].due = tick[r].due /\ tick'[r].row = tick[r].row
           /\ tick[r].pc \in {"acquire", "send"}
           /\ tick'[r].pc \in {"send", "mark"}
  BY <1>5 DEF EachOnce, Ahead, Working
<1> QED
  BY <1>1, <1>2, <1>3, <1>4, <1>5, TickStep

\* What a tick puts on its list has just been read as dispatchable.
LEMMA StartAhead ==
    ASSUME TypeInv, NEW r \in Replicas, StartTick(r), NEW l \in Rows,
           Ahead(tick'[r], l)
    PROVE  /\ campaign_leads[l].status \in {"pending", "failed"}
           /\ campaign_leads[l].attempts < MaxAttempts
<1>1. PICK S \in SUBSET Dispatchable :
        tick' = [tick EXCEPT ![r] = [IdleTick EXCEPT !.pc = "row", !.due = S]]
  BY DEF StartTick
<1>2. tick'[r].due = S /\ tick'[r].pc = "row"
  BY <1>1 DEF IdleTick, TypeInv
<1>3. PICK d \in Dispatchable : d.id = l
  BY <1>2 DEF Ahead, Working
<1> QED
  BY <1>3 DEF Dispatchable

-----------------------------------------------------------------------------
(* The rows of a campaign: one for each lead that is in it *)

\* The unique key of campaign_leads, while a deleted row is no row.
PresentOnce ==
    \A c \in Campaigns : OncePerLead(Present(c))

\* An id that was not handed out yet is not on any worker's list, and in no call.
RowsInv ==
    /\ TypeInv
    /\ UnusedFresh
    /\ PresentOnce
    /\ \A r \in Replicas : EachOnce(tick[r])
    /\ \A l \in Rows : campaign_leads[l].status = "unused" =>
         /\ \A r \in Replicas : ~Ahead(tick[r], l)
         /\ \A k \in Calls : calls[k].row # l

\* Nothing makes a row present but AddLeadsToCampaign.
LEMMA PresentStep ==
    ASSUME RowsInv, [Next]_vars, \A c \in Campaigns : ~AddLeadsToCampaign(c)
    PROVE  \A c \in Campaigns : Present(c)' \subseteq Present(c)
<1> SUFFICES ASSUME NEW l \in Rows, campaign_leads'[l].status \notin {"unused", "absent"}
             PROVE  campaign_leads[l].status \notin {"unused", "absent"}
  BY DEF Present
<1>1. TypeInv /\ UnusedFresh
  BY DEF RowsInv
<1>2. ASSUME NEW r \in Replicas, Ahead(tick[r], l)
      PROVE  campaign_leads[l].status # "unused"
  BY <1>2 DEF RowsInv
<1>3. CASE \A r \in Replicas : ~MarkDispatched(r)
  <2>1. RowStep(l)
    BY <1>1, <1>3, LeadRowStep
  <2>2. ASSUME NEW r \in Replicas, tick[r].pc = "skip" /\ tick[r].row.id = l
        PROVE  campaign_leads[l].status # "unused"
    BY <1>2, <2>2 DEF Ahead, Working
  <2> QED
    BY <2>1, <2>2 DEF RowStep
<1>4. ASSUME NEW r \in Replicas, MarkDispatched(r)
      PROVE  campaign_leads[l].status \notin {"unused", "absent"}
  <2>1. CASE l # tick[r].row.id
    BY <1>1, <1>4, <2>1, MarkEffect
  <2>2. CASE l = tick[r].row.id
    <3>1. campaign_leads[l].status # "unused"
      BY <1>2, <1>4, <2>2 DEF MarkDispatched, Ahead, Working
    <3>2. campaign_leads[l].status # "absent"
      BY <1>1, <1>4, <2>2, MarkEffect
    <3> QED
      BY <3>1, <3>2
  <2> QED
    BY <2>1, <2>2
<1> QED
  BY <1>3, <1>4

\* What AddLeadsToCampaign inserts keeps the key.
LEMMA AddedOnce ==
    ASSUME TypeInv, PresentOnce, NEW c \in Campaigns, AddLeadsToCampaign(c)
    PROVE  PresentOnce'
<1> SUFFICES ASSUME NEW d \in Campaigns, NEW v \in Present(d)', NEW w \in Present(d)',
                    LeadOf[v] = LeadOf[w]
             PROVE  v = w
  BY DEF PresentOnce, OncePerLead
<1>1. PICK W \in Inserted(c) :
        campaign_leads' = [u \in Rows |-> IF u \in W THEN NewRow ELSE campaign_leads[u]]
  BY DEF AddLeadsToCampaign
<1>2. v \in Present(d) \/ (v \in W /\ d = c)
  BY <1>1 DEF Present, Inserted, Free
<1>3. w \in Present(d) \/ (w \in W /\ d = c)
  BY <1>1 DEF Present, Inserted, Free
<1>4. OncePerLead(W \cup Present(c)) /\ OncePerLead(Present(d))
  BY <1>1 DEF Inserted, PresentOnce
<1> QED
  BY <1>2, <1>3, <1>4 DEF OncePerLead

LEMMA RowsStep == RowsInv /\ [Next]_vars => RowsInv'
<1> SUFFICES ASSUME RowsInv, [Next]_vars PROVE RowsInv'
  OBVIOUS
<1>1. /\ TypeInv /\ TypeInv' /\ UnusedFresh /\ UnusedFresh' /\ PresentOnce
      /\ \A r \in Replicas : EachOnce(tick[r]) /\ EachOnce(tick'[r])
  BY TypeStep, UnusedFreshStep, AheadStep DEF RowsInv
<1>2. PresentOnce'
  <2>1. CASE \A c \in Campaigns : ~AddLeadsToCampaign(c)
    BY <1>1, <2>1, PresentStep DEF PresentOnce, OncePerLead
  <2> QED
    BY <1>1, <2>1, AddedOnce
<1>3. ASSUME NEW l \in Rows, campaign_leads'[l].status = "unused"
      PROVE  /\ \A r \in Replicas : ~Ahead(tick'[r], l)
             /\ \A k \in Calls : calls'[k].row # l
  <2>1. CASE \A r \in Replicas : ~MarkDispatched(r)
    <3>1. campaign_leads[l].status = "unused"
      BY <1>1, <1>3, <2>1, LeadRowStep DEF RowStep
    <3>2. \A k \in Calls : calls'[k].row # l
      BY <1>1, <2>1, <3>1, LeadStep DEF RowsInv
    <3>3. \A r \in Replicas : ~Ahead(tick'[r], l)
      BY <1>1, <3>1, AheadStep, StartAhead DEF RowsInv
    <3> QED
      BY <3>2, <3>3
  <2>2. ASSUME NEW r \in Replicas, MarkDispatched(r)
        PROVE  /\ \A q \in Replicas : ~Ahead(tick'[q], l)
               /\ \A k \in Calls : calls'[k].row # l
    <3>1. Ahead(tick[r], tick[r].row.id)
      BY <2>2 DEF MarkDispatched, Ahead, Working
    <3>2. campaign_leads[l].status = "unused"
      BY <1>1, <1>3, <2>2, MarkedRow
    <3>3. l # tick[r].row.id
      BY <3>1, <3>2 DEF RowsInv
    <3>4. \A k \in Calls : calls'[k].row # l
      BY <1>1, <2>2, <3>2, <3>3, MarkedRow DEF RowsInv
    <3>5. \A q \in Replicas : ~Ahead(tick'[q], l)
      BY <1>1, <3>2, AheadStep, StartAhead DEF RowsInv
    <3> QED
      BY <3>4, <3>5
  <2> QED
    BY <2>1, <2>2
<1> QED
  BY <1>1, <1>2, <1>3 DEF RowsInv

LEMMA RowsInit == Init => RowsInv
<1> SUFFICES ASSUME Init PROVE RowsInv
  OBVIOUS
<1>1. \A r \in Replicas : EachOnce(tick[r]) /\ \A l \in Rows : ~Ahead(tick[r], l)
  BY DEF Init, IdleTick, EachOnce, Ahead, Working
<1>2. \A l \in Rows : campaign_leads[l] = IF l \in FirstRows THEN NewRow ELSE UnusedRow
  BY DEF Init
<1>3. UnusedFresh
  BY <1>2 DEF UnusedFresh, NewRow, UnusedRow
<1>4. \A k \in Calls : calls[k].row = None
  BY DEF Init, NoCall
<1>5. \A c \in Campaigns : Present(c) \subseteq {l \in FirstRows : CampaignOf[l] = c}
  BY <1>2 DEF Present, UnusedRow
<1>6. PresentOnce
  BY <1>5, ConstantsAssumption DEF PresentOnce, OncePerLead
<1> QED
  BY <1>1, <1>3, <1>4, <1>6, TypeInit, ConstantsAssumption DEF RowsInv

-----------------------------------------------------------------------------
(* Do-not-call *)

LEMMA FaultsGrow ==
    ASSUME TypeInv, [Next]_vars, faults' = 0
    PROVE  faults = 0
<1> USE DEF dbVars, slotVars, astVars
<1>0. faults \in Nat
  BY ConstantsAssumption DEF TypeInv
<1>1. ASSUME Fault PROVE FALSE
  BY <1>0, <1>1 DEF Fault
<1>2. ASSUME NEW r \in Replicas, Worker(r) PROVE faults = 0
  BY <1>1, <1>2 DEF Worker, StartTick, CheckRow, SkipCampaignLead, TryAcquire, SendToken,
     MarkDispatched, MarkFailed
<1>3. ASSUME NEW ch, NEW evs, HangupChannel(ch, evs) PROVE faults = 0
  BY <1>1, <1>3 DEF HangupChannel
<1>4. ASSUME NEW r \in Replicas, ARILoop(r) PROVE faults = 0
  BY <1>1, <1>3, <1>4 DEF ARILoop, StasisStart, StasisBridge, ChannelDestroyed,
     FinishCall, HandlerRelease, HandlerDrain
<1>5. ASSUME NEW j \in Calls, Dialer(j) PROVE faults = 0
  BY <1>1, <1>5 DEF Dialer, DialSession, DialOriginate, UpdateCallChannel, DialFailed,
     DialRelease, DialDrain
<1>6. ASSUME Portal PROVE faults = 0
  BY <1>6 DEF Portal, TestCall, UpdateCampaign, AddLeadsToCampaign,
     RemoveLeadFromCampaign, AddDoNotCall, RemoveDoNotCall
<1>7. ASSUME NEW j \in Calls, ChannelAnswers(j) \/ ChannelEnds(j) PROVE faults = 0
  BY <1>7 DEF ChannelAnswers, ChannelEnds
<1>8. ASSUME NEW r \in Replicas, Restart(r) PROVE faults = 0
  BY <1>1, <1>8 DEF Restart
<1>9. CASE CloseWindow \/ OpenWindow \/ LoseEvents \/ UNCHANGED vars
  BY <1>1, <1>9 DEF CloseWindow, OpenWindow, LoseEvents, vars
<1> QED
  BY <1>2, <1>4, <1>5, <1>6, <1>7, <1>8, <1>9 DEF Next

\* Who writes the list and its history: the portal, and the ticks that begin.
LEMMA DncEffect ==
    ASSUME TypeInv, [Next]_vars
    PROVE  \/ UNCHANGED <<dnc, dncStable>>
           \/ \E r \in Replicas : /\ UNCHANGED dnc
                                  /\ dncStable' = [dncStable EXCEPT ![r] = dnc]
                                  /\ StartTick(r)
           \/ \E l \in Leads : dnc' = dnc \cup {l} /\ UNCHANGED dncStable
           \/ \E l \in Leads : /\ dnc' = dnc \ {l}
                                /\ dncStable' = [r \in Replicas |-> dncStable[r] \ {l}]
<1> USE DEF dbVars, slotVars, astVars
<1>1. ASSUME NEW r \in Replicas, Worker(r)
      PROVE  \/ UNCHANGED <<dnc, dncStable>>
             \/ /\ UNCHANGED dnc
                /\ dncStable' = [dncStable EXCEPT ![r] = dnc]
                /\ StartTick(r)
  BY <1>1 DEF Worker, StartTick, CheckRow, SkipCampaignLead, TryAcquire, SendToken,
     MarkDispatched, MarkFailed
<1>2. ASSUME NEW r \in Replicas, ARILoop(r) PROVE UNCHANGED <<dnc, dncStable>>
  BY <1>2 DEF ARILoop, StasisStart, StasisBridge, ChannelDestroyed, FinishCall,
     HandlerRelease, HandlerDrain
<1>3. ASSUME NEW j \in Calls, Dialer(j) PROVE UNCHANGED <<dnc, dncStable>>
  BY <1>3 DEF Dialer, DialSession, DialOriginate, UpdateCallChannel, DialFailed,
     DialRelease, DialDrain
<1>4. ASSUME Portal
      PROVE  \/ UNCHANGED <<dnc, dncStable>>
             \/ \E l \in Leads : AddDoNotCall(l) \/ RemoveDoNotCall(l)
  BY <1>4 DEF Portal, TestCall, UpdateCampaign, AddLeadsToCampaign,
     RemoveLeadFromCampaign
<1>5. ASSUME NEW j \in Calls, ChannelAnswers(j) \/ ChannelEnds(j)
      PROVE  UNCHANGED <<dnc, dncStable>>
  BY <1>5 DEF ChannelAnswers, ChannelEnds
<1>6. ASSUME NEW r \in Replicas, Restart(r) PROVE UNCHANGED <<dnc, dncStable>>
  BY <1>6 DEF Restart
<1>7. CASE CloseWindow \/ OpenWindow \/ LoseEvents \/ UNCHANGED vars
  BY <1>7 DEF CloseWindow, OpenWindow, LoseEvents, vars
<1>8. ASSUME NEW l \in Leads, AddDoNotCall(l)
      PROVE  dnc' = dnc \cup {l} /\ UNCHANGED dncStable
  BY <1>8 DEF AddDoNotCall
<1>9. ASSUME NEW l \in Leads, RemoveDoNotCall(l)
      PROVE  /\ dnc' = dnc \ {l}
             /\ dncStable' = [r \in Replicas |-> dncStable[r] \ {l}]
  BY <1>9 DEF RemoveDoNotCall
<1> QED
  BY <1>1, <1>2, <1>3, <1>4, <1>5, <1>6, <1>7, <1>8, <1>9 DEF Next

\* A row past the do-not-call check was not on the list when the tick began, or
\* has been off it since, as long as no statement failed.
DncInv ==
    /\ TypeInv
    /\ \A r \in Replicas : dncStable[r] \subseteq dnc
    /\ faults = 0 =>
         \A r \in Replicas : tick[r].pc \in {"acquire", "send", "mark"} =>
                                 LeadOf[tick[r].row.id] \notin dncStable[r]

LEMMA DncStep == DncInv /\ [Next]_vars => DncInv'
<1> SUFFICES ASSUME DncInv, [Next]_vars PROVE DncInv'
  OBVIOUS
<1>0. /\ TypeInv /\ TypeInv' /\ faults \in Nat
      /\ tick \in [Replicas -> TickType]
      /\ dncStable \in [Replicas -> SUBSET Leads]
  BY TypeStep, ConstantsAssumption DEF DncInv, TypeInv
<1>1. \A r \in Replicas : \/ dncStable'[r] \subseteq dncStable[r]
                          \/ StartTick(r)
  BY <1>0, DncEffect
<1>2. \A r \in Replicas : dncStable'[r] \subseteq dnc'
  <2> TAKE r \in Replicas
  <2>1. dncStable[r] \subseteq dnc
    BY DEF DncInv
  <2> QED
    BY <1>0, <2>1, DncEffect
<1>3. ASSUME faults' = 0, NEW r \in Replicas, tick'[r].pc \in {"acquire", "send", "mark"}
      PROVE  LeadOf[tick'[r].row.id] \notin dncStable'[r]
  <2>1. faults = 0
    BY <1>0, <1>3, FaultsGrow
  <2>2. /\ tick[r].pc \in {"acquire", "send", "mark"} =>
               LeadOf[tick[r].row.id] \notin dncStable[r]
        /\ dncStable[r] \subseteq dnc
    BY <2>1 DEF DncInv
  <2>3. CASE StartTick(r)
    <3>1. PICK S : tick' = [tick EXCEPT ![r] = [IdleTick EXCEPT !.pc = "row", !.due = S]]
      BY <2>3 DEF StartTick
    <3>2. tick'[r].pc = "row"
      BY <1>0, <3>1 DEF IdleTick
    <3> QED
      BY <1>3, <3>2
  <2>4. CASE CheckRow(r)
    <3>1. PICK d \in tick[r].due :
            /\ Working(tick'[r]) => tick'[r].row = d
            /\ tick'[r].pc \in {"idle", "row", "skip", "acquire"}
            /\ tick'[r].pc = "acquire" => ~IsBlockedPhone(d.id) \/ Fault
      BY <1>0, <2>4, CheckRowShape
    <3>2. UNCHANGED dncStable
      BY <2>4 DEF CheckRow
    <3>3. ~Fault
      BY <1>0, <1>3, <2>1 DEF Fault
    <3>4. tick'[r].row = d /\ LeadOf[d.id] \notin dnc
      BY <1>3, <3>1, <3>3 DEF Working, IsBlockedPhone
    <3> QED
      BY <2>2, <3>2, <3>4
  <2>5. CASE ~StartTick(r) /\ ~CheckRow(r)
    <3>1. /\ tick[r].pc \in {"acquire", "send", "mark"}
          /\ tick'[r].row = tick[r].row
      BY <1>0, <1>3, <2>5, TickStep
    <3> QED
      BY <1>1, <2>2, <2>5, <3>1
  <2> QED
    BY <2>3, <2>4, <2>5
<1> QED
  BY <1>0, <1>2, <1>3 DEF DncInv

LEMMA DncInit == Init => DncInv
BY TypeInit DEF Init, DncInv, IdleTick

\* A tick never makes a call for a phone that was listed when it read its due
\* list and has been listed ever since, unless a statement failed: IsBlockedPhone
\* looks after the list was read, and nothing between that look and the INSERT
\* brings another row in.
THEOREM ListedPhonesAreNotDialed == Spec => ListedPhonesNotDialed
<1>1. DncInv /\ [Next]_vars =>
        [\A r \in Replicas :
           MarkDispatched(r) /\ faults = 0 => LeadOf[tick[r].row.id] \notin dncStable[r]]_vars
  BY DEF DncInv, MarkDispatched
<1> QED
  BY <1>1, DncInit, DncStep, PTL DEF Spec, ListedPhonesNotDialed

-----------------------------------------------------------------------------
(* One backend process: each row is called once *)

OneReplica == \A q, r \in Replicas : q = r

\* A row is called once: a row that has a call is not dispatchable, nor ahead of
\* the worker on a list read before.
OnceInv ==
    /\ RowsInv
    /\ FreshHasNoLead
    /\ \A j, k \in Calls : calls[j].row = calls[k].row /\ calls[j].row # None => j = k
    /\ \A k \in Calls, l \in Rows :
         calls[k].row = l => /\ campaign_leads[l].status \notin {"pending", "failed"}
                              /\ \A r \in Replicas : ~Ahead(tick[r], l)
    /\ \A l \in Rows : /\ campaign_leads[l].attempts <= MaxAttempts
                        /\ \A r \in Replicas : Ahead(tick[r], l) =>
                             campaign_leads[l].attempts < MaxAttempts

LEMMA OnceStep == OneReplica /\ OnceInv /\ [Next]_vars => OnceInv'
<1> SUFFICES ASSUME OneReplica, OnceInv, [Next]_vars PROVE OnceInv'
  OBVIOUS
<1>0. RowsInv /\ RowsInv' /\ TypeInv /\ UnusedFresh /\ FreshHasNoLead /\ FreshHasNoLead'
  BY RowsStep, FreshLeadStep DEF OnceInv, RowsInv
<1>1. /\ \A j, k \in Calls : calls[j].row = calls[k].row /\ calls[j].row # None => j = k
      /\ \A k \in Calls, l \in Rows :
           calls[k].row = l => /\ campaign_leads[l].status \notin {"pending", "failed"}
                                /\ \A r \in Replicas : ~Ahead(tick[r], l)
      /\ \A l \in Rows : /\ campaign_leads[l].attempts <= MaxAttempts
                          /\ \A r \in Replicas : Ahead(tick[r], l) =>
                               campaign_leads[l].attempts < MaxAttempts
      /\ \A r \in Replicas : EachOnce(tick[r])
      /\ \A l \in Rows : campaign_leads[l].attempts \in Nat
  BY <1>0 DEF OnceInv, RowsInv, TypeInv, LeadRow
<1>2. CASE \A r \in Replicas : ~MarkDispatched(r)
  <2>1. \A k \in Calls : calls'[k].row = calls[k].row
    BY <1>0, <1>2, LeadStep
  <2>2. \A l \in Rows :
          /\ campaign_leads'[l].attempts = campaign_leads[l].attempts
          /\ campaign_leads'[l].status \in {"pending", "failed"} =>
               campaign_leads[l].status \in {"unused", "pending", "failed"}
    BY <1>0, <1>2, LeadRowStep DEF RowStep
  <2>3. ASSUME NEW r \in Replicas, NEW l \in Rows, Ahead(tick'[r], l)
        PROVE  /\ \A k \in Calls : calls[k].row # l
               /\ campaign_leads[l].attempts < MaxAttempts
    <3>1. CASE StartTick(r)
      BY <1>0, <1>1, <2>3, <3>1, StartAhead
    <3>2. CASE Ahead(tick[r], l)
      BY <1>1, <3>2
    <3> QED
      BY <1>0, <1>1, <2>3, <3>1, <3>2, AheadStep
  <2>4. \A j, k \in Calls : calls'[j].row = calls'[k].row /\ calls'[j].row # None => j = k
    BY <1>1, <2>1
  <2>5. \A k \in Calls, l \in Rows :
           calls'[k].row = l => /\ campaign_leads'[l].status \notin {"pending", "failed"}
                                 /\ \A r \in Replicas : ~Ahead(tick'[r], l)
    BY <1>0, <1>1, <2>1, <2>2, <2>3 DEF RowsInv
  <2>6. \A l \in Rows : /\ campaign_leads'[l].attempts <= MaxAttempts
                         /\ \A r \in Replicas : Ahead(tick'[r], l) =>
                               campaign_leads'[l].attempts < MaxAttempts
    BY <1>1, <2>2, <2>3
  <2> QED
    BY <1>0, <2>4, <2>5, <2>6 DEF OnceInv
<1>3. ASSUME NEW r \in Replicas, MarkDispatched(r) PROVE OnceInv'
  <2>1. PICK m \in Rows : m = tick[r].row.id
    BY <1>0, <1>3, MarkEffect
  <2>2. PICK k \in Calls : /\ calls[k].status = "none" /\ calls'[k].row = m
                           /\ \A j \in Calls \ {k} : calls'[j] = calls[j]
    BY <1>0, <1>3, <2>1, MarkEffect
  <2>3. /\ \A l \in Rows \ {m} : campaign_leads'[l] = campaign_leads[l]
        /\ \/ /\ campaign_leads[m].status = "absent"
              /\ campaign_leads'[m] = campaign_leads[m]
           \/ campaign_leads'[m] = Dispatched(campaign_leads[m])
    BY <1>0, <1>3, <2>1, MarkEffect
  <2>4. tick[r].pc = "mark" /\ tick'[r] = NextRow(tick[r]) /\ tick[r] \in TickType
    BY <1>0, <1>3 DEF MarkDispatched, TypeInv
  <2>5. Ahead(tick[r], m) /\ \A d \in tick[r].due : d.id # m
    BY <1>1, <2>1, <2>4 DEF Ahead, Working, EachOnce
  <2>6. tick'[r].pc \in {"idle", "row"} /\ tick'[r].due \subseteq tick[r].due
    BY <2>4, NextRowShape
  <2>7. \A q \in Replicas : ~Ahead(tick'[q], m)
    BY <2>5, <2>6 DEF OneReplica, Ahead, Working
  <2>8. \A q \in Replicas, l \in Rows : Ahead(tick'[q], l) => Ahead(tick[q], l)
    BY <2>6 DEF OneReplica, Ahead, Working
  <2>9. /\ \A j \in Calls : calls[j].row # m
        /\ campaign_leads[m].attempts < MaxAttempts
        /\ m # None
    BY <1>1, <2>5, ConstantsAssumption
  <2>10. \A i, j \in Calls : calls'[i].row = calls'[j].row /\ calls'[i].row # None => i = j
    BY <1>1, <2>2, <2>9
  <2>11. campaign_leads'[m].status \notin {"pending", "failed"}
    BY <2>3 DEF Dispatched
  <2>12. \A j \in Calls, l \in Rows :
           calls'[j].row = l => /\ campaign_leads'[l].status \notin {"pending", "failed"}
                                 /\ \A q \in Replicas : ~Ahead(tick'[q], l)
    <3> TAKE j \in Calls, l \in Rows
    <3>1. CASE l = m
      BY <2>7, <2>11, <3>1
    <3>2. CASE l # m
      BY <1>1, <2>2, <2>3, <2>8, <3>2
    <3> QED
      BY <3>1, <3>2
  <2>13. campaign_leads'[m].attempts <= MaxAttempts
    BY <1>1, <2>3, <2>9, ConstantsAssumption DEF Dispatched
  <2>14. \A l \in Rows : /\ campaign_leads'[l].attempts <= MaxAttempts
                          /\ \A q \in Replicas : Ahead(tick'[q], l) =>
                               campaign_leads'[l].attempts < MaxAttempts
    BY <1>1, <2>3, <2>7, <2>8, <2>13
  <2> QED
    BY <1>0, <2>10, <2>12, <2>14 DEF OnceInv
<1> QED
  BY <1>2, <1>3

LEMMA OnceInit == Init => OnceInv
<1> SUFFICES ASSUME Init PROVE OnceInv
  OBVIOUS
<1>1. \A k \in Calls : calls[k].row = None
  BY DEF Init, NoCall
<1>2. \A r \in Replicas : EachOnce(tick[r]) /\ \A l \in Rows : ~Ahead(tick[r], l)
  BY DEF Init, IdleTick, EachOnce, Ahead, Working
<1>3. \A l \in Rows : campaign_leads[l].attempts = 0
  BY DEF Init, NewRow, UnusedRow
<1> QED
  BY <1>1, <1>2, <1>3, RowsInit, ConstantsAssumption DEF OnceInv, FreshHasNoLead

\* With one backend process no row of campaign_leads, and no lead while it stays
\* in its campaign, is rung by two calls, over every interleaving of the tick with
\* the portal (AddLeadsToCampaign among it), the calls and restarts of the process:
\* the due list is a snapshot, but only this process takes rows off it, and the
\* unique key of campaign_leads gives a lead one row at a time.
THEOREM OneCallForACampaignLead ==
    ASSUME OneReplica PROVE Spec => []OneCallPerCampaignLead
<1>1. OnceInv => OneCallPerCampaignLead
  <2> SUFFICES ASSUME OnceInv, NEW j \in Calls, NEW k \in Calls, j # k,
                      NEW v, NEW w, v = calls[j].row, w = calls[k].row,
                      v # None, w # None,
                      CampaignOf[v] = CampaignOf[w], LeadOf[v] = LeadOf[w]
               PROVE  /\ v # w
                      /\ \/ campaign_leads[v].status = "absent"
                         \/ campaign_leads[w].status = "absent"
    BY DEF OneCallPerCampaignLead
  <2>1. v # w
    BY DEF OnceInv
  <2>2. v \in Rows /\ w \in Rows /\ CampaignOf[v] \in Campaigns
    BY ConstantsAssumption DEF OnceInv, RowsInv, TypeInv, CallRow
  <2>3. campaign_leads[v].status # "unused" /\ campaign_leads[w].status # "unused"
    BY <2>2 DEF OnceInv, RowsInv
  <2>4. CASE campaign_leads[v].status # "absent" /\ campaign_leads[w].status # "absent"
    <3>1. v \in Present(CampaignOf[v]) /\ w \in Present(CampaignOf[v])
      BY <2>2, <2>3, <2>4 DEF Present
    <3>2. OncePerLead(Present(CampaignOf[v]))
      BY <2>2 DEF OnceInv, RowsInv, PresentOnce
    <3> QED
      BY <2>1, <3>1, <3>2 DEF OncePerLead
  <2> QED
    BY <2>1, <2>4
<1>2. OnceInv /\ [Next]_vars => OnceInv'
  BY OnceStep
<1> QED
  BY <1>1, <1>2, OnceInit, PTL DEF Spec

\* With one backend process no row is attempted more often than max_attempts
\* allows.  Two processes break it: each marks the row from its own list.
THEOREM AttemptsAreBounded == ASSUME OneReplica PROVE Spec => []AttemptsWithinMax
<1>1. OnceInv => AttemptsWithinMax
  BY DEF OnceInv, AttemptsWithinMax
<1>2. OnceInv /\ [Next]_vars => OnceInv'
  BY OnceStep
<1> QED
  BY <1>1, <1>2, OnceInit, PTL DEF Spec

-----------------------------------------------------------------------------
(* The shape of a row, of a handler and of the event queue *)

\* What the dial goroutine's place says of the call's row and channel.
RowShape(k) ==
    /\ dial[k].pc = "none" <=> calls[k].status = "none"
    /\ dial[k].pc = "none" => dial[k].at = None
    /\ calls[k].channel_id \in {None, k}
    /\ calls[k].channel_id = None <=> calls[k].status \in {"none", "queued", "skipped"}
    /\ dial[k].pc \in {"session", "originate", "update", "failed"} =>
         calls[k].status = "queued"
    /\ dial[k].pc \in {"none", "session", "originate"} => chan[k] = "none"

\* The handler works on the call of its channel, and finishes only channels
\* that are gone.
HandlerShape(r) ==
    /\ handler[r].pc = "bridge" =>
         /\ handler[r].call = handler[r].ch
         /\ calls[handler[r].ch].channel_id = handler[r].ch
    /\ handler[r].pc = "finish" =>
         /\ chan[handler[r].ch] = "gone"
         /\ handler[r].call \in {None, handler[r].ch}
    /\ handler[r].pc \in {"release", "drain"} => chan[handler[r].call] = "gone"

Pending(evs, type, ch) ==
    \E i \in 1..Len(evs) : evs[i].type = type /\ evs[i].ch = ch

\* No event comes before what it tells of.
EventShape ==
    \A ch \in Calls :
        /\ Pending(events, "ChannelDestroyed", ch) => chan[ch] = "gone"
        /\ Pending(events, "StasisStart", ch) => chan[ch] \in {"up", "gone"}

ShapeInv ==
    /\ TypeInv
    /\ FreshHasNoLead
    /\ \A k \in Calls : RowShape(k)
    /\ \A r \in Replicas : HandlerShape(r)
    /\ EventShape

LEMMA PendingAppend ==
    ASSUME NEW evs \in Seq(Event), NEW e \in Event, NEW type, NEW ch
    PROVE  Pending(Append(evs, e), type, ch) <=>
             Pending(evs, type, ch) \/ (e.type = type /\ e.ch = ch)
<1>1. /\ Len(Append(evs, e)) = Len(evs) + 1 /\ Len(evs) \in Nat
      /\ \A i \in 1..Len(evs) : Append(evs, e)[i] = evs[i]
      /\ Append(evs, e)[Len(evs) + 1] = e
  OBVIOUS
<1> QED
  BY <1>1 DEF Pending

LEMMA PendingTail ==
    ASSUME NEW evs \in Seq(Event), evs # <<>>, NEW type, NEW ch
    PROVE  /\ Pending(Tail(evs), type, ch) => Pending(evs, type, ch)
           /\ Pending(evs, Head(evs).type, Head(evs).ch)
<1>1. /\ Len(Tail(evs)) = Len(evs) - 1 /\ Len(evs) \in Nat \ {0}
      /\ \A i \in 1..(Len(evs) - 1) : Tail(evs)[i] = evs[i + 1]
      /\ Head(evs) = evs[1]
  OBVIOUS
<1>2. ASSUME Pending(Tail(evs), type, ch) PROVE Pending(evs, type, ch)
  <2>1. PICK i \in 1..(Len(evs) - 1) : evs[i + 1].type = type /\ evs[i + 1].ch = ch
    BY <1>1, <1>2 DEF Pending
  <2>2. i + 1 \in 1..Len(evs)
    BY <1>1
  <2> QED
    BY <2>1, <2>2 DEF Pending
<1>3. 1 \in 1..Len(evs)
  BY <1>1
<1> QED
  BY <1>1, <1>2, <1>3 DEF Pending

\* The actions that touch a call's row, its goroutine, its channel, the event
\* queue or a handler.
LEMMA Quiet ==
    ASSUME [Next]_vars
    PROVE  \/ UNCHANGED <<calls, dial, chan, events, handler>>
           \/ \E r \in Replicas : \/ MarkDispatched(r) \/ TestCall(r)
                                  \/ StasisStart(r) \/ StasisBridge(r)
                                  \/ ChannelDestroyed(r) \/ FinishCall(r)
                                  \/ HandlerRelease(r) \/ HandlerDrain(r)
                                  \/ Restart(r)
           \/ \E k \in Calls : \/ DialSession(k) \/ DialOriginate(k)
                               \/ UpdateCallChannel(k) \/ DialFailed(k)
                               \/ DialRelease(k) \/ DialDrain(k)
                               \/ ChannelAnswers(k) \/ ChannelEnds(k)
           \/ LoseEvents
<1> USE DEF dbVars, slotVars, astVars
<1>1. ASSUME NEW r \in Replicas, Worker(r)
      PROVE  UNCHANGED <<calls, dial, chan, events, handler>> \/ MarkDispatched(r)
  BY <1>1 DEF Worker, StartTick, CheckRow, SkipCampaignLead, TryAcquire, SendToken,
     MarkFailed
<1>2. CASE Portal
  BY <1>2 DEF Portal, UpdateCampaign, AddLeadsToCampaign, RemoveLeadFromCampaign,
     AddDoNotCall, RemoveDoNotCall
<1>3. CASE CloseWindow \/ OpenWindow \/ UNCHANGED vars
  BY <1>3 DEF CloseWindow, OpenWindow, vars
<1> QED
  BY <1>1, <1>2, <1>3 DEF Next, ARILoop, Dialer

\* A hangup ends a channel and announces it, or nothing comes of it.
LEMMA HangupEffect ==
    ASSUME TypeInv, NEW ch \in Calls, NEW evs \in Seq(Event), HangupChannel(ch, evs)
    PROVE  \/ /\ chan[ch] \in Live /\ chan'[ch] = "gone"
              /\ \A k \in Calls \ {ch} : chan'[k] = chan[k]
              /\ events' = Append(evs, Ev("ChannelDestroyed", ch, "completed"))
           \/ UNCHANGED chan /\ events' = evs
BY DEF HangupChannel, TypeInv

\* Everything that can happen to one call.
Created(k) ==
    /\ calls[k].status = "none" /\ calls'[k].status = "queued"
    /\ calls'[k].channel_id = calls[k].channel_id
    /\ dial'[k].pc = "session" /\ dial'[k].at # None
    /\ chan'[k] = chan[k]
Dialled(k) ==
    /\ dial'[k].at = dial[k].at
    /\ \/ /\ <<dial[k].pc, dial'[k].pc>> \in
               {<<"session", "failed">>, <<"session", "originate">>,
                <<"originate", "failed">>, <<"release", "done">>,
                <<"release", "drain">>, <<"drain", "done">>, <<"update", "done">>}
          /\ calls'[k].status = calls[k].status
          /\ calls'[k].channel_id = calls[k].channel_id
          /\ chan'[k] = chan[k]
       \/ /\ dial[k].pc = "originate"
          /\ dial'[k].pc = "update" \/ (dial'[k].pc = "failed" /\ Fault)
          /\ calls'[k].status = calls[k].status
          /\ calls'[k].channel_id = calls[k].channel_id
          /\ chan'[k] = "ringing"
       \/ /\ dial[k].pc = "update" /\ dial'[k].pc = "done"
          /\ calls'[k].status = "dialing" /\ calls'[k].channel_id = k
          /\ chan'[k] = chan[k]
       \/ /\ dial[k].pc = "failed" /\ dial'[k].pc \in {"done", "release"}
          /\ \/ calls'[k].status = calls[k].status
             \/ calls[k].status = "queued" /\ calls'[k].status = "skipped"
          /\ calls'[k].channel_id = calls[k].channel_id
          /\ chan'[k] = chan[k]
Moved(k) ==
    /\ calls'[k].status = calls[k].status
    /\ calls'[k].channel_id = calls[k].channel_id
    /\ dial'[k] = dial[k]
    /\ \/ chan'[k] = chan[k]
       \/ chan[k] = "ringing" /\ chan'[k] = "up"
       \/ chan[k] \in Live /\ chan'[k] = "gone"
Handled(k) ==
    /\ dial'[k] = dial[k] /\ chan'[k] = chan[k]
    /\ calls[k].channel_id = k /\ calls'[k].channel_id = k
    /\ \E r \in Replicas :
         \/ /\ handler[r].pc = "bridge" /\ handler[r].ch = k
            /\ handler'[r].pc \notin {"bridge", "finish"}
            /\ calls'[k].status = "answered"
         \/ /\ handler[r].pc = "finish" /\ handler[r].ch = k
            /\ handler'[r].pc \notin {"bridge", "finish"}
            /\ calls'[k].status \in {"completed", "failed"}
Abandoned(k) ==
    /\ calls'[k].status = calls[k].status
    /\ calls'[k].channel_id = calls[k].channel_id
    /\ chan'[k] = chan[k]
    /\ dial[k].at # None /\ dial'[k].at = dial[k].at /\ dial'[k].pc = "done"

Effect(k) == Created(k) \/ Dialled(k) \/ Moved(k) \/ Handled(k) \/ Abandoned(k)

LEMMA CreateEffect ==
    ASSUME ShapeInv, NEW r \in Replicas, MarkDispatched(r) \/ TestCall(r), NEW j \in Calls
    PROVE  Created(j) \/ Moved(j)
<1> USE DEF dbVars, slotVars, astVars
<1>0. /\ calls \in [Calls -> CallRow] /\ dial \in [Calls -> DialType]
      /\ r # None
  BY ConstantsAssumption DEF ShapeInv, TypeInv
<1>1. PICK k \in Calls :
        /\ calls[k].status = "none"
        /\ \/ \E l : calls' = [calls EXCEPT ![k] = [@ EXCEPT !.status = "queued", !.row = l]]
           \/ calls' = [calls EXCEPT ![k].status = "queued"]
        /\ dial' = [dial EXCEPT ![k] = [pc |-> "session", at |-> r]]
  BY DEF MarkDispatched, TestCall
<1>2. chan' = chan
  BY DEF MarkDispatched, TestCall
<1>3. CASE j = k
  <2>1. calls'[k].status = "queued" /\ calls'[k].channel_id = calls[k].channel_id
    BY <1>0, <1>1 DEF CallRow
  <2>2. dial'[k] = [pc |-> "session", at |-> r]
    BY <1>0, <1>1
  <2> QED
    BY <1>0, <1>1, <1>2, <1>3, <2>1, <2>2 DEF Created
<1>4. CASE j # k
  BY <1>0, <1>1, <1>2, <1>4 DEF Moved
<1> QED
  BY <1>3, <1>4

LEMMA DialEffect ==
    ASSUME ShapeInv, NEW k \in Calls, NEW j \in Calls,
           \/ DialSession(k) \/ DialOriginate(k) \/ UpdateCallChannel(k)
           \/ DialFailed(k) \/ DialRelease(k) \/ DialDrain(k)
    PROVE  Dialled(j) \/ Moved(j)
<1> USE DEF dbVars, slotVars, astVars
<1>0. /\ calls \in [Calls -> CallRow] /\ dial \in [Calls -> DialType]
      /\ chan \in [Calls -> {"none", "ringing", "up", "gone"}]
      /\ calls[k] \in CallRow
  BY DEF ShapeInv, TypeInv
<1>1. ASSUME NEW pc, DialAt(k, pc)
      PROVE  /\ dial'[k].pc = pc /\ dial'[k].at = dial[k].at
             /\ \A i \in Calls \ {k} : dial'[i] = dial[i]
  BY <1>0, <1>1 DEF DialAt, DialType
<1>2. CASE j # k
  <2>1. calls'[j] = calls[j] /\ chan'[j] = chan[j] /\ dial'[j] = dial[j]
    BY <1>0, <1>1, <1>2 DEF DialSession, DialOriginate, UpdateCallChannel, DialFailed,
       DialRelease, DialDrain
  <2> QED
    BY <2>1 DEF Moved
<1>3. CASE j = k /\ DialSession(k)
  <2>1. calls'[k].status = calls[k].status /\ calls'[k].channel_id = calls[k].channel_id
    BY <1>0, <1>3 DEF DialSession, CallRow
  <2>2. /\ dial[k].pc = "session" /\ dial'[k].pc \in {"failed", "originate"}
        /\ dial'[k].at = dial[k].at /\ chan'[k] = chan[k]
    BY <1>1, <1>3 DEF DialSession
  <2> QED
    BY <1>3, <2>1, <2>2 DEF Dialled
<1>4. CASE j = k /\ DialOriginate(k)
  <2>1. /\ dial[k].pc = "originate" /\ dial'[k].at = dial[k].at
        /\ calls' = calls
        /\ \/ /\ dial'[k].pc = "update" \/ (dial'[k].pc = "failed" /\ Fault)
              /\ chan' = [chan EXCEPT ![k] = "ringing"]
           \/ dial'[k].pc = "failed" /\ chan' = chan
    BY <1>1, <1>4 DEF DialOriginate
  <2> QED
    BY <1>0, <1>4, <2>1 DEF Dialled
<1>5. CASE j = k /\ UpdateCallChannel(k)
  <2> DEFINE row == [calls[k] EXCEPT !.channel_id = k, !.status = "dialing"]
  <2>1. row.channel_id = k /\ row.status = "dialing"
    BY <1>0 DEF CallRow
  <2>2. UNCHANGED calls \/ calls' = [calls EXCEPT ![k] = row]
    BY <1>5 DEF UpdateCallChannel
  <2>3. /\ dial[k].pc = "update" /\ dial'[k].pc = "done"
        /\ dial'[k].at = dial[k].at /\ chan'[k] = chan[k]
    BY <1>1, <1>5 DEF UpdateCallChannel
  <2> HIDE DEF row
  <2>4. \/ calls'[k] = calls[k]
        \/ calls'[k].channel_id = k /\ calls'[k].status = "dialing"
    BY <1>0, <2>1, <2>2
  <2> QED
    BY <1>5, <2>3, <2>4 DEF Dialled
<1>6. CASE j = k /\ DialFailed(k)
  <2>1. /\ calls'[k].channel_id = calls[k].channel_id
        /\ \/ calls'[k].status = calls[k].status
           \/ calls[k].status = "queued" /\ calls'[k].status = "skipped"
    BY <1>0, <1>6 DEF DialFailed, CallRow
  <2>2. /\ dial[k].pc = "failed" /\ dial'[k].pc \in {"done", "release"}
        /\ dial'[k].at = dial[k].at /\ chan'[k] = chan[k]
    BY <1>1, <1>6 DEF DialFailed
  <2> QED
    BY <1>6, <2>1, <2>2 DEF Dialled
<1>7. CASE j = k /\ (DialRelease(k) \/ DialDrain(k))
  <2>1. /\ dial[k].pc = "release" => dial'[k].pc \in {"done", "drain"}
        /\ dial[k].pc = "drain" => dial'[k].pc = "done"
        /\ dial[k].pc \in {"release", "drain"}
        /\ dial'[k].at = dial[k].at /\ chan'[k] = chan[k] /\ calls' = calls
    BY <1>1, <1>7 DEF DialRelease, DialDrain
  <2> QED
    BY <1>7, <2>1 DEF Dialled
<1> QED
  BY <1>2, <1>3, <1>4, <1>5, <1>6, <1>7

LEMMA ARIEffect ==
    ASSUME ShapeInv, NEW r \in Replicas, NEW j \in Calls,
           \/ StasisStart(r) \/ StasisBridge(r) \/ ChannelDestroyed(r)
           \/ FinishCall(r) \/ HandlerRelease(r) \/ HandlerDrain(r)
    PROVE  Moved(j) \/ Handled(j)
<1> USE DEF dbVars, slotVars, astVars
<1>0. /\ TypeInv /\ calls \in [Calls -> CallRow]
      /\ handler \in [Replicas -> HandlerType] /\ handler[r] \in HandlerType
      /\ HandlerShape(r) /\ RowShape(j)
  BY DEF ShapeInv, TypeInv
<1>1. ASSUME NEW ch \in Calls, NEW evs \in Seq(Event), HangupChannel(ch, evs),
             UNCHANGED <<calls, dial>>
      PROVE  Moved(j)
  BY <1>0, <1>1, HangupEffect DEF Moved
<1>2. CASE UNCHANGED <<calls, dial, chan>>
  BY <1>2 DEF Moved
<1>3. CASE StasisStart(r)
  <2>1. Head(events).ch \in Calls /\ Tail(events) \in Seq(Event)
    BY <1>0, <1>3, EventType DEF StasisStart, NextEvent
  <2> QED
    BY <1>1, <1>2, <1>3, <2>1 DEF StasisStart
<1>4. CASE StasisBridge(r)
  <2>1. handler[r].ch \in Calls /\ events \in Seq(Event) /\ handler[r].pc = "bridge"
    BY <1>0, <1>4 DEF StasisBridge, HandlerType, Handlers, TypeInv
  <2>2. CASE HangupChannel(handler[r].ch, events) /\ UNCHANGED calls
    BY <1>1, <1>4, <2>1, <2>2 DEF StasisBridge
  <2>3. CASE calls' = [calls EXCEPT ![handler[r].call].status = "answered"] /\ UNCHANGED chan
    <3>1. CASE j = handler[r].call
      <4>1. calls'[j].status = "answered" /\ calls'[j].channel_id = calls[j].channel_id
        BY <1>0, <2>3, <3>1 DEF CallRow
      <4>2. handler[r].ch = j /\ calls[j].channel_id = j
        BY <1>0, <2>1, <3>1 DEF HandlerShape
      <4>3. handler'[r].pc = "idle"
        BY <1>0, <1>4 DEF StasisBridge, IdleHandler
      <4> QED
        BY <1>4, <2>1, <2>3, <4>1, <4>2, <4>3 DEF Handled, StasisBridge
    <3>2. CASE j # handler[r].call
      BY <1>0, <1>4, <2>3, <3>2 DEF Moved, StasisBridge
    <3> QED
      BY <3>1, <3>2
  <2> QED
    BY <1>2, <1>4, <2>2, <2>3 DEF StasisBridge
<1>5. CASE FinishCall(r)
  <2>1. /\ handler[r].pc = "finish" /\ handler[r].status \in {"completed", "failed"}
        /\ UNCHANGED <<dial, chan>> /\ handler[r].ch # None
    BY <1>0, <1>5 DEF FinishCall, HandlerType, Handlers
  <2>2. CASE UNCHANGED calls
    BY <1>2, <2>1, <2>2
  <2>3. CASE calls' = [k \in Calls |->
                         IF calls[k].channel_id = handler[r].ch
                         THEN [calls[k] EXCEPT !.status = handler[r].status]
                         ELSE calls[k]]
    <3>1. CASE calls[j].channel_id = handler[r].ch
      <4>1. handler[r].ch = j
        BY <1>0, <2>1, <3>1 DEF RowShape
      <4>2. calls'[j] = [calls[j] EXCEPT !.status = handler[r].status]
        BY <2>3, <3>1
      <4>3. calls'[j].status = handler[r].status /\ calls'[j].channel_id = j
        BY <1>0, <3>1, <4>1, <4>2 DEF CallRow
      <4>4. handler'[r].pc \in {"idle", "release"}
        BY <1>0, <1>5 DEF FinishCall, IdleHandler, HandlerType, Handlers
      <4> QED
        BY <2>1, <3>1, <4>1, <4>3, <4>4 DEF Handled
    <3>2. CASE calls[j].channel_id # handler[r].ch
      BY <2>1, <2>3, <3>2 DEF Moved
    <3> QED
      BY <3>1, <3>2
  <2> QED
    BY <1>5, <2>2, <2>3 DEF FinishCall
<1>6. CASE ChannelDestroyed(r) \/ HandlerRelease(r) \/ HandlerDrain(r)
  BY <1>2, <1>6 DEF ChannelDestroyed, HandlerRelease, HandlerDrain
<1> QED
  BY <1>3, <1>4, <1>5, <1>6

LEMMA CallEffect ==
    ASSUME ShapeInv, [Next]_vars, NEW j \in Calls
    PROVE  Effect(j)
<1> USE DEF dbVars, slotVars, astVars, Effect
<1>1. CASE UNCHANGED <<calls, dial, chan, events, handler>>
  BY <1>1 DEF Moved
<1>2. ASSUME NEW k \in Calls, ChannelAnswers(k) PROVE Moved(j)
  BY <1>2 DEF ChannelAnswers, Moved, ShapeInv, TypeInv
<1>3. ASSUME NEW k \in Calls, ChannelEnds(k) PROVE Moved(j)
  BY <1>3 DEF ChannelEnds, Moved, ShapeInv, TypeInv
<1>4. CASE LoseEvents
  BY <1>4 DEF LoseEvents, Moved
<1>5. ASSUME NEW r \in Replicas, Restart(r) PROVE Abandoned(j) \/ Moved(j)
  <2>1. dial \in [Calls -> DialType] /\ r # None
    BY ConstantsAssumption DEF ShapeInv, TypeInv
  <2>2. dial'[j] = IF dial[j].at = r THEN [dial[j] EXCEPT !.pc = "done"] ELSE dial[j]
    BY <1>5 DEF Restart
  <2>3. calls'[j] = calls[j] /\ chan'[j] = chan[j]
    BY <1>5 DEF Restart
  <2>4. [dial[j] EXCEPT !.pc = "done"].pc = "done" /\ [dial[j] EXCEPT !.pc = "done"].at = dial[j].at
    BY <2>1 DEF DialType
  <2> QED
    BY <2>1, <2>2, <2>3, <2>4 DEF Abandoned, Moved
<1> QED
  BY <1>1, <1>2, <1>3, <1>4, <1>5, Quiet, CreateEffect, DialEffect, ARIEffect

\* A channel only goes from ringing to up to gone, and an id once stored stays.
LEMMA ChannelForward ==
    ASSUME ShapeInv, [Next]_vars, NEW k \in Calls
    PROVE  /\ chan[k] = "gone" => chan'[k] = "gone"
           /\ chan[k] = "up" => chan'[k] \in {"up", "gone"}
           /\ chan[k] = "ringing" => chan'[k] \in Live
                                      \cup {"gone"}
           /\ calls[k].channel_id = k => calls'[k].channel_id = k
<1>1. Effect(k) /\ RowShape(k) /\ k # None
  BY CallEffect, ConstantsAssumption DEF ShapeInv
<1>2. CASE Created(k)
  BY <1>1, <1>2 DEF Created, Live
<1>3. CASE Dialled(k)
  BY <1>1, <1>3 DEF Dialled, RowShape, Live
<1>4. CASE Moved(k)
  BY <1>4 DEF Moved, Live
<1>5. CASE Handled(k)
  BY <1>5 DEF Handled, Live
<1>6. CASE Abandoned(k)
  BY <1>6 DEF Abandoned, Live
<1> QED
  BY <1>1, <1>2, <1>3, <1>4, <1>5, <1>6 DEF Effect

LEMMA RowShapeStep ==
    ASSUME ShapeInv, [Next]_vars, NEW k \in Calls
    PROVE  RowShape(k)'
<1>1. Effect(k) /\ RowShape(k) /\ k # None
  BY CallEffect, ConstantsAssumption DEF ShapeInv
<1>2. CASE Created(k)
  BY <1>1, <1>2 DEF Created, RowShape
<1>3. CASE Dialled(k)
  BY <1>1, <1>3 DEF Dialled, RowShape
<1>4. CASE Moved(k)
  BY <1>1, <1>4 DEF Moved, RowShape, Live
<1>5. CASE Handled(k)
  BY <1>1, <1>5 DEF Handled, RowShape
<1>6. CASE Abandoned(k)
  BY <1>1, <1>6 DEF Abandoned, RowShape
<1> QED
  BY <1>1, <1>2, <1>3, <1>4, <1>5, <1>6 DEF Effect

\* The events a step leaves in the queue: some of the old ones, and news of a
\* channel that has just come up or gone.
LEMMA EventStep ==
    ASSUME ShapeInv, [Next]_vars, NEW type \in {"StasisStart", "ChannelDestroyed"},
           NEW ch \in Calls, Pending(events', type, ch)
    PROVE  \/ Pending(events, type, ch)
           \/ type = "StasisStart" /\ chan[ch] = "ringing" /\ chan'[ch] = "up"
           \/ type = "ChannelDestroyed" /\ chan[ch] \in Live /\ chan'[ch] = "gone"
<1> USE DEF dbVars, slotVars, astVars
<1>0. /\ TypeInv /\ events \in Seq(Event)
      /\ chan \in [Calls -> {"none", "ringing", "up", "gone"}]
  BY DEF ShapeInv, TypeInv
<1> DEFINE Goal == \/ Pending(events, type, ch)
                   \/ type = "StasisStart" /\ chan[ch] = "ringing" /\ chan'[ch] = "up"
                   \/ type = "ChannelDestroyed" /\ chan[ch] \in Live /\ chan'[ch] = "gone"
<1>1. ASSUME UNCHANGED events PROVE Goal
  BY <1>1
<1>2. ASSUME events' = <<>> PROVE Goal
  BY <1>2 DEF Pending
<1>3. ASSUME events # <<>>, events' = Tail(events) PROVE Goal
  BY <1>0, <1>3, PendingTail
<1>4. ASSUME NEW c \in Calls, NEW evs \in Seq(Event), HangupChannel(c, evs),
             evs = events \/ (events # <<>> /\ evs = Tail(events))
      PROVE  Goal
  <2>1. Pending(evs, type, ch) => Pending(events, type, ch)
    BY <1>0, <1>4, PendingTail
  <2>2. Ev("ChannelDestroyed", c, "completed") \in Event
    BY DEF Ev, Event
  <2>3. CASE /\ chan[c] \in Live /\ chan'[c] = "gone"
             /\ events' = Append(evs, Ev("ChannelDestroyed", c, "completed"))
    <3>1. Pending(evs, type, ch) \/ (type = "ChannelDestroyed" /\ ch = c)
      BY <1>4, <2>2, <2>3, PendingAppend DEF Ev
    <3> QED
      BY <2>1, <2>3, <3>1
  <2>4. CASE events' = evs
    BY <2>1, <2>4
  <2> QED
    BY <1>0, <1>4, <2>3, <2>4, HangupEffect
<1>5. ASSUME NEW c \in Calls, ChannelAnswers(c) PROVE Goal
  <2>1. /\ events' = Append(events, Ev("StasisStart", c, "completed"))
        /\ Ev("StasisStart", c, "completed") \in Event
        /\ chan[c] = "ringing" /\ chan'[c] = "up"
    BY <1>0, <1>5 DEF ChannelAnswers, Ev, Event
  <2>2. Pending(events, type, ch) \/ (type = "StasisStart" /\ ch = c)
    BY <1>0, <2>1, PendingAppend DEF Ev
  <2> QED
    BY <2>1, <2>2
<1>6. ASSUME NEW c \in Calls, ChannelEnds(c) PROVE Goal
  <2>1. PICK status \in {"completed", "failed"} :
          events' = Append(events, Ev("ChannelDestroyed", c, status))
    BY <1>6 DEF ChannelEnds
  <2>2. /\ Ev("ChannelDestroyed", c, status) \in Event
        /\ chan[c] \in Live /\ chan'[c] = "gone"
    BY <1>0, <1>6 DEF ChannelEnds, Ev, Event
  <2>3. Pending(events, type, ch) \/ (type = "ChannelDestroyed" /\ ch = c)
    BY <1>0, <2>1, <2>2, PendingAppend DEF Ev
  <2> QED
    BY <2>2, <2>3
<1>7. ASSUME NEW r \in Replicas, StasisStart(r) PROVE Goal
  <2>1. /\ events # <<>> /\ Head(events).ch \in Calls /\ Tail(events) \in Seq(Event)
    BY <1>0, <1>7, EventType DEF StasisStart, NextEvent
  <2> QED
    BY <1>3, <1>4, <1>7, <2>1 DEF StasisStart
<1>8. ASSUME NEW r \in Replicas, StasisBridge(r) PROVE Goal
  <2>1. handler[r].ch \in Calls
    BY <1>0, <1>8 DEF StasisBridge, HandlerType, Handlers, TypeInv
  <2> QED
    BY <1>0, <1>1, <1>4, <1>8, <2>1 DEF StasisBridge
<1>9. ASSUME NEW r \in Replicas, ChannelDestroyed(r) PROVE Goal
  BY <1>3, <1>9 DEF ChannelDestroyed, NextEvent
<1>10. ASSUME NEW r \in Replicas,
              \/ MarkDispatched(r) \/ TestCall(r) \/ FinishCall(r)
              \/ HandlerRelease(r) \/ HandlerDrain(r)
       PROVE  UNCHANGED events
  BY <1>10 DEF MarkDispatched, TestCall, FinishCall, HandlerRelease, HandlerDrain
<1>11. ASSUME NEW k \in Calls,
              \/ DialSession(k) \/ DialOriginate(k) \/ UpdateCallChannel(k)
              \/ DialFailed(k) \/ DialRelease(k) \/ DialDrain(k)
       PROVE  UNCHANGED events
  BY <1>11 DEF DialSession, DialOriginate, UpdateCallChannel, DialFailed, DialRelease,
     DialDrain
<1>12. ASSUME LoseEvents \/ \E r \in Replicas : Restart(r)
       PROVE  events' = <<>>
  BY <1>12 DEF LoseEvents, Restart
<1> HIDE DEF Goal
<1>13. Goal
  BY <1>1, <1>2, <1>5, <1>6, <1>7, <1>8, <1>9, <1>10, <1>11, <1>12, Quiet
<1> QED
  BY <1>13 DEF Goal

LEMMA EventShapeStep == ShapeInv /\ [Next]_vars => EventShape'
<1> SUFFICES ASSUME ShapeInv, [Next]_vars, NEW ch \in Calls
             PROVE  /\ Pending(events', "ChannelDestroyed", ch) => chan'[ch] = "gone"
                    /\ Pending(events', "StasisStart", ch) => chan'[ch] \in {"up", "gone"}
  BY DEF EventShape, Pending
<1>1. /\ Pending(events, "ChannelDestroyed", ch) => chan[ch] = "gone"
      /\ Pending(events, "StasisStart", ch) => chan[ch] \in {"up", "gone"}
  BY DEF ShapeInv, EventShape
<1> QED
  BY <1>1, EventStep, ChannelForward

\* What a step can do to the handler of replica r.
HandlerMoves(r) ==
    \/ handler'[r] = handler[r]
    \/ handler'[r].pc = "idle"
    \/ /\ handler[r].pc = "idle" /\ handler'[r].pc = "bridge"
       /\ handler'[r].call = handler'[r].ch /\ handler'[r].ch \in Calls
       /\ calls'[handler'[r].ch].channel_id = handler'[r].ch
       /\ Head(events).type = "StasisStart" /\ Head(events).ch = handler'[r].ch
       /\ events # <<>> /\ events' = Tail(events)
    \/ /\ handler[r].pc = "idle" /\ handler'[r].pc = "finish"
       /\ handler'[r].call \in {None, handler'[r].ch} /\ handler'[r].ch \in Calls
       /\ Head(events).type = "ChannelDestroyed" /\ Head(events).ch = handler'[r].ch
       /\ events # <<>> /\ events' = Tail(events)
    \/ /\ handler[r].pc = "finish" /\ handler'[r].pc = "release"
       /\ handler[r].call # None /\ handler'[r].call = handler[r].call
    \/ /\ handler[r].pc = "release" /\ handler'[r].pc = "drain"
       /\ handler'[r].call = handler[r].call

LEMMA HandlerStep ==
    ASSUME ShapeInv, [Next]_vars, NEW r \in Replicas
    PROVE  HandlerMoves(r)
<1> USE DEF dbVars, slotVars, astVars
<1>0. /\ TypeInv /\ handler \in [Replicas -> HandlerType] /\ handler[r] \in Handlers
      /\ IdleHandler.pc = "idle"
      /\ \A k \in Calls : RowShape(k)
  BY DEF ShapeInv, TypeInv, HandlerType, IdleHandler
<1>1. CASE UNCHANGED handler
  BY <1>1 DEF HandlerMoves
<1>2. ASSUME NEW q \in Replicas,
             \/ StasisStart(q) \/ StasisBridge(q) \/ ChannelDestroyed(q)
             \/ FinishCall(q) \/ HandlerRelease(q) \/ HandlerDrain(q) \/ Restart(q),
             q # r
      PROVE  handler'[r] = handler[r]
  BY <1>0, <1>2 DEF StasisStart, StasisBridge, ChannelDestroyed, FinishCall,
     HandlerRelease, HandlerDrain, Restart
<1>3. CASE StasisBridge(r) \/ HandlerDrain(r) \/ Restart(r)
  <2>1. handler'[r] = IdleHandler
    BY <1>0, <1>3 DEF StasisBridge, HandlerDrain, Restart
  <2> QED
    BY <1>0, <2>1 DEF HandlerMoves
<1>4. CASE StasisStart(r) /\ ~UNCHANGED handler
  <2>1. PICK k \in FindCallByChannel(Head(events).ch) :
          /\ handler' = [handler EXCEPT ![r] =
               [IdleHandler EXCEPT !.pc = "bridge", !.ch = Head(events).ch, !.call = k]]
          /\ events' = Tail(events)
    BY <1>4 DEF StasisStart
  <2>2. /\ events # <<>> /\ Head(events).type = "StasisStart" /\ handler[r].pc = "idle"
        /\ Head(events).ch \in Calls /\ UNCHANGED calls
    BY <1>0, <1>4, EventType DEF StasisStart, NextEvent
  <2>3. k \in Calls /\ calls[k].channel_id = Head(events).ch
    BY <2>1 DEF FindCallByChannel
  <2>4. k = Head(events).ch
    BY <1>0, <2>2, <2>3, ConstantsAssumption DEF RowShape
  <2>5. handler'[r] = [IdleHandler EXCEPT !.pc = "bridge", !.ch = Head(events).ch, !.call = k]
    BY <1>0, <2>1
  <2>6. handler'[r].pc = "bridge" /\ handler'[r].ch = k /\ handler'[r].call = k
    BY <2>4, <2>5 DEF IdleHandler
  <2> QED
    BY <2>1, <2>2, <2>3, <2>4, <2>6 DEF HandlerMoves
<1>5. CASE ChannelDestroyed(r)
  <2>1. PICK k \in FindCallByChannel(Head(events).ch) \cup {None} :
          handler' = [handler EXCEPT ![r] =
             [pc |-> "finish", ch |-> Head(events).ch, call |-> k,
              status |-> Head(events).status]]
    BY <1>5 DEF ChannelDestroyed
  <2>2. /\ events # <<>> /\ Head(events).type = "ChannelDestroyed"
        /\ handler[r].pc = "idle" /\ Head(events).ch \in Calls
        /\ events' = Tail(events)
    BY <1>0, <1>5, EventType DEF ChannelDestroyed, NextEvent
  <2>3. k \in {None, Head(events).ch}
    BY <1>0, <2>1, <2>2, ConstantsAssumption DEF FindCallByChannel, RowShape
  <2>4. /\ handler'[r].pc = "finish" /\ handler'[r].ch = Head(events).ch
        /\ handler'[r].call = k
    BY <1>0, <2>1
  <2> QED
    BY <2>2, <2>3, <2>4 DEF HandlerMoves
<1>6. CASE FinishCall(r)
  <2>1. /\ handler[r].pc = "finish"
        /\ handler'[r] = IF handler[r].call = None THEN IdleHandler
                         ELSE [handler[r] EXCEPT !.pc = "release"]
    BY <1>0, <1>6 DEF FinishCall
  <2> QED
    BY <1>0, <2>1 DEF HandlerMoves, Handlers
<1>7. CASE HandlerRelease(r)
  <2>1. /\ handler[r].pc = "release"
        /\ handler'[r] \in {IdleHandler, [handler[r] EXCEPT !.pc = "drain"]}
    BY <1>0, <1>7 DEF HandlerRelease
  <2> QED
    BY <1>0, <2>1 DEF HandlerMoves, Handlers
<1>8. ASSUME NEW q \in Replicas, MarkDispatched(q) \/ TestCall(q)
      PROVE  UNCHANGED handler
  BY <1>8 DEF MarkDispatched, TestCall
<1>9. ASSUME NEW k \in Calls,
             \/ DialSession(k) \/ DialOriginate(k) \/ UpdateCallChannel(k)
             \/ DialFailed(k) \/ DialRelease(k) \/ DialDrain(k)
             \/ ChannelAnswers(k) \/ ChannelEnds(k)
      PROVE  UNCHANGED handler
  BY <1>9 DEF DialSession, DialOriginate, UpdateCallChannel, DialFailed, DialRelease,
     DialDrain, ChannelAnswers, ChannelEnds
<1>10. CASE LoseEvents
  BY <1>10 DEF LoseEvents, HandlerMoves
<1>11. ASSUME handler'[r] = handler[r] PROVE HandlerMoves(r)
  BY <1>11 DEF HandlerMoves
<1> QED
  BY <1>1, <1>2, <1>3, <1>4, <1>5, <1>6, <1>7, <1>8, <1>9, <1>10, <1>11, Quiet

LEMMA HandlerShapeStep ==
    ASSUME ShapeInv, [Next]_vars, NEW r \in Replicas
    PROVE  HandlerShape(r)'
<1>0. /\ TypeInv /\ TypeInv' /\ HandlerShape(r) /\ EventShape
      /\ handler[r] \in HandlerType /\ handler'[r] \in HandlerType
      /\ events \in Seq(Event)
  BY TypeStep DEF ShapeInv, TypeInv
<1>1. HandlerMoves(r)
  BY HandlerStep
<1>2. CASE handler'[r] = handler[r]
  <2>1. handler[r].pc = "bridge" => handler[r].ch \in Calls
    BY <1>0 DEF HandlerType, Handlers
  <2>2. handler[r].pc = "finish" => handler[r].ch \in Calls
    BY <1>0 DEF HandlerType, Handlers
  <2>3. handler[r].pc \in {"release", "drain"} => handler[r].call \in Calls
    BY <1>0 DEF HandlerType, Handlers
  <2> QED
    BY <1>0, <1>2, <2>1, <2>2, <2>3, ChannelForward DEF HandlerShape
<1>3. CASE handler'[r].pc = "idle"
  BY <1>3 DEF HandlerShape
<1>4. CASE /\ handler'[r].pc = "bridge"
           /\ handler'[r].call = handler'[r].ch
           /\ calls'[handler'[r].ch].channel_id = handler'[r].ch
  BY <1>4 DEF HandlerShape
<1>5. CASE /\ handler'[r].pc = "finish"
           /\ handler'[r].call \in {None, handler'[r].ch} /\ handler'[r].ch \in Calls
           /\ Head(events).type = "ChannelDestroyed" /\ Head(events).ch = handler'[r].ch
           /\ events # <<>>
  <2>1. Pending(events, "ChannelDestroyed", handler'[r].ch)
    BY <1>0, <1>5, PendingTail
  <2>2. chan'[handler'[r].ch] = "gone"
    BY <1>0, <1>5, <2>1, ChannelForward DEF EventShape
  <2> QED
    BY <1>5, <2>2 DEF HandlerShape
<1>6. CASE /\ handler[r].pc = "finish" /\ handler'[r].pc = "release"
           /\ handler[r].call # None /\ handler'[r].call = handler[r].call
  <2>1. handler[r].call \in Calls /\ chan[handler[r].call] = "gone"
    BY <1>0, <1>6 DEF HandlerShape, HandlerType, Handlers
  <2> QED
    BY <1>6, <2>1, ChannelForward DEF HandlerShape
<1>7. CASE /\ handler[r].pc = "release" /\ handler'[r].pc = "drain"
           /\ handler'[r].call = handler[r].call
  <2>1. handler[r].call \in Calls /\ chan[handler[r].call] = "gone"
    BY <1>0, <1>7 DEF HandlerShape, HandlerType, Handlers
  <2> QED
    BY <1>7, <2>1, ChannelForward DEF HandlerShape
<1> QED
  BY <1>1, <1>2, <1>3, <1>4, <1>5, <1>6, <1>7 DEF HandlerMoves

LEMMA ShapeStep == ShapeInv /\ [Next]_vars => ShapeInv'
<1> SUFFICES ASSUME ShapeInv, [Next]_vars PROVE ShapeInv'
  OBVIOUS
<1>1. TypeInv' /\ FreshHasNoLead'
  BY TypeStep, FreshLeadStep DEF ShapeInv
<1> QED
  BY <1>1, RowShapeStep, HandlerShapeStep, EventShapeStep DEF ShapeInv

LEMMA ShapeInit == Init => ShapeInv
<1> SUFFICES ASSUME Init PROVE ShapeInv
  OBVIOUS
<1>1. \A k \in Calls : RowShape(k)
  BY DEF Init, RowShape, NoCall
<1>2. \A r \in Replicas : HandlerShape(r)
  BY DEF Init, HandlerShape, IdleHandler
<1>3. EventShape
  BY DEF Init, EventShape, Pending
<1>4. FreshHasNoLead
  BY DEF Init, FreshHasNoLead, NoCall
<1> QED
  BY <1>1, <1>2, <1>3, <1>4, TypeInit DEF ShapeInv

-----------------------------------------------------------------------------
(* No more channels than slots *)

\* While nothing failed: a call that has a channel, or is about to get one, has its
\* slot, and a call given up by the dialer never had a channel.
KeepsSlot(k) ==
    /\ calls[k].row # None /\ (chan[k] \in Live \/ dial[k].pc \in {"session", "originate"})
         => inFlight[dial[k].at][k] = CampaignOf[calls[k].row]
    /\ dial[k].pc \in {"failed", "release", "drain"} => chan[k] = "none"

RoomInv == ShapeInv /\ SlotInv /\ (faults = 0 => \A k \in Calls : KeepsSlot(k))

\* Who takes an entry out of the in-flight map, or puts one in.
LEMMA EntryStep ==
    ASSUME ShapeInv, [Next]_vars, NEW r \in Replicas, NEW k \in Calls,
           faults' = 0
    PROVE  \/ inFlight'[r][k] = inFlight[r][k]
           \/ dial[k].pc = "release"
           \/ chan[k] = "gone"
           \/ \E q \in Replicas : MarkDispatched(q)
<1> USE DEF dbVars, slotVars, astVars
<1>0. /\ TypeInv /\ faults \in Nat
      /\ inFlight \in [Replicas -> [Calls -> Campaigns \cup {None}]]
  BY ConstantsAssumption DEF ShapeInv, TypeInv
<1>1. ~Fault
  BY <1>0 DEF Fault
<1>2. ASSUME NEW q \in Replicas, NEW j \in Calls, DropEntry(q, j), j # k
      PROVE  inFlight'[r][k] = inFlight[r][k]
  BY <1>0, <1>2 DEF DropEntry
<1>3. ASSUME NEW j \in Calls, DialRelease(j)
      PROVE  inFlight'[r][k] = inFlight[r][k] \/ dial[k].pc = "release"
  <2>1. dial[j].at \in Replicas
    BY <1>0, <1>3 DEF DialRelease, DialType, TypeInv
  <2> QED
    BY <1>2, <1>3, <2>1 DEF DialRelease
<1>4. ASSUME NEW q \in Replicas, HandlerRelease(q)
      PROVE  inFlight'[r][k] = inFlight[r][k] \/ chan[k] = "gone"
  <2>1. /\ handler[q].call \in Calls /\ handler[q].pc = "release"
        /\ chan[handler[q].call] = "gone"
    BY <1>0, <1>4 DEF HandlerRelease, HandlerType, Handlers, TypeInv, ShapeInv, HandlerShape
  <2> QED
    BY <1>2, <1>4, <2>1 DEF HandlerRelease
<1>5. \/ UNCHANGED inFlight
      \/ \E q \in Replicas : MarkDispatched(q) \/ HandlerRelease(q)
      \/ \E j \in Calls : DialRelease(j)
  <2>1. ASSUME NEW q \in Replicas, Worker(q) PROVE UNCHANGED inFlight \/ MarkDispatched(q)
    BY <2>1 DEF Worker, StartTick, CheckRow, SkipCampaignLead, TryAcquire, SendToken,
       MarkFailed
  <2>2. ASSUME NEW q \in Replicas, ARILoop(q)
        PROVE UNCHANGED inFlight \/ HandlerRelease(q)
    BY <2>2 DEF ARILoop, StasisStart, StasisBridge, ChannelDestroyed, FinishCall,
       HandlerDrain
  <2>3. ASSUME NEW j \in Calls, Dialer(j) PROVE UNCHANGED inFlight \/ DialRelease(j)
    BY <2>3 DEF Dialer, DialSession, DialOriginate, UpdateCallChannel, DialFailed,
       DialDrain
  <2>4. CASE Portal
    BY <2>4 DEF Portal, TestCall, UpdateCampaign, AddLeadsToCampaign,
       RemoveLeadFromCampaign, AddDoNotCall, RemoveDoNotCall
  <2>5. ASSUME NEW j \in Calls, ChannelAnswers(j) \/ ChannelEnds(j)
        PROVE UNCHANGED inFlight
    BY <2>5 DEF ChannelAnswers, ChannelEnds
  <2>6. ASSUME NEW q \in Replicas, Restart(q) PROVE FALSE
    BY <1>1, <2>6 DEF Restart
  <2>7. CASE CloseWindow \/ OpenWindow \/ LoseEvents \/ UNCHANGED vars
    BY <2>7 DEF CloseWindow, OpenWindow, LoseEvents, vars
  <2> QED
    BY <2>1, <2>2, <2>3, <2>4, <2>5, <2>6, <2>7 DEF Next
<1> QED
  BY <1>3, <1>4, <1>5

\* A new call has its entry with its row, and leaves the others alone.
LEMMA MarkRoom ==
    ASSUME ShapeInv, NEW r \in Replicas, MarkDispatched(r), NEW k \in Calls,
           KeepsSlot(k)
    PROVE  KeepsSlot(k)'
<1>0. /\ TypeInv /\ calls \in [Calls -> CallRow] /\ dial \in [Calls -> DialType]
      /\ inFlight \in [Replicas -> [Calls -> Campaigns \cup {None}]]
  BY DEF ShapeInv, TypeInv
<1>1. tick[r].row.id \in Rows
  BY <1>0, MarkEffect
<1>2. PICK j \in Calls :
        /\ calls[j].status = "none"
        /\ calls' = [calls EXCEPT ![j] = [@ EXCEPT !.status = "queued",
                                                   !.row = tick[r].row.id]]
        /\ inFlight' = [inFlight EXCEPT ![r][j] = CampaignOf[tick[r].row.id]]
        /\ dial' = [dial EXCEPT ![j] = [pc |-> "session", at |-> r]]
        /\ UNCHANGED chan
  BY DEF MarkDispatched, astVars
<1>3. CASE k = j
  <2>1. calls'[k].row = tick[r].row.id
    BY <1>0, <1>2, <1>3 DEF CallRow
  <2>2. dial'[k] = [pc |-> "session", at |-> r]
    BY <1>0, <1>2, <1>3
  <2>3. inFlight'[r][k] = CampaignOf[tick[r].row.id]
    BY <1>0, <1>2, <1>3
  <2> QED
    BY <2>1, <2>2, <2>3 DEF KeepsSlot
<1>4. CASE k # j
  <2>1. calls'[k] = calls[k] /\ dial'[k] = dial[k] /\ chan'[k] = chan[k]
    BY <1>0, <1>2, <1>4
  <2>2. CASE dial[k].at \in Replicas
    <3>1. inFlight'[dial[k].at][k] = inFlight[dial[k].at][k]
      BY <1>0, <1>2, <1>4, <2>2
    <3> QED
      BY <2>1, <3>1 DEF KeepsSlot
  <2>3. CASE dial[k].at \notin Replicas
    <3>1. dial[k].pc = "none"
      BY <1>0, <2>3 DEF DialType
    <3>2. chan[k] = "none"
      BY <3>1 DEF ShapeInv, RowShape
    <3> QED
      BY <2>1, <3>1, <3>2 DEF KeepsSlot, Live
  <2> QED
    BY <2>2, <2>3
<1> QED
  BY <1>3, <1>4

LEMMA RoomStep == RoomInv /\ [Next]_vars => RoomInv'
<1> SUFFICES ASSUME RoomInv, [Next]_vars PROVE RoomInv'
  OBVIOUS
<1>0. /\ ShapeInv /\ TypeInv /\ faults \in Nat /\ ShapeInv' /\ SlotInv'
      /\ FreshHasNoLead
  <2>1. ShapeInv /\ SlotInv
    BY DEF RoomInv
  <2>2. ShapeInv' /\ SlotInv'
    BY <2>1, ShapeStep, SlotStep
  <2>3. TypeInv /\ FreshHasNoLead
    BY <2>1 DEF ShapeInv
  <2>4. faults \in 0..MaxFaults /\ MaxFaults \in Nat
    BY <2>3, ConstantsAssumption DEF TypeInv
  <2>5. faults \in Nat
    BY <2>4
  <2> QED
    BY <2>1, <2>2, <2>3, <2>5
<1>1. SUFFICES ASSUME faults' = 0, NEW k \in Calls PROVE KeepsSlot(k)'
  BY <1>0 DEF RoomInv
<1>2. KeepsSlot(k) /\ ~Fault
  BY <1>0, <1>1, FaultsGrow DEF RoomInv, Fault
<1>3. ASSUME NEW r \in Replicas, MarkDispatched(r) PROVE KeepsSlot(k)'
  BY <1>0, <1>2, <1>3, MarkRoom
<1>4. CASE \A r \in Replicas : ~MarkDispatched(r)
  <2>1. Effect(k) /\ RowShape(k) /\ dial[k] \in DialType
    BY <1>0, CallEffect DEF ShapeInv, TypeInv
  <2>2. calls'[k].row = calls[k].row
    BY <1>0, <1>4, LeadStep
  <2>3. \A r \in Replicas : \/ inFlight'[r][k] = inFlight[r][k]
                            \/ dial[k].pc = "release"
                            \/ chan[k] = "gone"
    BY <1>0, <1>1, <1>4, EntryStep
  <2>4. dial[k].pc = "none" \/ dial[k].at \in Replicas
    BY <2>1 DEF DialType
  <2>5. CASE Created(k)
    <3>1. calls[k].row = None /\ dial'[k].pc = "session"
      BY <1>0, <2>5 DEF Created, FreshHasNoLead
    <3> QED
      BY <2>2, <3>1 DEF KeepsSlot
  <2>6. CASE Dialled(k)
    BY <1>2, <2>1, <2>2, <2>3, <2>4, <2>6 DEF Dialled, KeepsSlot, RowShape, Live
  <2>7. CASE Moved(k)
    BY <1>2, <2>1, <2>2, <2>3, <2>4, <2>7 DEF Moved, KeepsSlot, RowShape, Live
  <2>8. CASE Handled(k)
    BY <1>2, <2>1, <2>2, <2>3, <2>4, <2>8 DEF Handled, KeepsSlot, RowShape, Live
  <2>9. CASE Abandoned(k)
    BY <1>2, <2>1, <2>2, <2>3, <2>4, <2>9 DEF Abandoned, KeepsSlot, RowShape, Live
  <2> QED
    BY <2>1, <2>5, <2>6, <2>7, <2>8, <2>9 DEF Effect
<1> QED
  BY <1>3, <1>4

LEMMA RoomInit == Init => RoomInv
<1> SUFFICES ASSUME Init PROVE RoomInv
  OBVIOUS
<1>1. \A k \in Calls : KeepsSlot(k)
  BY DEF Init, KeepsSlot, NoCall
<1> QED
  BY <1>1, ShapeInit, SlotInit DEF RoomInv

\* Every live channel has its own slot, and there are at most cap of those.
LEMMA RoomBounds == RoomInv => ConcurrencyBounded
<1> SUFFICES ASSUME RoomInv, faults = 0, NEW r \in Replicas, NEW c \in Campaigns
             PROVE  Cardinality(LiveCalls(r, c)) <= sems[r][c].cap
  BY DEF ConcurrencyBounded
<1>1. LiveCalls(r, c) \subseteq Holders(r, c)
  BY DEF RoomInv, KeepsSlot, LiveCalls, Holders
<1>2. /\ IsFiniteSet(Holders(r, c)) /\ Cardinality(Holders(r, c)) \in Nat
  BY HoldersFinite
<1>3. /\ Cardinality(LiveCalls(r, c)) <= Cardinality(Holders(r, c))
      /\ Cardinality(LiveCalls(r, c)) \in Nat
  BY <1>1, <1>2, FS_Subset, FS_CardinalityType
<1>4. /\ sems[r][c].len = Cardinality(Holders(r, c)) + Acquired(r, c)
      /\ sems[r][c].len <= sems[r][c].cap
      /\ sems[r][c] \in Sem
  BY DEF RoomInv, SlotInv, SlotAccounting, TypeInv
<1>5. Acquired(r, c) \in {0, 1}
  BY DEF Acquired
<1> QED
  BY <1>2, <1>3, <1>4, <1>5 DEF Sem

\* The semaphore does what worker.go says it is for: while nothing failed, a
\* process has at most as many channels of a campaign in Asterisk as the campaign's
\* semaphore has slots, for any number of processes, campaigns and calls.
THEOREM ConcurrencyIsBounded == Spec => []ConcurrencyBounded
BY RoomInit, RoomStep, RoomBounds, PTL DEF Spec

-----------------------------------------------------------------------------
(* The life cycle of a call, with one backend process *)

\* Two events of one channel are its StasisStart and, after it, its
\* ChannelDestroyed.
Ordered(evs) ==
    \A i, j \in 1..Len(evs) :
        i < j /\ evs[i].ch = evs[j].ch
            => evs[i].type = "StasisStart" /\ evs[j].type = "ChannelDestroyed"

LEMMA OrderedAppend ==
    ASSUME NEW evs \in Seq(Event), NEW e \in Event, Ordered(evs),
           ~Pending(evs, "ChannelDestroyed", e.ch),
           e.type = "ChannelDestroyed" \/ ~Pending(evs, "StasisStart", e.ch)
    PROVE  Ordered(Append(evs, e))
<1>1. /\ Len(Append(evs, e)) = Len(evs) + 1 /\ Len(evs) \in Nat
      /\ \A i \in 1..Len(evs) : Append(evs, e)[i] = evs[i]
      /\ Append(evs, e)[Len(evs) + 1] = e
  OBVIOUS
<1>2. \A i \in 1..Len(evs) : evs[i].type \in {"StasisStart", "ChannelDestroyed"}
  <2>1. \A i \in 1..Len(evs) : evs[i] \in Event
    OBVIOUS
  <2> QED
    BY <2>1 DEF Event
<1>3. ASSUME NEW i \in 1..Len(evs), evs[i].ch = e.ch
      PROVE  evs[i].type = "StasisStart" /\ e.type = "ChannelDestroyed"
  BY <1>2, <1>3 DEF Pending
<1> QED
  BY <1>1, <1>3 DEF Ordered

LEMMA OrderedTail ==
    ASSUME NEW evs \in Seq(Event), evs # <<>>, Ordered(evs)
    PROVE  /\ Ordered(Tail(evs))
           /\ ~Pending(Tail(evs), "StasisStart", Head(evs).ch)
           /\ Head(evs).type = "ChannelDestroyed" =>
                ~Pending(Tail(evs), "ChannelDestroyed", Head(evs).ch)
<1>1. /\ Len(Tail(evs)) = Len(evs) - 1 /\ Len(evs) \in Nat \ {0}
      /\ \A i \in 1..(Len(evs) - 1) : Tail(evs)[i] = evs[i + 1]
      /\ Head(evs) = evs[1]
  OBVIOUS
<1>2. Ordered(Tail(evs))
  BY <1>1 DEF Ordered
<1>3. ASSUME NEW i \in 1..(Len(evs) - 1), evs[i + 1].ch = evs[1].ch
      PROVE  evs[1].type = "StasisStart" /\ evs[i + 1].type = "ChannelDestroyed"
  BY <1>1, <1>3 DEF Ordered
<1> QED
  BY <1>1, <1>2, <1>3 DEF Pending

\* The start of a channel is bridged once, its end is worked on last.
HandlerSeen(r) ==
    /\ handler[r].pc = "bridge" =>
         /\ chan[handler[r].ch] \in {"up", "gone"}
         /\ ~Pending(events, "StasisStart", handler[r].ch)
    /\ handler[r].pc = "finish" =>
         /\ ~Pending(events, "StasisStart", handler[r].ch)
         /\ ~Pending(events, "ChannelDestroyed", handler[r].ch)

\* An answered call has no start to come, a finished one nothing at all.
StatusSeen(k) ==
    /\ calls[k].status = "answered" =>
         /\ chan[k] \in {"up", "gone"}
         /\ ~Pending(events, "StasisStart", k)
         /\ \A r \in Replicas : ~(handler[r].pc = "bridge" /\ handler[r].ch = k)
    /\ calls[k].status \in {"completed", "failed"} =>
         /\ chan[k] = "gone"
         /\ ~Pending(events, "StasisStart", k)
         /\ ~Pending(events, "ChannelDestroyed", k)
         /\ \A r \in Replicas : ~(handler[r].pc \in {"bridge", "finish"}
                                    /\ handler[r].ch = k)

LifeInv ==
    /\ ShapeInv
    /\ Ordered(events)
    /\ \A r \in Replicas : HandlerSeen(r)
    /\ \A k \in Calls : StatusSeen(k)

LEMMA OrderedStep == LifeInv /\ [Next]_vars => Ordered(events')
<1> SUFFICES ASSUME LifeInv, [Next]_vars PROVE Ordered(events')
  OBVIOUS
<1> USE DEF dbVars, slotVars, astVars
<1>0. /\ TypeInv /\ events \in Seq(Event) /\ Ordered(events) /\ EventShape
      /\ ShapeInv
  BY DEF LifeInv, ShapeInv, TypeInv
<1>1. ASSUME UNCHANGED events \/ events' = <<>> PROVE Ordered(events')
  BY <1>0, <1>1 DEF Ordered
<1>2. ASSUME events # <<>>, events' = Tail(events) PROVE Ordered(events')
  BY <1>0, <1>2, OrderedTail
<1>3. ASSUME NEW c \in Calls, NEW evs \in Seq(Event), HangupChannel(c, evs),
             evs = events \/ (events # <<>> /\ evs = Tail(events))
      PROVE  Ordered(events')
  <2>1. Ordered(evs)
    BY <1>0, <1>3, OrderedTail
  <2>2. CASE events' = evs
    BY <2>1, <2>2
  <2>3. CASE /\ chan[c] \in Live
             /\ events' = Append(evs, Ev("ChannelDestroyed", c, "completed"))
    <3>1. ~Pending(events, "ChannelDestroyed", c)
      BY <1>0, <2>3 DEF EventShape, Live
    <3>2. ~Pending(evs, "ChannelDestroyed", c)
      BY <1>0, <1>3, <3>1, PendingTail
    <3>3. Ev("ChannelDestroyed", c, "completed") \in Event
      BY DEF Ev, Event
    <3> QED
      BY <2>1, <2>3, <3>2, <3>3, OrderedAppend DEF Ev
  <2> QED
    BY <1>0, <1>3, <2>2, <2>3, HangupEffect
<1>4. ASSUME NEW c \in Calls, ChannelAnswers(c) PROVE Ordered(events')
  <2>1. /\ events' = Append(events, Ev("StasisStart", c, "completed"))
        /\ Ev("StasisStart", c, "completed") \in Event
        /\ chan[c] = "ringing"
    BY <1>4 DEF ChannelAnswers, Ev, Event
  <2>2. ~Pending(events, "ChannelDestroyed", c) /\ ~Pending(events, "StasisStart", c)
    BY <1>0, <2>1 DEF EventShape
  <2> QED
    BY <1>0, <2>1, <2>2, OrderedAppend DEF Ev
<1>5. ASSUME NEW c \in Calls, ChannelEnds(c) PROVE Ordered(events')
  <2>1. PICK status \in {"completed", "failed"} :
          events' = Append(events, Ev("ChannelDestroyed", c, status))
    BY <1>5 DEF ChannelEnds
  <2>2. /\ Ev("ChannelDestroyed", c, status) \in Event
        /\ ~Pending(events, "ChannelDestroyed", c)
    BY <1>0, <1>5 DEF ChannelEnds, Ev, Event, EventShape, Live
  <2> QED
    BY <1>0, <2>1, <2>2, OrderedAppend DEF Ev
<1>6. ASSUME NEW r \in Replicas, StasisStart(r) PROVE Ordered(events')
  <2>1. /\ events # <<>> /\ Head(events).ch \in Calls /\ Tail(events) \in Seq(Event)
    BY <1>0, <1>6, EventType DEF StasisStart, NextEvent
  <2> QED
    BY <1>2, <1>3, <1>6, <2>1 DEF StasisStart
<1>7. ASSUME NEW r \in Replicas, StasisBridge(r) PROVE Ordered(events')
  <2>1. handler[r].ch \in Calls
    BY <1>0, <1>7 DEF StasisBridge, HandlerType, Handlers, TypeInv
  <2> QED
    BY <1>0, <1>1, <1>3, <1>7, <2>1 DEF StasisBridge
<1>8. ASSUME NEW r \in Replicas, ChannelDestroyed(r) PROVE Ordered(events')
  BY <1>2, <1>8 DEF ChannelDestroyed, NextEvent
<1>9. ASSUME NEW r \in Replicas,
              \/ MarkDispatched(r) \/ TestCall(r) \/ FinishCall(r)
              \/ HandlerRelease(r) \/ HandlerDrain(r)
       PROVE  UNCHANGED events
  BY <1>9 DEF MarkDispatched, TestCall, FinishCall, HandlerRelease, HandlerDrain
<1>10. ASSUME NEW k \in Calls,
              \/ DialSession(k) \/ DialOriginate(k) \/ UpdateCallChannel(k)
              \/ DialFailed(k) \/ DialRelease(k) \/ DialDrain(k)
       PROVE  UNCHANGED events
  BY <1>10 DEF DialSession, DialOriginate, UpdateCallChannel, DialFailed, DialRelease,
     DialDrain
<1>11. ASSUME LoseEvents \/ \E r \in Replicas : Restart(r)
       PROVE  events' = <<>>
  BY <1>11 DEF LoseEvents, Restart
<1> QED
  BY <1>1, <1>4, <1>5, <1>6, <1>7, <1>8, <1>9, <1>10, <1>11, Quiet

LEMMA HandlerSeenStep ==
    ASSUME LifeInv, [Next]_vars, NEW r \in Replicas
    PROVE  HandlerSeen(r)'
<1>0. /\ ShapeInv /\ TypeInv /\ events \in Seq(Event) /\ Ordered(events)
      /\ EventShape /\ HandlerShape(r) /\ HandlerSeen(r)
      /\ handler[r] \in HandlerType
  BY DEF LifeInv, ShapeInv, TypeInv
<1>1. HandlerMoves(r)
  BY <1>0, HandlerStep
<1>2. CASE handler'[r] = handler[r] /\ handler[r].pc = "bridge"
  <2>1. handler[r].ch \in Calls /\ chan[handler[r].ch] \in {"up", "gone"}
    BY <1>0, <1>2 DEF HandlerSeen, HandlerType, Handlers
  <2>2. chan'[handler[r].ch] \in {"up", "gone"}
    BY <1>0, <2>1, ChannelForward
  <2>3. ~Pending(events', "StasisStart", handler[r].ch)
    BY <1>0, <1>2, <2>1, EventStep DEF HandlerSeen
  <2> QED
    BY <1>2, <2>2, <2>3 DEF HandlerSeen, Pending
<1>3. CASE handler'[r] = handler[r] /\ handler[r].pc = "finish"
  <2>1. handler[r].ch \in Calls /\ chan[handler[r].ch] = "gone"
    BY <1>0, <1>3 DEF HandlerShape, HandlerType, Handlers
  <2>2. /\ ~Pending(events', "StasisStart", handler[r].ch)
        /\ ~Pending(events', "ChannelDestroyed", handler[r].ch)
    BY <1>0, <1>3, <2>1, EventStep DEF HandlerSeen, Live
  <2> QED
    BY <1>3, <2>2 DEF HandlerSeen, Pending
<1>4. CASE handler'[r].pc \notin {"bridge", "finish"}
  BY <1>4 DEF HandlerSeen
<1>5. CASE /\ handler'[r].pc = "bridge" /\ handler'[r].ch \in Calls
           /\ Head(events).type = "StasisStart" /\ Head(events).ch = handler'[r].ch
           /\ events # <<>> /\ events' = Tail(events)
  <2>1. Pending(events, "StasisStart", handler'[r].ch)
    BY <1>0, <1>5, PendingTail
  <2>2. chan'[handler'[r].ch] \in {"up", "gone"}
    BY <1>0, <1>5, <2>1, ChannelForward DEF EventShape
  <2>3. ~Pending(events', "StasisStart", handler'[r].ch)
    BY <1>0, <1>5, OrderedTail
  <2> QED
    BY <1>5, <2>2, <2>3 DEF HandlerSeen, Pending
<1>6. CASE /\ handler'[r].pc = "finish" /\ handler'[r].ch \in Calls
           /\ Head(events).type = "ChannelDestroyed" /\ Head(events).ch = handler'[r].ch
           /\ events # <<>> /\ events' = Tail(events)
  <2>1. /\ ~Pending(events', "StasisStart", handler'[r].ch)
        /\ ~Pending(events', "ChannelDestroyed", handler'[r].ch)
    BY <1>0, <1>6, OrderedTail
  <2> QED
    BY <1>6, <2>1 DEF HandlerSeen, Pending
<1> QED
  BY <1>1, <1>2, <1>3, <1>4, <1>5, <1>6 DEF HandlerMoves

\* A handler turns to a channel only through an event of it.
LEMMA NewWork ==
    ASSUME LifeInv, [Next]_vars, NEW r \in Replicas, NEW k \in Calls,
           handler'[r].ch = k, handler'[r].pc \in {"bridge", "finish"}
    PROVE  \/ handler'[r] = handler[r]
           \/ handler'[r].pc = "bridge" /\ Pending(events, "StasisStart", k)
           \/ handler'[r].pc = "finish" /\ Pending(events, "ChannelDestroyed", k)
<1>1. HandlerMoves(r) /\ events \in Seq(Event)
  BY HandlerStep DEF LifeInv, ShapeInv, TypeInv
<1>2. events # <<>> => Pending(events, Head(events).type, Head(events).ch)
  BY <1>1, PendingTail
<1> QED
  BY <1>1, <1>2 DEF HandlerMoves

LEMMA StatusSeenStep ==
    ASSUME OneReplica, LifeInv, [Next]_vars, NEW k \in Calls
    PROVE  StatusSeen(k)'
<1>0. /\ ShapeInv /\ RowShape(k) /\ StatusSeen(k) /\ Effect(k)
      /\ \A r \in Replicas : HandlerShape(r) /\ HandlerSeen(r)
  BY CallEffect DEF LifeInv, ShapeInv
<1>1. /\ chan[k] = "gone" => chan'[k] = "gone"
      /\ chan[k] = "up" => chan'[k] \in {"up", "gone"}
  BY <1>0, ChannelForward
<1>2. /\ chan[k] \in {"up", "gone"} /\ ~Pending(events, "StasisStart", k)
           => ~Pending(events', "StasisStart", k)
      /\ chan[k] = "gone" /\ ~Pending(events, "ChannelDestroyed", k)
           => ~Pending(events', "ChannelDestroyed", k)
  BY <1>0, EventStep DEF Live
<1>3. CASE calls'[k].status = calls[k].status
  <2>1. CASE calls[k].status = "answered"
    <3>1. \A r \in Replicas : ~(handler'[r].pc = "bridge" /\ handler'[r].ch = k)
      BY <1>0, <2>1, NewWork DEF StatusSeen
    <3> QED
      BY <1>0, <1>1, <1>2, <1>3, <2>1, <3>1 DEF StatusSeen, Pending
  <2>2. CASE calls[k].status \in {"completed", "failed"}
    <3>1. \A r \in Replicas : ~(handler'[r].pc \in {"bridge", "finish"}
                                  /\ handler'[r].ch = k)
      BY <1>0, <2>2, NewWork DEF StatusSeen
    <3> QED
      BY <1>0, <1>1, <1>2, <1>3, <2>2, <3>1 DEF StatusSeen, Pending
  <2>3. CASE calls[k].status \notin {"answered", "completed", "failed"}
    BY <1>3, <2>3 DEF StatusSeen
  <2> QED
    BY <2>1, <2>2, <2>3
<1>4. CASE calls'[k].status \notin {"answered", "completed", "failed"}
  BY <1>4 DEF StatusSeen
<1>5. CASE Handled(k)
  <2>1. PICK r \in Replicas :
         \/ /\ handler[r].pc = "bridge" /\ handler[r].ch = k
            /\ handler'[r].pc \notin {"bridge", "finish"}
            /\ calls'[k].status = "answered"
         \/ /\ handler[r].pc = "finish" /\ handler[r].ch = k
            /\ handler'[r].pc \notin {"bridge", "finish"}
            /\ calls'[k].status \in {"completed", "failed"}
    BY <1>5 DEF Handled
  <2>2. \A q \in Replicas : handler'[q].pc \notin {"bridge", "finish"}
    BY <2>1 DEF OneReplica
  <2>3. /\ handler[r].pc = "bridge" =>
             chan[k] \in {"up", "gone"} /\ ~Pending(events, "StasisStart", k)
        /\ handler[r].pc = "finish" =>
             /\ chan[k] = "gone"
             /\ ~Pending(events, "StasisStart", k)
             /\ ~Pending(events, "ChannelDestroyed", k)
    BY <1>0, <2>1 DEF HandlerSeen, HandlerShape
  <2> QED
    BY <1>1, <1>2, <2>1, <2>2, <2>3 DEF StatusSeen, Pending
<1> QED
  BY <1>0, <1>3, <1>4, <1>5 DEF Effect, Created, Dialled, Moved, Abandoned

LEMMA LifeStep == OneReplica /\ LifeInv /\ [Next]_vars => LifeInv'
<1> SUFFICES ASSUME OneReplica, LifeInv, [Next]_vars PROVE LifeInv'
  OBVIOUS
<1>1. ShapeInv'
  BY ShapeStep DEF LifeInv
<1>2. Ordered(events)'
  BY OrderedStep DEF Ordered
<1> QED
  BY <1>1, <1>2, HandlerSeenStep, StatusSeenStep DEF LifeInv

LEMMA LifeInit == Init => LifeInv
<1> SUFFICES ASSUME Init PROVE LifeInv
  OBVIOUS
<1>1. Ordered(events) /\ \A k \in Calls : StatusSeen(k)
  BY DEF Init, Ordered, StatusSeen, NoCall
<1>2. \A r \in Replicas : HandlerSeen(r)
  BY DEF Init, HandlerSeen, IdleHandler
<1> QED
  BY <1>1, <1>2, ShapeInit DEF LifeInv

\* A statement changes the status of one call.
LEMMA OneStatus ==
    ASSUME ShapeInv, [Next]_vars, NEW j \in Calls, NEW k \in Calls,
           calls'[j].status # calls[j].status, calls'[k].status # calls[k].status
    PROVE  j = k
<1> USE DEF dbVars, slotVars, astVars
<1>0. /\ TypeInv /\ calls \in [Calls -> CallRow]
      /\ \A i \in Calls : RowShape(i)
  BY DEF ShapeInv, TypeInv
<1>1. ASSUME NEW i \in Calls, NEW row, calls' = [calls EXCEPT ![i] = row] PROVE j = k
  BY <1>0, <1>1
<1>2. ASSUME UNCHANGED calls PROVE FALSE
  BY <1>2
<1>3. ASSUME NEW r \in Replicas, MarkDispatched(r) \/ TestCall(r) PROVE j = k
  BY <1>1, <1>3 DEF MarkDispatched, TestCall
<1>4. ASSUME NEW i \in Calls, DialSession(i) \/ UpdateCallChannel(i) \/ DialFailed(i)
      PROVE  j = k
  BY <1>1, <1>2, <1>4 DEF DialSession, UpdateCallChannel, DialFailed
<1>5. ASSUME NEW r \in Replicas, StasisBridge(r) PROVE j = k
  <2>1. handler[r].call \in Calls
    BY <1>0, <1>5 DEF StasisBridge, HandlerType, Handlers, TypeInv
  <2> QED
    BY <1>1, <1>2, <1>5, <2>1 DEF StasisBridge
<1>6. ASSUME NEW r \in Replicas, FinishCall(r) PROVE j = k
  <2>1. handler[r].ch \in Calls
    BY <1>0, <1>6 DEF FinishCall, HandlerType, Handlers, TypeInv
  <2>2. calls[j].channel_id = handler[r].ch /\ calls[k].channel_id = handler[r].ch
    BY <1>2, <1>6 DEF FinishCall
  <2> QED
    BY <1>0, <2>1, <2>2, ConstantsAssumption DEF RowShape
<1>7. ASSUME NEW r \in Replicas,
             \/ StasisStart(r) \/ ChannelDestroyed(r) \/ HandlerRelease(r)
             \/ HandlerDrain(r) \/ Restart(r)
      PROVE  FALSE
  BY <1>2, <1>7 DEF StasisStart, ChannelDestroyed, HandlerRelease, HandlerDrain, Restart
<1>8. ASSUME NEW i \in Calls,
             \/ DialOriginate(i) \/ DialRelease(i) \/ DialDrain(i)
             \/ ChannelAnswers(i) \/ ChannelEnds(i)
      PROVE  FALSE
  BY <1>2, <1>8 DEF DialOriginate, DialRelease, DialDrain, ChannelAnswers, ChannelEnds
<1>9. ASSUME LoseEvents PROVE FALSE
  BY <1>2, <1>9 DEF LoseEvents
<1> QED
  BY <1>2, <1>3, <1>4, <1>5, <1>6, <1>7, <1>8, <1>9, Quiet

\* Each status is overwritten only by one that may follow it.
LEMMA StatusForward ==
    ASSUME LifeInv, [Next]_vars, NEW k \in Calls,
           calls'[k].status # calls[k].status
    PROVE  <<calls[k].status, calls'[k].status>> \in
             {<<"none", "queued">>, <<"queued", "dialing">>, <<"dialing", "answered">>,
              <<"queued", "skipped">>, <<"dialing", "completed">>,
              <<"dialing", "failed">>, <<"answered", "completed">>,
              <<"answered", "failed">>}
<1>0. /\ ShapeInv /\ RowShape(k) /\ StatusSeen(k) /\ Effect(k) /\ k # None
      /\ calls[k].status \in CallStatus
  BY CallEffect, CallsType, ConstantsAssumption DEF LifeInv, ShapeInv, CallRow
<1>1. CASE Created(k)
  BY <1>1 DEF Created
<1>2. CASE Dialled(k)
  BY <1>0, <1>2 DEF Dialled, RowShape
<1>3. CASE Handled(k)
  BY <1>0, <1>3 DEF Handled, RowShape, StatusSeen, CallStatus
<1> QED
  BY <1>0, <1>1, <1>2, <1>3 DEF Effect, Moved, Abandoned

LEMMA LifecycleStep ==
    ASSUME LifeInv, [Next]_vars
    PROVE  \/ Lifecycle!Next
           \/ [k \in Calls |-> calls'[k].status] = [k \in Calls |-> calls[k].status]
<1>1. CASE \A k \in Calls : calls'[k].status = calls[k].status
  BY <1>1
<1>2. CASE \E k \in Calls : calls'[k].status # calls[k].status
  <2>1. PICK k \in Calls : calls'[k].status # calls[k].status
    BY <1>2
  <2>2. \A j \in Calls \ {k} : calls'[j].status = calls[j].status
    BY <2>1, OneStatus DEF LifeInv
  <2>3. [j \in Calls |-> calls'[j].status] =
          [[j \in Calls |-> calls[j].status] EXCEPT ![k] = calls'[k].status]
    BY <2>2
  <2> QED
    BY <2>1, <2>3, StatusForward DEF Lifecycle!Next, Lifecycle!Step, Lifecycle!Create,
       Lifecycle!Dial, Lifecycle!Answer, Lifecycle!Skip, Lifecycle!Finish
<1> QED
  BY <1>1, <1>2

\* The dial goroutine, the ARI loop and the worker write calls.status without a
\* common lock and, but for one, without looking at what they overwrite.  With one
\* backend process the rows implement CallLifecycle all the same: every step of the
\* system is a step of one call's life cycle or leaves all of them alone.  The order
\* in which Asterisk delivers a channel's events is what the proof rests on.
THEOREM RowsImplementLifecycle == ASSUME OneReplica PROVE Spec => RefinesLifecycle
<1>1. Init => Lifecycle!Init
  BY DEF Init, NoCall, Lifecycle!Init
<1>2. LifeInv /\ [Next]_vars => LifeInv'
  BY LifeStep
<1>3. LifeInv /\ [Next]_vars
        => [Lifecycle!Next]_([k \in Calls |-> calls[k].status])
  BY LifecycleStep
<1> QED
  BY <1>1, <1>2, <1>3, LifeInit, PTL DEF Spec, RefinesLifecycle, Lifecycle!Spec
=============================================================================
