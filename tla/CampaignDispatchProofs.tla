------------------------ MODULE CampaignDispatchProofs ------------------------
(***************************************************************************)
(* Proofs about CampaignDispatch, for every set of replicas, campaigns,    *)
(* leads and calls and every bound.                                        *)
(***************************************************************************)
EXTENDS CampaignDispatch, FiniteSetTheorems, TLAPS

Ticks == [pc: {"idle", "row", "skip", "acquire", "send", "mark"},
          due: SUBSET DueRow, row: DueRow \cup {None}, count: Int]

\* The states of a worker goroutine, with its row when it works on one.
TickType ==
    {t \in Ticks : t.pc \in {"skip", "acquire", "send", "mark"} => t.row \in DueRow}

Handlers == [pc: {"idle", "bridge", "finish", "release", "drain"},
             ch: Calls \cup {None}, call: Calls \cup {None},
             status: {"completed", "failed"}]

HandlerType == {h \in Handlers :
                  /\ h.pc \in {"bridge", "finish"} => h.ch # None
                  /\ h.pc \in {"bridge", "release", "drain"} => h.call # None}

DialType == {d \in [pc: {"none", "session", "originate", "update", "failed",
                          "release", "drain", "done"},
                     at: Replicas \cup {None}] : d.pc # "none" => d.at # None}

CallRow == [status: CallStatus, row: Rows \cup {None},
            channel_id: Calls \cup {None}, voice_session_id: Calls \cup {None}]

LeadRow == [status: LeadStatus, attempts: Nat]

\* TypeOK with the local variables of a goroutine folded into its type.
TypeInv ==
    /\ campaigns \in [Campaigns -> [status: CampaignStatus, max_concurrent: Int]]
    /\ campaign_leads \in [Rows -> LeadRow]
    /\ dnc \in SUBSET Leads
    /\ window \in {"open", "closed"}
    /\ calls \in [Calls -> CallRow]
    /\ tick \in [Replicas -> TickType]
    /\ sems \in [Replicas -> [Campaigns -> Sem]]
    /\ inFlight \in [Replicas -> [Calls -> Campaigns \cup {None}]]
    /\ draining \in [Replicas -> [Calls -> Campaigns \cup {None}]]
    /\ dial \in [Calls -> DialType]
    /\ handler \in [Replicas -> HandlerType]
    /\ chan \in [Calls -> {"none", "ringing", "up", "gone"}]
    /\ events \in Seq(Event)
    /\ dncStable \in [Replicas -> SUBSET Leads]
    /\ ops \in 0..MaxOps
    /\ faults \in 0..MaxFaults

LEMMA TypeInvEquiv == TypeInv <=> TypeOK
BY DEF TypeOK, TypeInv, TickType, Ticks, HandlerType, Handlers, DialType, CallRow,
          LeadRow

LEMMA StatusType ==
    /\ {"none", "queued", "dialing", "answered", "completed", "failed", "skipped"}
         \subseteq CallStatus
    /\ {"active", "inactive", "deleted"} \subseteq CampaignStatus
    /\ {"unused", "pending", "calling", "blocked", "absent"} \subseteq LeadStatus
BY DEF CallStatus, CampaignStatus, LeadStatus

\* The updates the statements make to one row of calls or campaign_leads.
LEMMA CallRowType ==
    ASSUME NEW row \in CallRow, NEW s \in CallStatus
    PROVE  /\ [row EXCEPT !.status = s] \in CallRow
           /\ \A l \in Rows : [row EXCEPT !.status = s, !.row = l] \in CallRow
           /\ \A k \in Calls : [row EXCEPT !.channel_id = k, !.status = s] \in CallRow
           /\ \A k \in Calls : [row EXCEPT !.voice_session_id = k] \in CallRow
           /\ row.status \in CallStatus
BY DEF CallRow

LEMMA CallsType ==
    ASSUME TypeInv, NEW k \in Calls
    PROVE  /\ calls[k] \in CallRow
           /\ \A row \in CallRow : [calls EXCEPT ![k] = row] \in [Calls -> CallRow]
BY DEF TypeInv

LEMMA LeadRowType ==
    ASSUME NEW row \in LeadRow, NEW s \in LeadStatus
    PROVE  /\ [row EXCEPT !.status = s] \in LeadRow
           /\ [status |-> s, attempts |-> row.attempts + 1] \in LeadRow
           /\ row.status \in LeadStatus
BY DEF LeadRow

LEMMA NewRowType == NewRow \in LeadRow /\ UnusedRow \in LeadRow
BY StatusType DEF NewRow, UnusedRow, LeadRow

LEMMA LeadsType ==
    ASSUME TypeInv, NEW l \in Rows
    PROVE  /\ campaign_leads[l] \in LeadRow
           /\ \A row \in LeadRow :
                [campaign_leads EXCEPT ![l] = row] \in [Rows -> LeadRow]
BY DEF TypeInv

LEMMA IdleType == IdleTick \in TickType /\ IdleHandler \in HandlerType
BY DEF IdleTick, Ticks, TickType, Uncounted, IdleHandler, HandlerType, Handlers

LEMMA NextRowType ==
    ASSUME NEW t \in TickType
    PROVE  NextRow(t) \in TickType
BY IdleType DEF NextRow, Ticks, TickType

\* A worker goroutine that has a row may be at any of its steps.
LEMMA TickStepType ==
    ASSUME NEW t \in TickType
    PROVE  /\ \A n \in Int : [t EXCEPT !.count = n] \in TickType
           /\ t.row \in DueRow =>
                \A pc \in {"skip", "acquire", "send", "mark"} :
                   /\ [t EXCEPT !.pc = pc] \in TickType
                   /\ \A n \in Int : [t EXCEPT !.pc = pc, !.count = n] \in TickType
           /\ t.count \in Int
<1>1. (\A n \in Int : [t EXCEPT !.count = n] \in TickType) /\ t.count \in Int
  BY DEF TickType, Ticks
<1>2. ASSUME t.row \in DueRow, NEW pc \in {"skip", "acquire", "send", "mark"}
      PROVE  [t EXCEPT !.pc = pc] \in TickType
  BY <1>2 DEF TickType, Ticks
<1>3. ASSUME t.row \in DueRow, NEW pc \in {"skip", "acquire", "send", "mark"},
             NEW n \in Int
      PROVE  [t EXCEPT !.pc = pc, !.count = n] \in TickType
  BY <1>3 DEF TickType, Ticks
<1> QED
  BY <1>1, <1>2, <1>3

LEMMA DispatchableType == TypeInv => Dispatchable \subseteq DueRow
BY ConstantsAssumption DEF TypeInv, Dispatchable, DueRow

LEMMA CountType == CountCallsToday \in Nat
<1> DEFINE S == {k \in Calls : calls[k].channel_id # None}
<1>1. IsFiniteSet(S)
  BY ConstantsAssumption, FS_Subset
<1>2. Cardinality(S) \in Nat
  BY <1>1, FS_CardinalityType
<1> QED
  BY <1>2 DEF CountCallsToday

LEMMA CheckCapType ==
    ASSUME NEW t \in TickType, t.row \in DueRow
    PROVE  CheckCap(t) \in TickType
<1> DEFINE n == IF t.count = Uncounted THEN CountCallsToday ELSE t.count
<1>1. n \in Int
  <2>1. t.count \in Int
    BY TickStepType
  <2> QED
    BY <2>1, CountType
<1> HIDE DEF n
<1>2. /\ [t EXCEPT !.count = n] \in TickType
      /\ [t EXCEPT !.pc = "acquire", !.count = n] \in TickType
  BY <1>1, TickStepType
<1>3. NextRow([t EXCEPT !.count = n]) \in TickType
  BY <1>2, NextRowType
<1> QED
  BY <1>2, <1>3 DEF CheckCap, n

\* One token less, or one more, in one semaphore.
LEMMA ReceiveType ==
    ASSUME TypeInv, NEW r \in Replicas, NEW c \in Campaigns, Receive(r, c)
    PROVE  /\ sems' \in [Replicas -> [Campaigns -> Sem]]
           /\ \A q \in Replicas, d \in Campaigns :
                sems'[q][d] = IF q = r /\ d = c /\ sems[r][c].len > 0
                              THEN [sems[r][c] EXCEPT !.len = @ - 1]
                              ELSE sems[q][d]
<1> DEFINE s == [sems[r][c] EXCEPT !.len = IF @ > 0 THEN @ - 1 ELSE @]
<1>1. sems \in [Replicas -> [Campaigns -> Sem]] /\ sems[r] \in [Campaigns -> Sem]
  BY DEF TypeInv
<1>2. sems[r][c] \in Sem
  BY <1>1
<1>3. /\ s \in Sem
      /\ s = IF sems[r][c].len > 0 THEN [sems[r][c] EXCEPT !.len = @ - 1]
             ELSE sems[r][c]
  BY <1>2 DEF Sem
<1>4. sems' = [sems EXCEPT ![r] = [sems[r] EXCEPT ![c] = s]]
  BY DEF Receive
<1>5. [sems[r] EXCEPT ![c] = s] \in [Campaigns -> Sem]
  <2> HIDE DEF s
  <2> QED BY <1>1, <1>3
<1> HIDE DEF s
<1>6. sems' \in [Replicas -> [Campaigns -> Sem]]
  BY <1>1, <1>4, <1>5
<1> QED
  BY <1>1, <1>3, <1>4, <1>6

LEMMA SendType ==
    ASSUME TypeInv, NEW r \in Replicas, NEW c \in Campaigns,
           sems' = [sems EXCEPT ![r][c].len = @ + 1]
    PROVE  /\ sems' \in [Replicas -> [Campaigns -> Sem]]
           /\ \A q \in Replicas, d \in Campaigns :
                sems'[q][d] = IF q = r /\ d = c
                              THEN [sems[r][c] EXCEPT !.len = @ + 1]
                              ELSE sems[q][d]
<1> DEFINE s == [sems[r][c] EXCEPT !.len = @ + 1]
<1>1. sems \in [Replicas -> [Campaigns -> Sem]] /\ sems[r] \in [Campaigns -> Sem]
  BY DEF TypeInv
<1>2. s \in Sem
  BY <1>1 DEF Sem
<1>3. sems' = [sems EXCEPT ![r] = [sems[r] EXCEPT ![c] = s]]
  OBVIOUS
<1> HIDE DEF s
<1>4. [sems[r] EXCEPT ![c] = s] \in [Campaigns -> Sem]
  BY <1>1, <1>2
<1>5. sems' \in [Replicas -> [Campaigns -> Sem]]
  BY <1>1, <1>3, <1>4
<1> QED
  BY <1>1, <1>3, <1>5 DEF s

\* A goroutine between two steps works on a row of a known campaign.
LEMMA RowCampaign ==
    ASSUME TypeInv, NEW r \in Replicas,
           tick[r].pc \in {"skip", "acquire", "send", "mark"}
    PROVE  /\ tick[r].row \in DueRow
           /\ tick[r].row.id \in Rows
           /\ CampaignOf[tick[r].row.id] \in Campaigns
<1>1. tick[r] \in TickType
  BY DEF TypeInv
<1>2. tick[r].row \in DueRow
  BY <1>1 DEF TickType, Ticks
<1> QED
  BY <1>2, ConstantsAssumption DEF DueRow

\* A dial goroutine that changes its program counter keeps its type.
LEMMA DialAtType ==
    ASSUME TypeInv, NEW k \in Calls, dial[k].pc # "none",
           NEW pc \in {"session", "originate", "update", "failed", "release",
                       "drain", "done"},
           DialAt(k, pc)
    PROVE  /\ dial' \in [Calls -> DialType]
           /\ dial[k].at \in Replicas
<1>1. dial[k] \in DialType
  BY DEF TypeInv
<1>2. [dial[k] EXCEPT !.pc = pc] \in DialType /\ dial[k].at \in Replicas
  BY <1>1 DEF DialType
<1> QED
  BY <1>2 DEF TypeInv, DialAt

\* The entries ReleaseSlot moves.
LEMMA DropEntryType ==
    ASSUME TypeInv, NEW r \in Replicas, NEW k \in Calls, DropEntry(r, k)
    PROVE  /\ inFlight' \in [Replicas -> [Calls -> Campaigns \cup {None}]]
           /\ draining' \in [Replicas -> [Calls -> Campaigns \cup {None}]]
BY DEF TypeInv, DropEntry

LEMMA DrainTokenType ==
    ASSUME TypeInv, NEW r \in Replicas, NEW k \in Calls, DrainToken(r, k)
    PROVE  /\ sems' \in [Replicas -> [Campaigns -> Sem]]
           /\ draining' \in [Replicas -> [Calls -> Campaigns \cup {None}]]
<1>1. draining[r][k] \in Campaigns
  BY DEF TypeInv, DrainToken
<1>2. draining' \in [Replicas -> [Calls -> Campaigns \cup {None}]]
  BY DEF TypeInv, DrainToken
<1> QED
  BY <1>1, <1>2, ReceiveType DEF DrainToken

\* Asterisk's answer to a hangup.
LEMMA HangupType ==
    ASSUME TypeInv, NEW ch \in Calls, NEW evs \in Seq(Event), HangupChannel(ch, evs)
    PROVE  /\ chan' \in [Calls -> {"none", "ringing", "up", "gone"}]
           /\ events' \in Seq(Event)
           /\ faults' \in 0..MaxFaults
<1>1. Ev("ChannelDestroyed", ch, "completed") \in Event
  BY DEF Ev, Event
<1>2. Append(evs, Ev("ChannelDestroyed", ch, "completed")) \in Seq(Event)
  BY <1>1
<1>3. chan' \in [Calls -> {"none", "ringing", "up", "gone"}]
  BY DEF TypeInv, HangupChannel
<1>4. events' \in Seq(Event)
  BY <1>2 DEF HangupChannel
<1> QED
  BY <1>3, <1>4, ConstantsAssumption DEF TypeInv, HangupChannel, Fault

LEMMA EventType ==
    ASSUME TypeInv, events # <<>>
    PROVE  /\ Head(events) \in Event
           /\ Head(events).ch \in Calls
           /\ Head(events).status \in {"completed", "failed"}
           /\ Tail(events) \in Seq(Event)
<1>1. Head(events) \in Event /\ Tail(events) \in Seq(Event)
  BY DEF TypeInv
<1> QED
  BY <1>1 DEF Event

\* Every step keeps the variables in their types.
LEMMA TypeStep == TypeInv /\ [Next]_vars => TypeInv'
<1> SUFFICES ASSUME TypeInv, [Next]_vars PROVE TypeInv'
  OBVIOUS
<1> USE DEF dbVars, slotVars, astVars
<1>0. ASSUME NEW r \in Replicas
      PROVE  tick[r] \in TickType /\ NextRow(tick[r]) \in TickType
  BY NextRowType DEF TypeInv
<1>1. ASSUME NEW r \in Replicas, StartTick(r) PROVE TypeInv'
  <2>1. PICK S \in SUBSET Dispatchable :
           tick' = [tick EXCEPT ![r] = [IdleTick EXCEPT !.pc = "row", !.due = S]]
    BY <1>1 DEF StartTick
  <2>2. [IdleTick EXCEPT !.pc = "row", !.due = S] \in TickType
    BY IdleType, DispatchableType DEF TickType, Ticks, IdleTick, Uncounted
  <2>3. tick' \in [Replicas -> TickType]
    BY <2>1, <2>2 DEF TypeInv
  <2> QED
    BY <1>1, <2>3 DEF StartTick, TypeInv
<1>2. ASSUME NEW r \in Replicas, CheckRow(r) PROVE TypeInv'
  <2> DEFINE T(d) == [tick[r] EXCEPT !.due = @ \ {d}, !.row = d]
  <2>1. PICK d \in tick[r].due :
          \/ tick' = [tick EXCEPT ![r] = NextRow(T(d))]
          \/ tick' = [tick EXCEPT ![r] = [T(d) EXCEPT !.pc = "skip"]]
          \/ tick' = [tick EXCEPT ![r] = CheckCap(T(d))]
    BY <1>2 DEF CheckRow
  <2>2. tick[r] \in Ticks /\ d \in DueRow /\ tick[r].due \ {d} \in SUBSET DueRow
    BY <1>0 DEF TickType, Ticks
  <2>3. T(d) \in TickType /\ T(d).row = d
    <3>1. T(d) \in Ticks /\ T(d).row = d
      BY <2>2 DEF Ticks
    <3> QED
      BY <2>2, <3>1 DEF TickType
  <2> HIDE DEF T
  <2>4. /\ NextRow(T(d)) \in TickType
        /\ [T(d) EXCEPT !.pc = "skip"] \in TickType
        /\ CheckCap(T(d)) \in TickType
    BY <2>2, <2>3, NextRowType, TickStepType, CheckCapType
  <2>5. tick' \in [Replicas -> TickType]
    BY <2>1, <2>4 DEF TypeInv
  <2>6. faults' \in 0..MaxFaults
    <3>1. UNCHANGED faults \/ Fault
      BY <1>2 DEF CheckRow
    <3> QED
      BY <3>1, ConstantsAssumption DEF Fault, TypeInv
  <2> QED
    BY <1>2, <2>5, <2>6 DEF CheckRow, TypeInv
<1>3. ASSUME NEW r \in Replicas, SkipCampaignLead(r) PROVE TypeInv'
  <2>1. tick' \in [Replicas -> TickType]
    BY <1>0, <1>3 DEF SkipCampaignLead, TypeInv
  <2>2. campaign_leads' \in [Rows -> LeadRow]
    <3> DEFINE l == tick[r].row.id
               row == [campaign_leads[l] EXCEPT !.status = IF @ = "absent" THEN @
                                                           ELSE "blocked"]
    <3>1. l \in Rows
      BY <1>3, RowCampaign DEF SkipCampaignLead
    <3>2. campaign_leads[l] \in LeadRow
      BY <3>1, LeadsType
    <3>3. row \in LeadRow
      BY <3>2, LeadRowType, StatusType
    <3>4. CASE campaign_leads' = [campaign_leads EXCEPT ![l] = row]
      <4> HIDE DEF row, l
      <4> QED
        BY <3>1, <3>3, <3>4, LeadsType
    <3>5. CASE UNCHANGED campaign_leads
      BY <3>5 DEF TypeInv
    <3> QED
      BY <1>3, <3>4, <3>5 DEF SkipCampaignLead
  <2>3. faults' \in 0..MaxFaults
    BY <1>3, ConstantsAssumption DEF SkipCampaignLead, Fault, TypeInv
  <2> QED
    BY <1>3, <2>1, <2>2, <2>3 DEF SkipCampaignLead, TypeInv
<1>4. ASSUME NEW r \in Replicas, TryAcquire(r) PROVE TypeInv'
  <2> DEFINE c == CampaignOf[tick[r].row.id]
             s == [cap |-> Wanted(tick[r].row), len |-> 0]
  <2>1. tick[r].row \in DueRow /\ c \in Campaigns
    BY <1>4, RowCampaign DEF TryAcquire
  <2>2. s \in Sem
    BY <2>1 DEF Wanted, DueRow, Sem
  <2>3. sems' = sems \/ sems' = [sems EXCEPT ![r][c] = s]
    BY <1>4 DEF TryAcquire
  <2> HIDE DEF c, s
  <2>4. sems' \in [Replicas -> [Campaigns -> Sem]]
    <3>1. sems \in [Replicas -> [Campaigns -> Sem]] /\ sems[r] \in [Campaigns -> Sem]
      BY DEF TypeInv
    <3>2. [sems[r] EXCEPT ![c] = s] \in [Campaigns -> Sem]
      BY <2>1, <2>2, <3>1
    <3> QED
      BY <2>3, <3>1, <3>2
  <2>5. [tick[r] EXCEPT !.pc = "send"] \in TickType
    BY <1>0, <2>1, TickStepType
  <2>6. tick' = [tick EXCEPT ![r] = [tick[r] EXCEPT !.pc = "send"]]
    BY <1>4 DEF TryAcquire
  <2>7. tick' \in [Replicas -> TickType]
    BY <2>5, <2>6 DEF TypeInv
  <2> QED
    BY <1>4, <2>4, <2>7 DEF TryAcquire, TypeInv
<1>5. ASSUME NEW r \in Replicas, SendToken(r) PROVE TypeInv'
  <2>1. tick[r].row \in DueRow /\ CampaignOf[tick[r].row.id] \in Campaigns
    BY <1>5, RowCampaign DEF SendToken
  <2>2. sems' \in [Replicas -> [Campaigns -> Sem]]
    <3>1. CASE sems' = sems
      BY <3>1 DEF TypeInv
    <3>2. CASE sems' = [sems EXCEPT ![r][CampaignOf[tick[r].row.id]].len = @ + 1]
      BY <3>2, <2>1, SendType
    <3> QED
      BY <1>5, <3>1, <3>2 DEF SendToken
  <2> DEFINE t == [tick[r] EXCEPT !.pc = "mark", !.count = tick[r].count + 1]
  <2>3. t \in TickType
    <3>1. tick[r] \in TickType
      BY <1>0
    <3>2. tick[r].count \in Int
      BY <3>1, TickStepType
    <3>3. tick[r].count + 1 \in Int
      BY <3>2
    <3> HIDE DEF t
    <3> QED
      BY <2>1, <3>1, <3>3, TickStepType DEF t
  <2>4. tick' \in [Replicas -> TickType]
    <3>1. CASE tick' = [tick EXCEPT ![r] = NextRow(@)]
      BY <3>1, <1>0 DEF TypeInv
    <3>2. CASE tick' = [tick EXCEPT ![r] = t]
      <4> HIDE DEF t
      <4> QED
        BY <3>2, <2>3 DEF TypeInv
    <3>3. tick' = [tick EXCEPT ![r] = NextRow(@)] \/ tick' = [tick EXCEPT ![r] = t]
      BY <1>5 DEF SendToken
    <3> QED
      BY <3>1, <3>2, <3>3
  <2> QED
    BY <1>5, <2>2, <2>4 DEF SendToken, TypeInv
<1>6. ASSUME NEW r \in Replicas, MarkDispatched(r) PROVE TypeInv'
  <2> DEFINE l == tick[r].row.id
             c == CampaignOf[l]
  <2>1. l \in Rows /\ c \in Campaigns
    BY <1>6, RowCampaign DEF MarkDispatched
  <2>2. PICK k \in Calls :
          /\ calls' = [calls EXCEPT ![k] = [@ EXCEPT !.status = "queued", !.row = l]]
          /\ inFlight' = [inFlight EXCEPT ![r][k] = c]
          /\ dial' = [dial EXCEPT ![k] = [pc |-> "session", at |-> r]]
    BY <1>6 DEF MarkDispatched
  <2>3. campaign_leads' = campaign_leads
          \/ campaign_leads' = [campaign_leads EXCEPT ![l] = Dispatched(@)]
    BY <1>6 DEF MarkDispatched
  <2> HIDE DEF l, c
  <2>4. calls' \in [Calls -> CallRow]
    <3>1. [calls[k] EXCEPT !.status = "queued", !.row = l] \in CallRow
      BY <2>1, CallsType, CallRowType, StatusType
    <3> QED
      BY <2>2, <3>1, CallsType
  <2>5. inFlight' \in [Replicas -> [Calls -> Campaigns \cup {None}]]
    BY <2>1, <2>2 DEF TypeInv
  <2>6. [pc |-> "session", at |-> r] \in DialType
    BY ConstantsAssumption DEF DialType
  <2>7. dial' \in [Calls -> DialType]
    BY <2>2, <2>6 DEF TypeInv
  <2>8. campaign_leads' \in [Rows -> LeadRow]
    <3>1. Dispatched(campaign_leads[l]) \in LeadRow
      BY <2>1, LeadsType, LeadRowType, StatusType DEF Dispatched
    <3>2. CASE campaign_leads' = campaign_leads
      BY <3>2 DEF TypeInv
    <3>3. CASE campaign_leads' = [campaign_leads EXCEPT ![l] = Dispatched(@)]
      BY <2>1, <3>1, <3>3, LeadsType
    <3> QED
      BY <2>3, <3>2, <3>3
  <2>9. tick' \in [Replicas -> TickType]
    BY <1>0, <1>6 DEF MarkDispatched, TypeInv
  <2> QED
    BY <1>6, <2>4, <2>5, <2>7, <2>8, <2>9 DEF MarkDispatched, TypeInv
<1>7. ASSUME NEW r \in Replicas, MarkFailed(r) PROVE TypeInv'
  <2>1. CampaignOf[tick[r].row.id] \in Campaigns
    BY <1>7, RowCampaign DEF MarkFailed
  <2>2. sems' \in [Replicas -> [Campaigns -> Sem]]
    BY <1>7, <2>1, ReceiveType DEF MarkFailed
  <2>3. tick' \in [Replicas -> TickType]
    BY <1>0, <1>7 DEF MarkFailed, TypeInv
  <2>4. faults' \in 0..MaxFaults
    BY <1>7, ConstantsAssumption DEF MarkFailed, Fault, TypeInv
  <2> QED
    BY <1>7, <2>2, <2>3, <2>4 DEF MarkFailed, TypeInv
<1>8. ASSUME NEW r \in Replicas, TestCall(r) PROVE TypeInv'
  <2>1. PICK k \in Calls :
          /\ calls' = [calls EXCEPT ![k].status = "queued"]
          /\ dial' = [dial EXCEPT ![k] = [pc |-> "session", at |-> r]]
    BY <1>8 DEF TestCall
  <2>2. calls' \in [Calls -> CallRow]
    <3>1. [calls[k] EXCEPT !.status = "queued"] \in CallRow
      BY CallsType, CallRowType, StatusType
    <3> QED
      BY <2>1, <3>1, CallsType
  <2>3. [pc |-> "session", at |-> r] \in DialType
    BY ConstantsAssumption DEF DialType
  <2>4. dial' \in [Calls -> DialType]
    BY <2>1, <2>3 DEF TypeInv
  <2> QED
    BY <1>8, <2>2, <2>4 DEF TestCall, TypeInv
<1>9. ASSUME NEW k \in Calls, DialSession(k) PROVE TypeInv'
  <2>1. dial' \in [Calls -> DialType]
    BY <1>9, DialAtType DEF DialSession
  <2>2. calls' \in [Calls -> CallRow]
    <3>1. CASE UNCHANGED calls
      BY <3>1 DEF TypeInv
    <3>2. CASE calls' = [calls EXCEPT ![k].voice_session_id = k]
      <4>1. [calls[k] EXCEPT !.voice_session_id = k] \in CallRow
        BY CallsType, CallRowType, StatusType
      <4> QED
        BY <3>2, <4>1, CallsType
    <3> QED
      BY <1>9, <3>1, <3>2 DEF DialSession
  <2> QED
    BY <1>9, <2>1, <2>2 DEF DialSession, TypeInv
<1>10. ASSUME NEW k \in Calls, DialOriginate(k) PROVE TypeInv'
  <2>1. dial' \in [Calls -> DialType]
    BY <1>10, DialAtType DEF DialOriginate
  <2>2. chan' \in [Calls -> {"none", "ringing", "up", "gone"}]
    BY <1>10 DEF DialOriginate, TypeInv
  <2>3. faults' \in 0..MaxFaults
    BY <1>10, ConstantsAssumption DEF DialOriginate, Fault, TypeInv
  <2> QED
    BY <1>10, <2>1, <2>2, <2>3 DEF DialOriginate, TypeInv
<1>11. ASSUME NEW k \in Calls, UpdateCallChannel(k) PROVE TypeInv'
  <2>1. dial' \in [Calls -> DialType]
    BY <1>11, DialAtType DEF UpdateCallChannel
  <2>2. calls' \in [Calls -> CallRow]
    <3>1. CASE UNCHANGED calls
      BY <3>1 DEF TypeInv
    <3>2. CASE calls' = [calls EXCEPT ![k] = [@ EXCEPT !.channel_id = k,
                                                       !.status = "dialing"]]
      <4>1. [calls[k] EXCEPT !.channel_id = k, !.status = "dialing"] \in CallRow
        BY CallsType, CallRowType, StatusType
      <4> QED
        BY <3>2, <4>1, CallsType
    <3> QED
      BY <1>11, <3>1, <3>2 DEF UpdateCallChannel
  <2>3. faults' \in 0..MaxFaults
    BY <1>11, ConstantsAssumption DEF UpdateCallChannel, Fault, TypeInv
  <2> QED
    BY <1>11, <2>1, <2>2, <2>3 DEF UpdateCallChannel, TypeInv
<1>12. ASSUME NEW k \in Calls, DialFailed(k) PROVE TypeInv'
  <2>1. dial' \in [Calls -> DialType]
    BY <1>12, DialAtType DEF DialFailed
  <2>2. calls' \in [Calls -> CallRow]
    <3> DEFINE s == IF calls[k].status = "queued" THEN "skipped" ELSE calls[k].status
    <3>1. s \in CallStatus
      BY CallsType, CallRowType, StatusType
    <3>2. CASE calls' = [calls EXCEPT ![k] = [calls[k] EXCEPT !.status = s]]
      <4> HIDE DEF s
      <4>1. [calls[k] EXCEPT !.status = s] \in CallRow
        BY <3>1, CallsType, CallRowType
      <4> QED
        BY <3>2, <4>1, CallsType
    <3>3. CASE UNCHANGED calls
      BY <3>3 DEF TypeInv
    <3> QED
      BY <1>12, <3>2, <3>3 DEF DialFailed
  <2>3. faults' \in 0..MaxFaults
    BY <1>12, ConstantsAssumption DEF DialFailed, Fault, TypeInv
  <2> QED
    BY <1>12, <2>1, <2>2, <2>3 DEF DialFailed, TypeInv
<1>13. ASSUME NEW k \in Calls, DialRelease(k) PROVE TypeInv'
  <2>1. dial' \in [Calls -> DialType] /\ dial[k].at \in Replicas
    BY <1>13, DialAtType DEF DialRelease
  <2>2. /\ inFlight' \in [Replicas -> [Calls -> Campaigns \cup {None}]]
        /\ draining' \in [Replicas -> [Calls -> Campaigns \cup {None}]]
    <3>1. CASE UNCHANGED <<inFlight, draining>>
      BY <3>1 DEF TypeInv
    <3>2. CASE DropEntry(dial[k].at, k)
      BY <2>1, <3>2, DropEntryType
    <3> QED
      BY <1>13, <3>1, <3>2 DEF DialRelease
  <2> QED
    BY <1>13, <2>1, <2>2 DEF DialRelease, TypeInv
<1>14. ASSUME NEW k \in Calls, DialDrain(k) PROVE TypeInv'
  <2>1. dial' \in [Calls -> DialType] /\ dial[k].at \in Replicas
    BY <1>14, DialAtType DEF DialDrain
  <2>2. /\ sems' \in [Replicas -> [Campaigns -> Sem]]
        /\ draining' \in [Replicas -> [Calls -> Campaigns \cup {None}]]
    BY <1>14, <2>1, DrainTokenType DEF DialDrain
  <2> QED
    BY <1>14, <2>1, <2>2 DEF DialDrain, TypeInv
<1>15. ASSUME NEW k \in Calls, ChannelAnswers(k) PROVE TypeInv'
  <2>1. Ev("StasisStart", k, "completed") \in Event
    BY DEF Ev, Event
  <2>2. events' \in Seq(Event)
    BY <1>15, <2>1 DEF ChannelAnswers, TypeInv
  <2>3. chan' \in [Calls -> {"none", "ringing", "up", "gone"}]
    BY <1>15 DEF ChannelAnswers, TypeInv
  <2> QED
    BY <1>15, <2>2, <2>3 DEF ChannelAnswers, TypeInv
<1>16. ASSUME NEW k \in Calls, ChannelEnds(k) PROVE TypeInv'
  <2>1. \A status \in {"completed", "failed"} :
          Ev("ChannelDestroyed", k, status) \in Event
    BY DEF Ev, Event
  <2>2. events' \in Seq(Event)
    BY <1>16, <2>1 DEF ChannelEnds, TypeInv
  <2>3. chan' \in [Calls -> {"none", "ringing", "up", "gone"}]
    BY <1>16 DEF ChannelEnds, TypeInv
  <2> QED
    BY <1>16, <2>2, <2>3 DEF ChannelEnds, TypeInv
<1>17. ASSUME NEW r \in Replicas, StasisStart(r) PROVE TypeInv'
  <2> DEFINE ch == Head(events).ch
  <2>1. ch \in Calls /\ Tail(events) \in Seq(Event)
    BY <1>17, EventType DEF StasisStart, NextEvent
  <2>2. CASE FindCallByChannel(ch) = {}
    <3>1. /\ chan' \in [Calls -> {"none", "ringing", "up", "gone"}]
          /\ events' \in Seq(Event)
          /\ faults' \in 0..MaxFaults
      BY <1>17, <2>1, <2>2, HangupType DEF StasisStart
    <3> QED
      BY <1>17, <2>2, <3>1 DEF StasisStart, TypeInv
  <2>3. CASE FindCallByChannel(ch) # {}
    <3>1. PICK k \in FindCallByChannel(ch) :
            handler' = [handler EXCEPT ![r] =
              [IdleHandler EXCEPT !.pc = "bridge", !.ch = ch, !.call = k]]
      BY <1>17, <2>3 DEF StasisStart
    <3>2. k \in Calls
      BY <3>1 DEF FindCallByChannel
    <3>3. [IdleHandler EXCEPT !.pc = "bridge", !.ch = ch, !.call = k] \in HandlerType
      BY <2>1, <3>2, ConstantsAssumption DEF IdleHandler, HandlerType, Handlers
    <3>4. handler' \in [Replicas -> HandlerType]
      BY <3>1, <3>3 DEF TypeInv
    <3> QED
      BY <1>17, <2>1, <2>3, <3>4 DEF StasisStart, TypeInv
  <2> QED
    BY <2>2, <2>3
<1>18. ASSUME NEW r \in Replicas, StasisBridge(r) PROVE TypeInv'
  <2>1. handler' \in [Replicas -> HandlerType]
    BY <1>18, IdleType DEF StasisBridge, TypeInv
  <2>2. handler[r].ch \in Calls /\ handler[r].call \in Calls
    <3>1. handler[r] \in HandlerType
      BY DEF TypeInv
    <3> QED
      BY <1>18, <3>1 DEF StasisBridge, HandlerType, Handlers
  <2>3. /\ chan' \in [Calls -> {"none", "ringing", "up", "gone"}]
        /\ events' \in Seq(Event)
        /\ faults' \in 0..MaxFaults
    <3>1. CASE HangupChannel(handler[r].ch, events)
      <4>1. events \in Seq(Event)
        BY DEF TypeInv
      <4> QED
        BY <2>2, <3>1, <4>1, HangupType
    <3>2. CASE UNCHANGED <<chan, events>> /\ (UNCHANGED faults \/ Fault)
      BY <3>2, ConstantsAssumption DEF TypeInv, Fault
    <3> QED
      BY <1>18, <3>1, <3>2 DEF StasisBridge
  <2>4. calls' \in [Calls -> CallRow]
    <3> DEFINE k == handler[r].call
    <3>1. CASE UNCHANGED calls
      BY <3>1 DEF TypeInv
    <3>2. CASE calls' = [calls EXCEPT ![k].status = "answered"]
      <4>1. [calls[k] EXCEPT !.status = "answered"] \in CallRow
        BY <2>2, CallsType, CallRowType, StatusType
      <4> QED
        BY <2>2, <3>2, <4>1, CallsType
    <3> QED
      BY <1>18, <3>1, <3>2 DEF StasisBridge
  <2> QED
    BY <1>18, <2>1, <2>3, <2>4 DEF StasisBridge, TypeInv
<1>19. ASSUME NEW r \in Replicas, ChannelDestroyed(r) PROVE TypeInv'
  <2> DEFINE ev == Head(events)
  <2>1. ev.ch \in Calls /\ ev.status \in {"completed", "failed"}
           /\ Tail(events) \in Seq(Event)
    BY <1>19, EventType DEF ChannelDestroyed, NextEvent
  <2>2. PICK k \in Calls \cup {None} :
          /\ UNCHANGED faults \/ Fault
          /\ handler' = [handler EXCEPT ![r] =
               [pc |-> "finish", ch |-> ev.ch, call |-> k, status |-> ev.status]]
    BY <1>19 DEF ChannelDestroyed, FindCallByChannel
  <2> HIDE DEF ev
  <2>3. [pc |-> "finish", ch |-> ev.ch, call |-> k, status |-> ev.status] \in HandlerType
    BY <2>1, ConstantsAssumption DEF HandlerType, Handlers
  <2>4. handler' \in [Replicas -> HandlerType]
    BY <2>2, <2>3 DEF TypeInv
  <2>5. faults' \in 0..MaxFaults
    BY <2>2, ConstantsAssumption DEF Fault, TypeInv
  <2> QED
    BY <1>19, <2>1, <2>4, <2>5 DEF ChannelDestroyed, TypeInv
<1>20. ASSUME NEW r \in Replicas, FinishCall(r) PROVE TypeInv'
  <2>1. handler[r] \in HandlerType
    BY DEF TypeInv
  <2>2. (IF handler[r].call = None THEN IdleHandler
         ELSE [handler[r] EXCEPT !.pc = "release"]) \in HandlerType
    BY <2>1, IdleType DEF HandlerType, Handlers
  <2>3. handler' \in [Replicas -> HandlerType]
    BY <1>20, <2>2 DEF FinishCall, TypeInv
  <2>4. handler[r].status \in CallStatus
    BY <2>1 DEF HandlerType, Handlers, CallStatus
  <2>5. calls' \in [Calls -> CallRow]
    <3>1. CASE UNCHANGED calls
      BY <3>1 DEF TypeInv
    <3>2. CASE calls' = [k \in Calls |->
                           IF calls[k].channel_id = handler[r].ch
                           THEN [calls[k] EXCEPT !.status = handler[r].status]
                           ELSE calls[k]]
      <4>1. \A k \in Calls : /\ calls[k] \in CallRow
                             /\ [calls[k] EXCEPT !.status = handler[r].status] \in CallRow
        BY <2>4, CallsType, CallRowType
      <4> QED
        BY <3>2, <4>1
    <3> QED
      BY <1>20, <3>1, <3>2 DEF FinishCall
  <2>6. faults' \in 0..MaxFaults
    BY <1>20, ConstantsAssumption DEF FinishCall, Fault, TypeInv
  <2> QED
    BY <1>20, <2>3, <2>5, <2>6 DEF FinishCall, TypeInv
<1>21. ASSUME NEW r \in Replicas, HandlerRelease(r) PROVE TypeInv'
  <2>1. handler[r] \in HandlerType
    BY DEF TypeInv
  <2>2. handler[r].call \in Calls /\ [handler[r] EXCEPT !.pc = "drain"] \in HandlerType
    BY <1>21, <2>1 DEF HandlerRelease, HandlerType, Handlers
  <2>3. handler' \in [Replicas -> HandlerType]
    BY <1>21, <2>2, IdleType DEF HandlerRelease, TypeInv
  <2>4. /\ inFlight' \in [Replicas -> [Calls -> Campaigns \cup {None}]]
        /\ draining' \in [Replicas -> [Calls -> Campaigns \cup {None}]]
    <3>1. CASE UNCHANGED <<inFlight, draining>>
      BY <3>1 DEF TypeInv
    <3>2. CASE DropEntry(r, handler[r].call)
      BY <2>2, <3>2, DropEntryType
    <3> QED
      BY <1>21, <3>1, <3>2 DEF HandlerRelease
  <2> QED
    BY <1>21, <2>3, <2>4 DEF HandlerRelease, TypeInv
<1>22. ASSUME NEW r \in Replicas, HandlerDrain(r) PROVE TypeInv'
  <2>1. handler[r] \in HandlerType
    BY DEF TypeInv
  <2>2. handler[r].call \in Calls
    BY <1>22, <2>1 DEF HandlerDrain, HandlerType, Handlers
  <2>3. handler' \in [Replicas -> HandlerType]
    BY <1>22, IdleType DEF HandlerDrain, TypeInv
  <2>4. /\ sems' \in [Replicas -> [Campaigns -> Sem]]
        /\ draining' \in [Replicas -> [Calls -> Campaigns \cup {None}]]
    BY <1>22, <2>2, DrainTokenType DEF HandlerDrain
  <2> QED
    BY <1>22, <2>3, <2>4 DEF HandlerDrain, TypeInv
<1>23. ASSUME NEW c \in Campaigns, UpdateCampaign(c) PROVE TypeInv'
  <2>1. campaigns' \in [Campaigns -> [status: CampaignStatus, max_concurrent: Int]]
    <3> DEFINE row == [campaigns[c] EXCEPT !.status = "deleted"]
    <3>1. \A st \in {"active", "inactive"}, n \in MaxConcurrents :
            [status |-> st, max_concurrent |-> n]
              \in [status: CampaignStatus, max_concurrent: Int]
      BY ConstantsAssumption, StatusType
    <3>2. campaigns[c] \in [status: CampaignStatus, max_concurrent: Int]
      BY DEF TypeInv
    <3>3. row \in [status: CampaignStatus, max_concurrent: Int]
      BY <3>2, StatusType
    <3>4. CASE campaigns' = [campaigns EXCEPT ![c] = row]
      <4> HIDE DEF row
      <4> QED
        BY <3>3, <3>4 DEF TypeInv
    <3>5. CASE \E st \in {"active", "inactive"}, n \in MaxConcurrents :
                 campaigns' = [campaigns EXCEPT ![c] = [status |-> st,
                                                        max_concurrent |-> n]]
      BY <3>1, <3>5 DEF TypeInv
    <3> QED
      BY <1>23, <3>4, <3>5 DEF UpdateCampaign
  <2>2. campaign_leads' \in [Rows -> LeadRow]
    <3>1. CASE UNCHANGED campaign_leads
      BY <3>1 DEF TypeInv
    <3>2. CASE campaign_leads' = [l \in Rows |->
                 IF l \in Present(c) THEN [campaign_leads[l] EXCEPT !.status = "absent"]
                 ELSE campaign_leads[l]]
      <4>1. \A l \in Rows : /\ campaign_leads[l] \in LeadRow
                             /\ [campaign_leads[l] EXCEPT !.status = "absent"] \in LeadRow
        BY LeadsType, LeadRowType, StatusType
      <4> QED
        BY <3>2, <4>1
    <3> QED
      BY <1>23, <3>1, <3>2 DEF UpdateCampaign
  <2>3. ops' \in 0..MaxOps
    BY <1>23, ConstantsAssumption DEF UpdateCampaign, Op, TypeInv
  <2> QED
    BY <1>23, <2>1, <2>2, <2>3 DEF UpdateCampaign, TypeInv
<1>24. ASSUME NEW l \in Rows, RemoveLeadFromCampaign(l) PROVE TypeInv'
  <2>1. campaign_leads' \in [Rows -> LeadRow]
    <3>1. [campaign_leads[l] EXCEPT !.status = "absent"] \in LeadRow
      BY LeadsType, LeadRowType, StatusType
    <3> QED
      BY <1>24, <3>1, LeadsType DEF RemoveLeadFromCampaign
  <2> QED
    BY <1>24, <2>1, ConstantsAssumption DEF RemoveLeadFromCampaign, Op, TypeInv
<1>25. ASSUME NEW l \in Leads, AddDoNotCall(l) PROVE TypeInv'
  BY <1>25, ConstantsAssumption DEF AddDoNotCall, Op, TypeInv
<1>26. ASSUME NEW l \in Leads, RemoveDoNotCall(l) PROVE TypeInv'
  <2>1. dncStable' \in [Replicas -> SUBSET Leads]
    BY <1>26 DEF RemoveDoNotCall, TypeInv
  <2> QED
    BY <1>26, <2>1, ConstantsAssumption DEF RemoveDoNotCall, Op, TypeInv
<1>27. CASE CloseWindow
  BY <1>27, ConstantsAssumption DEF CloseWindow, Op, TypeInv
<1>28. CASE OpenWindow
  BY <1>28 DEF OpenWindow, TypeInv
<1>29. CASE LoseEvents
  BY <1>29, ConstantsAssumption DEF LoseEvents, Fault, TypeInv
<1>30. ASSUME NEW r \in Replicas, Restart(r) PROVE TypeInv'
  <2>1. \A k \in Calls : [dial[k] EXCEPT !.pc = "done"] \in DialType \/ dial[k].at # r
    <3> TAKE k \in Calls
    <3>1. dial[k] \in DialType /\ r # None
      BY ConstantsAssumption DEF TypeInv
    <3> QED
      BY <3>1 DEF DialType
  <2>2. dial' \in [Calls -> DialType]
    BY <1>30, <2>1 DEF Restart, TypeInv
  <2>3. sems' \in [Replicas -> [Campaigns -> Sem]]
    BY <1>30 DEF Restart, TypeInv, NoSem, Sem
  <2>4. tick' \in [Replicas -> TickType] /\ handler' \in [Replicas -> HandlerType]
    BY <1>30, IdleType DEF Restart, TypeInv
  <2>5. /\ inFlight' \in [Replicas -> [Calls -> Campaigns \cup {None}]]
        /\ draining' \in [Replicas -> [Calls -> Campaigns \cup {None}]]
        /\ faults' \in 0..MaxFaults
        /\ events' \in Seq(Event)
    BY <1>30, ConstantsAssumption DEF Restart, TypeInv, Fault
  <2> QED
    BY <1>30, <2>2, <2>3, <2>4, <2>5 DEF Restart, TypeInv
<1>31. ASSUME NEW c \in Campaigns, AddLeadsToCampaign(c) PROVE TypeInv'
  <2>1. campaign_leads' \in [Rows -> LeadRow]
    BY <1>31, LeadsType, NewRowType DEF AddLeadsToCampaign
  <2> QED
    BY <1>31, <2>1, ConstantsAssumption DEF AddLeadsToCampaign, Op, TypeInv
<1>32. CASE UNCHANGED vars
  BY <1>32 DEF vars, TypeInv
<1> QED
  BY <1>1, <1>2, <1>3, <1>4, <1>5, <1>6, <1>7, <1>8, <1>9, <1>10, <1>11, <1>12,
     <1>13, <1>14, <1>15, <1>16, <1>17, <1>18, <1>19, <1>20, <1>21, <1>22, <1>23,
     <1>24, <1>25, <1>26, <1>27, <1>28, <1>29, <1>30, <1>31, <1>32
     DEF Next, Worker, Dialer, ARILoop, Portal

LEMMA TypeInit == Init => TypeInv
<1> SUFFICES ASSUME Init PROVE TypeInv
  OBVIOUS
<1>1. campaigns \in [Campaigns -> [status: CampaignStatus, max_concurrent: Int]]
  BY ConstantsAssumption DEF Init, CampaignStatus
<1>2. campaign_leads \in [Rows -> LeadRow]
  BY NewRowType DEF Init
<1>3. calls \in [Calls -> CallRow]
  BY DEF Init, NoCall, CallRow, CallStatus
<1>4. tick \in [Replicas -> TickType] /\ handler \in [Replicas -> HandlerType]
  BY IdleType DEF Init
<1>5. sems \in [Replicas -> [Campaigns -> Sem]]
  BY DEF Init, NoSem, Sem
<1>6. dial \in [Calls -> DialType]
  BY DEF Init, DialType
<1> QED
  BY <1>1, <1>2, <1>3, <1>4, <1>5, <1>6, ConstantsAssumption DEF Init, TypeInv

\* Type correctness of the dispatcher, the dialer and the ARI loop together:
\* every reachable state of CampaignDispatch satisfies TypeOK.
THEOREM TypeCorrect == Spec => []TypeOK
<1>1. Spec => []TypeInv
  BY TypeInit, TypeStep, PTL DEF Spec
<1> QED
  BY <1>1, TypeInvEquiv, PTL

-----------------------------------------------------------------------------
(* The token accounting of the worker's semaphores, for any number of      *)
(* replicas, campaigns and calls, and under every fault the model has.     *)

\* A call is tracked or being released in a replica, never both.
OneEntry ==
    \A r \in Replicas, k \in Calls : inFlight[r][k] = None \/ draining[r][k] = None

\* An id the calls table has not handed out holds no slot anywhere.
FreshFree ==
    \A r \in Replicas, k \in Calls :
        calls[k].status = "none" => inFlight[r][k] = None /\ draining[r][k] = None

\* SlotAccounting made inductive.
SlotInv == TypeInv /\ OneEntry /\ FreshFree /\ SlotAccounting

\* No statement makes a call id fresh again.
LEMMA FreshStep ==
    ASSUME TypeInv, [Next]_vars, NEW k \in Calls, calls'[k].status = "none"
    PROVE  calls[k].status = "none"
<1> USE DEF dbVars, slotVars, astVars
<1>0. calls \in [Calls -> CallRow]
  BY DEF TypeInv
<1>1. ASSUME NEW j \in Calls, NEW row \in CallRow, calls' = [calls EXCEPT ![j] = row],
             row.status # "none"
      PROVE  calls[k].status = "none"
  BY <1>0, <1>1
<1>2. ASSUME NEW r \in Replicas, Worker(r) PROVE calls[k].status = "none"
  <2>1. CASE MarkDispatched(r)
    <3>1. PICK j \in Calls : calls' = [calls EXCEPT ![j] =
                               [@ EXCEPT !.status = "queued", !.row = tick[r].row.id]]
      BY <2>1 DEF MarkDispatched
    <3> DEFINE row == [calls[j] EXCEPT !.status = "queued", !.row = tick[r].row.id]
    <3>2. tick[r].row.id \in Rows
      BY <2>1, RowCampaign DEF MarkDispatched
    <3>3. row \in CallRow /\ row.status = "queued"
      BY <1>0, <3>2 DEF CallRow, CallStatus
    <3> QED
      BY <1>1, <3>1, <3>3
  <2>2. CASE UNCHANGED calls
    BY <2>2
  <2> QED
    BY <1>2, <2>1, <2>2 DEF Worker, StartTick, CheckRow, SkipCampaignLead, TryAcquire,
       SendToken, MarkFailed
<1>3. ASSUME NEW r \in Replicas, TestCall(r) PROVE calls[k].status = "none"
  <2>1. PICK j \in Calls : calls' = [calls EXCEPT ![j].status = "queued"]
    BY <1>3 DEF TestCall
  <2> QED
    BY <1>0, <2>1 DEF CallRow
<1>4. ASSUME NEW j \in Calls, Dialer(j) PROVE calls[k].status = "none"
  <2>1. CASE DialSession(j)
    BY <1>0, <2>1 DEF DialSession, CallRow
  <2>2. CASE UpdateCallChannel(j)
    BY <1>0, <2>2 DEF UpdateCallChannel, CallRow
  <2>3. CASE DialFailed(j)
    BY <1>0, <2>3 DEF DialFailed, CallRow
  <2>4. CASE UNCHANGED calls
    BY <2>4
  <2> QED
    BY <1>4, <2>1, <2>2, <2>3, <2>4 DEF Dialer, DialOriginate, DialRelease, DialDrain
<1>5. ASSUME NEW r \in Replicas, ARILoop(r) PROVE calls[k].status = "none"
  <2>0. handler[r] \in HandlerType
    BY DEF TypeInv
  <2>1. CASE StasisBridge(r)
    BY <1>0, <2>1 DEF StasisBridge, CallRow
  <2>2. CASE FinishCall(r)
    <3>1. handler[r].status # "none"
      BY <2>0 DEF HandlerType, Handlers
    <3> QED
      BY <1>0, <2>2, <3>1 DEF FinishCall, CallRow
  <2>3. CASE UNCHANGED calls
    BY <2>3
  <2> QED
    BY <1>5, <2>1, <2>2, <2>3 DEF ARILoop, StasisStart, ChannelDestroyed,
       HandlerRelease, HandlerDrain
<1>6. CASE UNCHANGED calls
  BY <1>6
<1>7. \/ \E r \in Replicas : Worker(r) \/ TestCall(r) \/ ARILoop(r)
      \/ \E j \in Calls : Dialer(j)
      \/ UNCHANGED calls
  BY DEF Next, Portal, Restart, ChannelAnswers, ChannelEnds, UpdateCampaign,
     RemoveLeadFromCampaign, AddLeadsToCampaign, AddDoNotCall, RemoveDoNotCall, CloseWindow, OpenWindow,
     LoseEvents, vars
<1> QED
  BY <1>2, <1>3, <1>4, <1>5, <1>6, <1>7

\* Holders is a finite set: it can be counted, and one call more or less counts.
LEMMA HoldersFinite ==
    ASSUME NEW r \in Replicas, NEW c \in Campaigns
    PROVE  /\ IsFiniteSet(Holders(r, c)) /\ Cardinality(Holders(r, c)) \in Nat
           /\ IsFiniteSet(Holders(r, c)') /\ Cardinality(Holders(r, c)') \in Nat
<1>1. Holders(r, c) \subseteq Calls /\ Holders(r, c)' \subseteq Calls
  BY DEF Holders
<1>2. IsFiniteSet(Holders(r, c)) /\ IsFiniteSet(Holders(r, c)')
  BY <1>1, ConstantsAssumption, FS_Subset
<1> QED
  BY <1>2, FS_CardinalityType

LEMMA HoldersAdd ==
    ASSUME NEW r \in Replicas, NEW c \in Campaigns, NEW k \in Calls,
           k \notin Holders(r, c), Holders(r, c)' = Holders(r, c) \cup {k}
    PROVE  Cardinality(Holders(r, c)') = Cardinality(Holders(r, c)) + 1
<1> DEFINE S == Holders(r, c)
<1>1. IsFiniteSet(S)
  BY HoldersFinite
<1>2. Cardinality(S \cup {k}) = Cardinality(S) + 1
  <2> HIDE DEF S
  <2>1. Cardinality(S \cup {k}) = IF k \in S THEN Cardinality(S) ELSE Cardinality(S) + 1
    BY <1>1, FS_AddElement
  <2> QED
    BY <2>1 DEF S
<1> QED
  BY <1>2

LEMMA HoldersRemove ==
    ASSUME NEW r \in Replicas, NEW c \in Campaigns, NEW k \in Calls,
           k \in Holders(r, c), Holders(r, c)' = Holders(r, c) \ {k}
    PROVE  /\ Cardinality(Holders(r, c)') = Cardinality(Holders(r, c)) - 1
           /\ Cardinality(Holders(r, c)) > 0
<1> DEFINE S == Holders(r, c)
<1>1. IsFiniteSet(S) /\ Cardinality(S) \in Nat /\ Cardinality(S \ {k}) \in Nat
  BY HoldersFinite
<1>2. Cardinality(S \ {k}) = Cardinality(S) - 1
  <2> HIDE DEF S
  <2>1. Cardinality(S \ {k}) = IF k \in S THEN Cardinality(S) - 1 ELSE Cardinality(S)
    BY <1>1, FS_RemoveElement
  <2> QED
    BY <2>1 DEF S
<1> QED
  BY <1>1, <1>2

\* A step that touches neither the semaphores nor the maps nor the worker's
\* hold on a token keeps the accounts.
LEMMA SlotFrame ==
    ASSUME SlotInv, TypeInv', UNCHANGED <<sems, inFlight, draining>>,
           \A r \in Replicas, c \in Campaigns : Acquired(r, c)' = Acquired(r, c),
           \A k \in Calls : calls'[k].status = "none" => calls[k].status = "none"
    PROVE  SlotInv'
<1>1. OneEntry' /\ FreshFree'
  BY DEF SlotInv, OneEntry, FreshFree
<1>2. \A r \in Replicas, c \in Campaigns : Holders(r, c)' = Holders(r, c)
  BY DEF Holders
<1>3. SlotAccounting'
  BY <1>2 DEF SlotInv, SlotAccounting
<1> QED
  BY <1>1, <1>3 DEF SlotInv

\* The worker has no token between rows.
LEMMA NextRowNoToken ==
    ASSUME NEW t \in TickType
    PROVE  NextRow(t).pc # "mark"
BY DEF NextRow, TickType, Ticks, IdleTick

\* What a step of replica r's worker means for the tokens it is about to use.
LEMMA TickEffect ==
    ASSUME TypeInv, NEW r \in Replicas, NEW t, tick' = [tick EXCEPT ![r] = t]
    PROVE  \A q \in Replicas, c \in Campaigns :
             Acquired(q, c)' =
               IF q = r THEN IF t.pc = "mark" /\ CampaignOf[t.row.id] = c THEN 1 ELSE 0
               ELSE Acquired(q, c)
<1>1. tick \in [Replicas -> TickType]
  BY DEF TypeInv
<1> QED
  BY <1>1 DEF Acquired

\* The steps of a release: the entry goes from the map to the local variable...
LEMMA DropEntryStep ==
    ASSUME SlotInv, TypeInv', NEW r \in Replicas, NEW k \in Calls,
           inFlight[r][k] # None, DropEntry(r, k), UNCHANGED <<tick, sems, calls>>
    PROVE  SlotInv'
<1>1. /\ inFlight \in [Replicas -> [Calls -> Campaigns \cup {None}]]
      /\ draining \in [Replicas -> [Calls -> Campaigns \cup {None}]]
  BY DEF SlotInv, TypeInv
<1>2. draining[r][k] = None
  BY DEF SlotInv, OneEntry
<1>3. \A q \in Replicas, j \in Calls :
        /\ inFlight'[q][j] = IF q = r /\ j = k THEN None ELSE inFlight[q][j]
        /\ draining'[q][j] = IF q = r /\ j = k THEN inFlight[r][k] ELSE draining[q][j]
  BY <1>1 DEF DropEntry
<1>4. OneEntry' /\ FreshFree'
  BY <1>3 DEF SlotInv, OneEntry, FreshFree
<1>5. \A q \in Replicas, c \in Campaigns : Holders(q, c)' = Holders(q, c)
  <2> TAKE q \in Replicas, c \in Campaigns
  <2>1. c # None
    BY ConstantsAssumption
  <2>2. \A j \in Calls : (inFlight'[q][j] = c \/ draining'[q][j] = c)
                          <=> (inFlight[q][j] = c \/ draining[q][j] = c)
    BY <1>2, <1>3, <2>1
  <2> QED
    BY <2>2 DEF Holders
<1>6. SlotAccounting'
  BY <1>5 DEF SlotInv, SlotAccounting, Acquired
<1> QED
  BY <1>4, <1>6 DEF SlotInv

\* ... and the receive takes the call's own token out of the semaphore.
LEMMA DrainTokenStep ==
    ASSUME SlotInv, TypeInv', NEW r \in Replicas, NEW k \in Calls,
           DrainToken(r, k), UNCHANGED <<tick, inFlight, calls>>
    PROVE  SlotInv'
<1>0. TypeInv
  BY DEF SlotInv
<1>1. /\ inFlight \in [Replicas -> [Calls -> Campaigns \cup {None}]]
      /\ draining \in [Replicas -> [Calls -> Campaigns \cup {None}]]
      /\ sems \in [Replicas -> [Campaigns -> Sem]]
  BY <1>0 DEF TypeInv
<1>2. PICK c \in Campaigns : c = draining[r][k]
  BY <1>1 DEF DrainToken
<1>a. inFlight[r][k] = None /\ Receive(r, c)
  BY <1>2 DEF SlotInv, OneEntry, DrainToken
<1>3. \A q \in Replicas, j \in Calls :
        draining'[q][j] = IF q = r /\ j = k THEN None ELSE draining[q][j]
  BY <1>1 DEF DrainToken
<1>4. OneEntry' /\ FreshFree'
  BY <1>3 DEF SlotInv, OneEntry, FreshFree
<1>5. ASSUME NEW q \in Replicas, NEW d \in Campaigns, ~(q = r /\ d = c)
      PROVE  Holders(q, d)' = Holders(q, d)
  <2>1. \A j \in Calls : (inFlight'[q][j] = d \/ draining'[q][j] = d)
                          <=> (inFlight[q][j] = d \/ draining[q][j] = d)
    BY <1>2, <1>3, <1>5, ConstantsAssumption
  <2> QED
    BY <2>1 DEF Holders
<1>6. Holders(r, c)' = Holders(r, c) \ {k} /\ k \in Holders(r, c)
  <2>1. \A j \in Calls : (inFlight'[r][j] = c \/ draining'[r][j] = c)
                          <=> (inFlight[r][j] = c \/ draining[r][j] = c) /\ j # k
    BY <1>2, <1>3, <1>a, ConstantsAssumption
  <2> QED
    BY <1>2, <2>1 DEF Holders
<1>7. /\ Cardinality(Holders(r, c)') = Cardinality(Holders(r, c)) - 1
      /\ Cardinality(Holders(r, c)) > 0
      /\ Cardinality(Holders(r, c)) \in Nat
  BY <1>6, HoldersRemove, HoldersFinite
<1>8. \A q \in Replicas, d \in Campaigns : Acquired(q, d)' = Acquired(q, d)
  BY DEF Acquired
<1>9. ASSUME NEW q \in Replicas, NEW d \in Campaigns
      PROVE  /\ sems'[q][d].len = Cardinality(Holders(q, d)') + Acquired(q, d)'
             /\ sems'[q][d].len <= sems'[q][d].cap
  <2>1. /\ sems[q][d].len = Cardinality(Holders(q, d)) + Acquired(q, d)
        /\ sems[q][d].len <= sems[q][d].cap
        /\ sems[q][d] \in Sem
    BY <1>1 DEF SlotInv, SlotAccounting
  <2>2. sems'[q][d] = IF q = r /\ d = c /\ sems[r][c].len > 0
                      THEN [sems[r][c] EXCEPT !.len = @ - 1] ELSE sems[q][d]
    BY <1>0, <1>a, ReceiveType
  <2>3. CASE q = r /\ d = c
    <3>1. Acquired(r, c) \in {0, 1}
      BY DEF Acquired
    <3>2. sems[r][c].len > 0
      BY <1>7, <2>1, <2>3, <3>1
    <3>3. sems'[r][c].len = sems[r][c].len - 1 /\ sems'[r][c].cap = sems[r][c].cap
      BY <2>1, <2>2, <2>3, <3>2 DEF Sem
    <3> QED
      BY <1>7, <1>8, <2>1, <2>3, <3>1, <3>3 DEF Sem
  <2>4. CASE ~(q = r /\ d = c)
    BY <1>5, <1>8, <2>1, <2>2, <2>4
  <2> QED
    BY <2>3, <2>4
<1> QED
  BY <1>4, <1>9 DEF SlotInv, SlotAccounting

\* The worker's own steps.
LEMMA WorkerSlotStep ==
    ASSUME SlotInv, TypeInv', NEW r \in Replicas, Worker(r),
           \A k \in Calls : calls'[k].status = "none" => calls[k].status = "none"
    PROVE  SlotInv'
<1> USE DEF dbVars, slotVars, astVars
<1>0. /\ TypeInv
      /\ tick[r] \in TickType
      /\ sems \in [Replicas -> [Campaigns -> Sem]]
      /\ inFlight \in [Replicas -> [Calls -> Campaigns \cup {None}]]
  BY DEF SlotInv, TypeInv
<1>n. NextRow(tick[r]).pc # "mark"
  BY <1>0, NextRowNoToken
\* A step of the worker with no token before or after.
<1>1. ASSUME NEW t, tick' = [tick EXCEPT ![r] = t], tick[r].pc # "mark", t.pc # "mark"
      PROVE  \A q \in Replicas, c \in Campaigns : Acquired(q, c)' = Acquired(q, c)
  BY <1>0, <1>1, TickEffect DEF Acquired
<1>2. CASE StartTick(r)
  <2>1. PICK S : tick' = [tick EXCEPT ![r] = [IdleTick EXCEPT !.pc = "row", !.due = S]]
    BY <1>2 DEF StartTick
  <2>2. [IdleTick EXCEPT !.pc = "row", !.due = S].pc # "mark" /\ tick[r].pc # "mark"
    BY <1>2 DEF IdleTick, StartTick
  <2> QED
    BY <1>1, <1>2, <2>1, <2>2, SlotFrame DEF StartTick
<1>3. CASE CheckRow(r)
  <2> DEFINE T(d) == [tick[r] EXCEPT !.due = @ \ {d}, !.row = d]
  <2>1. PICK d \in tick[r].due :
          \/ tick' = [tick EXCEPT ![r] = NextRow(T(d))]
          \/ tick' = [tick EXCEPT ![r] = [T(d) EXCEPT !.pc = "skip"]]
          \/ tick' = [tick EXCEPT ![r] = CheckCap(T(d))]
    BY <1>3 DEF CheckRow
  <2>2. tick[r].pc = "row" /\ UNCHANGED <<sems, inFlight, draining>>
    BY <1>3 DEF CheckRow
  <2>3. /\ NextRow(T(d)).pc # "mark"
        /\ [T(d) EXCEPT !.pc = "skip"].pc # "mark"
        /\ CheckCap(T(d)).pc # "mark"
    <3>1. T(d) \in Ticks /\ T(d).pc = "row"
      BY <1>0, <2>2 DEF TickType, Ticks
    <3> HIDE DEF T
    <3> QED
      BY <3>1 DEF Ticks, NextRow, CheckCap, IdleTick
  <2> HIDE DEF T
  <2> QED
    BY <1>1, <2>1, <2>2, <2>3, SlotFrame
<1>4. CASE SkipCampaignLead(r)
  BY <1>1, <1>4, <1>n, SlotFrame DEF SkipCampaignLead
<1>5. CASE TryAcquire(r)
  <2> DEFINE t == [tick[r] EXCEPT !.pc = "send"]
  <2>1. tick' = [tick EXCEPT ![r] = t] /\ tick[r].pc # "mark"
    BY <1>5 DEF TryAcquire
  <2>2. t.pc # "mark"
    BY <1>0 DEF TickType, Ticks
  <2> HIDE DEF t
  <2>3. \A q \in Replicas, c \in Campaigns : Acquired(q, c)' = Acquired(q, c)
    BY <1>1, <2>1, <2>2
  <2>4. OneEntry' /\ FreshFree'
    BY <1>5 DEF SlotInv, OneEntry, FreshFree, TryAcquire
  <2>5. \A q \in Replicas, c \in Campaigns : Holders(q, c)' = Holders(q, c)
    BY <1>5 DEF Holders, TryAcquire
  <2>6. ASSUME NEW q \in Replicas, NEW c \in Campaigns
        PROVE  sems'[q][c].len = sems[q][c].len /\ sems'[q][c].len <= sems'[q][c].cap
    <3> DEFINE d == CampaignOf[tick[r].row.id]
               n == Wanted(tick[r].row)
    <3>1. d \in Campaigns /\ n \in Nat
      BY <1>0, <1>5, RowCampaign DEF TryAcquire, Wanted, DueRow
    <3>2. sems[q][c].len <= sems[q][c].cap
      BY DEF SlotInv, SlotAccounting
    <3>3. \/ sems' = sems
          \/ sems[r][d].len = 0 /\ sems' = [sems EXCEPT ![r][d] = [cap |-> n, len |-> 0]]
      <4>1. sems[r][d] = NoSem => sems[r][d].len = 0
        BY DEF NoSem
      <4>2. sems' = IF sems[r][d] = NoSem \/ (sems[r][d].cap # n /\ sems[r][d].len = 0)
                    THEN [sems EXCEPT ![r][d] = [cap |-> n, len |-> 0]] ELSE sems
        BY <1>5 DEF TryAcquire
      <4> HIDE DEF d, n
      <4> QED
        BY <4>1, <4>2
    <3> HIDE DEF d, n
    <3> QED
      BY <1>0, <3>1, <3>2, <3>3
  <2>7. SlotAccounting'
    BY <2>3, <2>5, <2>6 DEF SlotInv, SlotAccounting
  <2> QED
    BY <2>4, <2>7 DEF SlotInv
<1>6. CASE SendToken(r)
  <2>1. PICK c \in Campaigns : c = CampaignOf[tick[r].row.id]
    BY <1>0, <1>6, RowCampaign DEF SendToken
  <2>2. OneEntry' /\ FreshFree'
    BY <1>6 DEF SlotInv, OneEntry, FreshFree, SendToken
  <2>3. \A q \in Replicas, d \in Campaigns : Holders(q, d)' = Holders(q, d)
    BY <1>6 DEF Holders, SendToken
  <2>4. CASE sems[r][c].len < sems[r][c].cap
    <3> DEFINE t == [tick[r] EXCEPT !.pc = "mark", !.count = tick[r].count + 1]
    <3>1. tick' = [tick EXCEPT ![r] = t] /\ sems' = [sems EXCEPT ![r][c].len = @ + 1]
      BY <1>6, <2>1, <2>4 DEF SendToken
    <3>2. t.pc = "mark" /\ CampaignOf[t.row.id] = c
      BY <1>0, <2>1 DEF TickType, Ticks
    <3> HIDE DEF t
    <3>3. \A q \in Replicas, d \in Campaigns :
            Acquired(q, d)' = IF q = r THEN IF d = c THEN 1 ELSE 0 ELSE Acquired(q, d)
      BY <1>0, <3>1, <3>2, TickEffect
    <3>4. \A d \in Campaigns : Acquired(r, d) = 0
      BY <1>6 DEF SendToken, Acquired
    <3>5. ASSUME NEW q \in Replicas, NEW d \in Campaigns
          PROVE  /\ sems'[q][d].len = Cardinality(Holders(q, d)') + Acquired(q, d)'
                 /\ sems'[q][d].len <= sems'[q][d].cap
      <4>1. /\ sems[q][d].len = Cardinality(Holders(q, d)) + Acquired(q, d)
            /\ sems[q][d].len <= sems[q][d].cap
            /\ sems[q][d] \in Sem
            /\ Cardinality(Holders(q, d)) \in Nat
        BY <1>0, HoldersFinite DEF SlotInv, SlotAccounting
      <4>2. sems'[q][d] = IF q = r /\ d = c THEN [sems[r][c] EXCEPT !.len = @ + 1]
                          ELSE sems[q][d]
        BY <1>0, <3>1, SendType
      <4>3. CASE q = r /\ d = c
        <5>1. sems'[r][c].len = sems[r][c].len + 1 /\ sems'[r][c].cap = sems[r][c].cap
          BY <4>1, <4>2, <4>3 DEF Sem
        <5> QED
          BY <2>3, <2>4, <3>3, <3>4, <4>1, <4>3, <5>1 DEF Sem
      <4>4. CASE ~(q = r /\ d = c)
        BY <2>3, <3>3, <3>4, <4>1, <4>2, <4>4
      <4> QED
        BY <4>3, <4>4
    <3> QED
      BY <2>2, <3>5 DEF SlotInv, SlotAccounting
  <2>5. CASE ~(sems[r][c].len < sems[r][c].cap)
    BY <1>1, <1>6, <1>n, <2>1, <2>5, SlotFrame DEF SendToken
  <2> QED
    BY <2>4, <2>5
<1>7. CASE MarkDispatched(r)
  <2>1. PICK c \in Campaigns : c = CampaignOf[tick[r].row.id]
    BY <1>0, <1>7, RowCampaign DEF MarkDispatched
  <2>2. PICK k \in Calls :
          /\ calls[k].status = "none"
          /\ calls' = [calls EXCEPT ![k] = [@ EXCEPT !.status = "queued",
                                                     !.row = tick[r].row.id]]
          /\ inFlight' = [inFlight EXCEPT ![r][k] = c]
    BY <1>7, <2>1 DEF MarkDispatched
  <2>3. tick' = [tick EXCEPT ![r] = NextRow(tick[r])] /\ UNCHANGED <<sems, draining>>
    BY <1>7 DEF MarkDispatched
  <2>4. \A q \in Replicas, d \in Campaigns :
          Acquired(q, d)' = IF q = r THEN 0 ELSE Acquired(q, d)
    BY <1>0, <1>n, <2>3, TickEffect
  <2>5. \A d \in Campaigns : Acquired(r, d) = IF d = c THEN 1 ELSE 0
    BY <1>7, <2>1 DEF MarkDispatched, Acquired
  <2>6. \A q \in Replicas, j \in Calls :
          inFlight'[q][j] = IF q = r /\ j = k THEN c ELSE inFlight[q][j]
    BY <1>0, <2>2
  <2>7. \A q \in Replicas : inFlight[q][k] = None /\ draining[q][k] = None
    BY <2>2 DEF SlotInv, FreshFree
  <2>8. OneEntry'
    BY <2>3, <2>6, <2>7 DEF SlotInv, OneEntry
  <2>9. calls'[k].status = "queued"
    BY <1>0, <2>2 DEF TypeInv, CallRow
  <2>10. FreshFree'
    BY <2>3, <2>6, <2>9 DEF SlotInv, FreshFree
  <2>11. ASSUME NEW q \in Replicas, NEW d \in Campaigns, ~(q = r /\ d = c)
         PROVE  Holders(q, d)' = Holders(q, d)
    <3>1. \A j \in Calls : (inFlight'[q][j] = d \/ draining'[q][j] = d)
                            <=> (inFlight[q][j] = d \/ draining[q][j] = d)
      BY <2>3, <2>6, <2>7, <2>11, ConstantsAssumption
    <3> QED
      BY <3>1 DEF Holders
  <2>12. Holders(r, c)' = Holders(r, c) \cup {k} /\ k \notin Holders(r, c)
    <3>1. \A j \in Calls : (inFlight'[r][j] = c \/ draining'[r][j] = c)
                            <=> (inFlight[r][j] = c \/ draining[r][j] = c) \/ j = k
      BY <2>3, <2>6
    <3>2. k \notin Holders(r, c)
      BY <2>7, ConstantsAssumption DEF Holders
    <3> QED
      BY <3>1, <3>2 DEF Holders
  <2>13. Cardinality(Holders(r, c)') = Cardinality(Holders(r, c)) + 1
    BY <2>12, HoldersAdd
  <2>14. ASSUME NEW q \in Replicas, NEW d \in Campaigns
         PROVE  /\ sems'[q][d].len = Cardinality(Holders(q, d)') + Acquired(q, d)'
                /\ sems'[q][d].len <= sems'[q][d].cap
    <3>1. /\ sems[q][d].len = Cardinality(Holders(q, d)) + Acquired(q, d)
          /\ sems[q][d].len <= sems[q][d].cap
          /\ Cardinality(Holders(q, d)) \in Nat
      BY HoldersFinite DEF SlotInv, SlotAccounting
    <3>2. CASE q = r /\ d = c
      BY <2>3, <2>4, <2>5, <2>13, <3>1, <3>2
    <3>3. CASE ~(q = r /\ d = c)
      BY <2>3, <2>4, <2>5, <2>11, <3>1, <3>3
    <3> QED
      BY <3>2, <3>3
  <2> QED
    BY <2>8, <2>10, <2>14 DEF SlotInv, SlotAccounting
<1>8. CASE MarkFailed(r)
  <2>1. PICK c \in Campaigns : c = CampaignOf[tick[r].row.id]
    BY <1>0, <1>8, RowCampaign DEF MarkFailed
  <2>2. /\ Receive(r, c)
        /\ tick' = [tick EXCEPT ![r] = NextRow(tick[r])]
        /\ UNCHANGED <<calls, inFlight, draining>>
    BY <1>8, <2>1 DEF MarkFailed
  <2>3. OneEntry' /\ FreshFree'
    BY <2>2 DEF SlotInv, OneEntry, FreshFree
  <2>4. \A q \in Replicas, d \in Campaigns : Holders(q, d)' = Holders(q, d)
    BY <2>2 DEF Holders
  <2>5. \A q \in Replicas, d \in Campaigns :
          Acquired(q, d)' = IF q = r THEN 0 ELSE Acquired(q, d)
    BY <1>0, <1>n, <2>2, TickEffect
  <2>6. \A d \in Campaigns : Acquired(r, d) = IF d = c THEN 1 ELSE 0
    BY <1>8, <2>1 DEF MarkFailed, Acquired
  <2>7. ASSUME NEW q \in Replicas, NEW d \in Campaigns
        PROVE  /\ sems'[q][d].len = Cardinality(Holders(q, d)') + Acquired(q, d)'
               /\ sems'[q][d].len <= sems'[q][d].cap
    <3>1. /\ sems[q][d].len = Cardinality(Holders(q, d)) + Acquired(q, d)
          /\ sems[q][d].len <= sems[q][d].cap
          /\ sems[q][d] \in Sem
          /\ Cardinality(Holders(q, d)) \in Nat
      BY <1>0, HoldersFinite DEF SlotInv, SlotAccounting
    <3>2. sems'[q][d] = IF q = r /\ d = c /\ sems[r][c].len > 0
                        THEN [sems[r][c] EXCEPT !.len = @ - 1] ELSE sems[q][d]
      BY <1>0, <2>2, ReceiveType
    <3>3. CASE q = r /\ d = c
      <4>1. sems[r][c].len > 0
        BY <2>6, <3>1, <3>3
      <4>2. sems'[r][c].len = sems[r][c].len - 1 /\ sems'[r][c].cap = sems[r][c].cap
        BY <3>1, <3>2, <3>3, <4>1 DEF Sem
      <4> QED
        BY <2>4, <2>5, <2>6, <3>1, <3>3, <4>2 DEF Sem
    <3>4. CASE ~(q = r /\ d = c)
      BY <2>4, <2>5, <2>6, <3>1, <3>2, <3>4
    <3> QED
      BY <3>3, <3>4
  <2> QED
    BY <2>3, <2>7 DEF SlotInv, SlotAccounting
<1> QED
  BY <1>2, <1>3, <1>4, <1>5, <1>6, <1>7, <1>8 DEF Worker

\* A restart empties the maps and the semaphores of one replica together.
LEMMA RestartSlotStep ==
    ASSUME SlotInv, TypeInv', NEW r \in Replicas, Restart(r)
    PROVE  SlotInv'
<1> USE DEF dbVars
<1>0. /\ TypeInv
      /\ sems \in [Replicas -> [Campaigns -> Sem]]
      /\ inFlight \in [Replicas -> [Calls -> Campaigns \cup {None}]]
      /\ draining \in [Replicas -> [Calls -> Campaigns \cup {None}]]
  BY DEF SlotInv, TypeInv
<1>1. \A q \in Replicas, k \in Calls :
        /\ inFlight'[q][k] = IF q = r THEN None ELSE inFlight[q][k]
        /\ draining'[q][k] = IF q = r THEN None ELSE draining[q][k]
  BY <1>0 DEF Restart
<1>2. UNCHANGED calls /\ tick' = [tick EXCEPT ![r] = IdleTick]
  BY DEF Restart
<1>3. OneEntry' /\ FreshFree'
  BY <1>1, <1>2 DEF SlotInv, OneEntry, FreshFree
<1>4. \A q \in Replicas, c \in Campaigns :
        /\ Acquired(q, c)' = IF q = r THEN 0 ELSE Acquired(q, c)
        /\ Holders(q, c)' = IF q = r THEN {} ELSE Holders(q, c)
        /\ sems'[q][c] = IF q = r THEN NoSem ELSE sems[q][c]
  <2> TAKE q \in Replicas, c \in Campaigns
  <2>1. IdleTick.pc # "mark"
    BY DEF IdleTick
  <2>2. Acquired(q, c)' = IF q = r THEN 0 ELSE Acquired(q, c)
    BY <1>0, <1>2, <2>1, TickEffect
  <2>3. Holders(q, c)' = IF q = r THEN {} ELSE Holders(q, c)
    BY <1>1, ConstantsAssumption DEF Holders
  <2>4. sems'[q][c] = IF q = r THEN NoSem ELSE sems[q][c]
    BY <1>0 DEF Restart
  <2> QED
    BY <2>2, <2>3, <2>4
<1>5. ASSUME NEW q \in Replicas, NEW c \in Campaigns
      PROVE  /\ sems'[q][c].len = Cardinality(Holders(q, c)') + Acquired(q, c)'
             /\ sems'[q][c].len <= sems'[q][c].cap
  <2>1. CASE q = r
    BY <1>4, <2>1, FS_EmptySet DEF NoSem
  <2>2. CASE q # r
    BY <1>4, <2>2 DEF SlotInv, SlotAccounting
  <2> QED
    BY <2>1, <2>2
<1> QED
  BY <1>3, <1>5 DEF SlotInv, SlotAccounting

LEMMA SlotStep == SlotInv /\ [Next]_vars => SlotInv'
<1> SUFFICES ASSUME SlotInv, [Next]_vars PROVE SlotInv'
  OBVIOUS
<1> USE DEF dbVars, slotVars, astVars
<1>0. /\ TypeInv /\ TypeInv'
      /\ \A k \in Calls : calls'[k].status = "none" => calls[k].status = "none"
  BY TypeStep, FreshStep DEF SlotInv
<1>1. ASSUME UNCHANGED <<tick, sems, inFlight, draining>> PROVE SlotInv'
  BY <1>0, <1>1, SlotFrame DEF Acquired
<1>2. ASSUME NEW r \in Replicas, Worker(r) PROVE SlotInv'
  BY <1>0, <1>2, WorkerSlotStep
<1>3. ASSUME NEW r \in Replicas, Restart(r) PROVE SlotInv'
  BY <1>0, <1>3, RestartSlotStep
<1>4. ASSUME NEW k \in Calls, Dialer(k) PROVE SlotInv'
  <2>0. dial[k] \in DialType
    BY <1>0 DEF TypeInv
  <2>1. CASE DialRelease(k)
    <3>1. dial[k].at \in Replicas
      BY <2>0, <2>1 DEF DialType, DialRelease
    <3>2. CASE inFlight[dial[k].at][k] = None
      BY <1>1, <2>1, <3>2 DEF DialRelease
    <3>3. CASE inFlight[dial[k].at][k] # None
      BY <1>0, <2>1, <3>1, <3>3, DropEntryStep DEF DialRelease
    <3> QED
      BY <3>2, <3>3
  <2>2. CASE DialDrain(k)
    <3>1. dial[k].at \in Replicas
      BY <2>0, <2>2 DEF DialType, DialDrain
    <3> QED
      BY <1>0, <2>2, <3>1, DrainTokenStep DEF DialDrain
  <2>3. CASE DialSession(k) \/ DialOriginate(k) \/ UpdateCallChannel(k) \/ DialFailed(k)
    BY <1>1, <2>3 DEF DialSession, DialOriginate, UpdateCallChannel, DialFailed
  <2> QED
    BY <1>4, <2>1, <2>2, <2>3 DEF Dialer
<1>5. ASSUME NEW r \in Replicas, ARILoop(r) PROVE SlotInv'
  <2>0. handler[r] \in HandlerType
    BY <1>0 DEF TypeInv
  <2>1. CASE HandlerRelease(r)
    <3>1. handler[r].call \in Calls
      BY <2>0, <2>1 DEF HandlerType, Handlers, HandlerRelease
    <3>2. CASE inFlight[r][handler[r].call] = None
      BY <1>1, <2>1, <3>2 DEF HandlerRelease
    <3>3. CASE inFlight[r][handler[r].call] # None
      BY <1>0, <2>1, <3>1, <3>3, DropEntryStep DEF HandlerRelease
    <3> QED
      BY <3>2, <3>3
  <2>2. CASE HandlerDrain(r)
    <3>1. handler[r].call \in Calls
      BY <2>0, <2>2 DEF HandlerType, Handlers, HandlerDrain
    <3> QED
      BY <1>0, <2>2, <3>1, DrainTokenStep DEF HandlerDrain
  <2>3. CASE StasisStart(r) \/ StasisBridge(r) \/ ChannelDestroyed(r) \/ FinishCall(r)
    BY <1>1, <2>3 DEF StasisStart, StasisBridge, ChannelDestroyed, FinishCall
  <2> QED
    BY <1>5, <2>1, <2>2, <2>3 DEF ARILoop
<1>6. ASSUME NEW k \in Calls, ChannelAnswers(k) \/ ChannelEnds(k) PROVE SlotInv'
  BY <1>1, <1>6 DEF ChannelAnswers, ChannelEnds
<1>7. CASE Portal
  BY <1>1, <1>7 DEF Portal, TestCall, UpdateCampaign, AddLeadsToCampaign,
     RemoveLeadFromCampaign, AddDoNotCall, RemoveDoNotCall
<1>8. CASE CloseWindow \/ OpenWindow \/ LoseEvents \/ UNCHANGED vars
  BY <1>1, <1>8 DEF CloseWindow, OpenWindow, LoseEvents, vars
<1> QED
  BY <1>2, <1>3, <1>4, <1>5, <1>6, <1>7, <1>8 DEF Next

LEMMA SlotInit == Init => SlotInv
<1> SUFFICES ASSUME Init PROVE SlotInv
  OBVIOUS
<1>1. TypeInv
  BY TypeInit
<1>2. OneEntry /\ FreshFree
  BY DEF Init, OneEntry, FreshFree
<1>3. \A r \in Replicas, c \in Campaigns : Holders(r, c) = {} /\ Acquired(r, c) = 0
  BY ConstantsAssumption DEF Init, Holders, Acquired, IdleTick
<1>4. SlotAccounting
  <2>1. \A r \in Replicas, c \in Campaigns : sems[r][c] = [cap |-> 0, len |-> 0]
    BY DEF Init, NoSem
  <2>2. Cardinality({}) = 0
    BY FS_EmptySet
  <2> QED
    BY <1>3, <2>1, <2>2 DEF SlotAccounting
<1> QED
  BY <1>1, <1>2, <1>4 DEF SlotInv

\* ReleaseSlot and tryAcquire never lose a token, never free one twice and never
\* exceed a semaphore's capacity, for any number of replicas, campaigns and calls
\* and whatever is restarted, lost or refused.
THEOREM SlotsAccounted == Spec => []SlotAccounting
<1>1. SlotInv => SlotAccounting
  BY DEF SlotInv
<1> QED
  BY <1>1, SlotInit, SlotStep, PTL DEF Spec
=============================================================================
