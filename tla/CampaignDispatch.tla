--------------------------- MODULE CampaignDispatch ---------------------------
(***************************************************************************)
(* The outbound path of the backend: the campaign worker (worker.go), the  *)
(* dialer it starts in a goroutine per call (dialer.go), the rows both     *)
(* keep in Postgres (campaign_leads, calls, do_not_call), and the ARI      *)
(* event handler that bridges answered channels and finishes calls         *)
(* (ari_handler.go).  Asterisk itself is external: a channel per call and  *)
(* the FIFO of events its websocket delivers.                              *)
(*                                                                         *)
(* A backend process is a replica: it owns a worker goroutine, the         *)
(* semaphores and the in-flight map in memory, its dial goroutines and one *)
(* ARI event loop.  The database and Asterisk are shared.                  *)
(***************************************************************************)
EXTENDS Integers, Sequences, FiniteSets

CONSTANTS
    Replicas,        \* backend processes
    Campaigns,
    Leads,           \* leads; no two have the same phone
    Rows,            \* ids of campaign_leads rows, each handed out once
    Calls,           \* ids the calls table can hand out; also channel ids
    CampaignOf,      \* CampaignOf[w], LeadOf[w]: campaign and lead of row w
    LeadOf,
    FirstRows,       \* the rows there are to begin with
    None,            \* SQL NULL, an absent map entry
    MaxConcurrents,  \* values an operator may give campaigns.max_concurrent
    MaxAttempts,     \* campaigns.max_attempts
    DailyCap,        \* tenant_settings.daily_call_cap, 0 for no cap
    DispatchLimit,   \* LIMIT of the due query (50 in the code)
    MaxTestCalls,    \* bound: test calls in a behaviour
    MaxOps,          \* bound: other operator actions in a behaviour
    MaxFaults        \* bound: lost events, failed statements, crashes

ASSUME ConstantsAssumption ==
    /\ IsFiniteSet(Calls)
    /\ CampaignOf \in [Rows -> Campaigns]
    /\ LeadOf \in [Rows -> Leads]
    /\ FirstRows \subseteq Rows
    /\ \A v, w \in FirstRows :
         CampaignOf[v] = CampaignOf[w] /\ LeadOf[v] = LeadOf[w] => v = w
    /\ None \notin Replicas \cup Campaigns \cup Rows \cup Calls
    /\ MaxConcurrents \subseteq Int
    /\ {MaxAttempts, DailyCap, DispatchLimit, MaxTestCalls, MaxOps,
         MaxFaults} \subseteq Nat

VARIABLES
    campaigns,       \* table campaigns
    campaign_leads,  \* table campaign_leads
    dnc,             \* table do_not_call: leads whose phone is listed
    window,          \* the clock against the tenant's dialling hours
    calls,           \* table calls; row: the campaign_leads row it was made for
    tick,            \* worker goroutine of each replica: where the tick is
    sems,            \* Worker.sems
    inFlight,        \* Worker.inFlight
    draining,        \* ReleaseSlot between Unlock and the channel receive
    dial,            \* dialInBackground goroutine of each call
    handler,         \* ARI event loop of each replica
    chan,            \* Asterisk: the channel originated for each call
    events,          \* Asterisk: events not yet read from the websocket
    dncStable,       \* history: listed phones since the tick began
    ops, faults      \* bound counters

dbVars     == <<campaigns, campaign_leads, dnc, window>>
slotVars   == <<sems, inFlight, draining>>
astVars    == <<chan, events>>
vars == <<campaigns, campaign_leads, dnc, window, calls, tick, sems, inFlight,
          draining, dial, handler, chan, events, dncStable, ops, faults>>

-----------------------------------------------------------------------------
(* Types *)

CampaignStatus == {"active", "inactive", "deleted"}
\* A row's id is "unused" until it is handed out, its row "absent" once deleted.
LeadStatus     == {"unused", "pending", "calling", "failed", "done", "blocked", "absent"}
CallStatus     == {"none", "queued", "dialing", "answered",
                   "completed", "failed", "skipped"}
Finished       == {"completed", "failed", "skipped"}
Live           == {"ringing", "up"}

DueRow   == [id: Rows, max_concurrent: Int]
Sem      == [cap: Nat, len: Nat]
Event    == [type: {"StasisStart", "ChannelDestroyed"}, ch: Calls,
             status: {"completed", "failed"}]

NoSem       == [cap |-> 0, len |-> 0]
Uncounted   == -1
IdleTick    == [pc |-> "idle", due |-> {}, row |-> None, count |-> Uncounted]
IdleHandler == [pc |-> "idle", ch |-> None, call |-> None,
                status |-> "completed"]
NoCall      == [status |-> "none", row |-> None, channel_id |-> None,
                voice_session_id |-> None]

TypeOK ==
    /\ campaigns \in [Campaigns ->
                        [status: CampaignStatus, max_concurrent: Int]]
    /\ campaign_leads \in [Rows -> [status: LeadStatus, attempts: Nat]]
    /\ dnc \in SUBSET Leads
    /\ window \in {"open", "closed"}
    /\ calls \in [Calls -> [status: CallStatus, row: Rows \cup {None},
                            channel_id: Calls \cup {None},
                            voice_session_id: Calls \cup {None}]]
    /\ tick \in [Replicas ->
                   [pc: {"idle", "row", "skip", "acquire", "send", "mark"},
                    due: SUBSET DueRow, row: DueRow \cup {None}, count: Int]]
    /\ sems \in [Replicas -> [Campaigns -> Sem]]
    /\ inFlight \in [Replicas -> [Calls -> Campaigns \cup {None}]]
    /\ draining \in [Replicas -> [Calls -> Campaigns \cup {None}]]
    /\ dial \in [Calls -> [pc: {"none", "session", "originate", "update",
                                "failed", "release", "drain", "done"},
                           at: Replicas \cup {None}]]
    /\ handler \in [Replicas ->
                      [pc: {"idle", "bridge", "finish", "release", "drain"},
                       ch: Calls \cup {None}, call: Calls \cup {None},
                       status: {"completed", "failed"}]]
    \* A goroutine in the middle of its work has its local variables set.
    /\ \A r \in Replicas :
         /\ tick[r].pc \in {"skip", "acquire", "send", "mark"} => tick[r].row \in DueRow
         /\ handler[r].pc \in {"bridge", "finish"} => handler[r].ch # None
         /\ handler[r].pc \in {"bridge", "release", "drain"} => handler[r].call # None
    /\ \A k \in Calls : dial[k].pc # "none" => dial[k].at # None
    /\ chan \in [Calls -> {"none", "ringing", "up", "gone"}]
    /\ events \in Seq(Event)
    /\ dncStable \in [Replicas -> SUBSET Leads]
    /\ ops \in 0..MaxOps
    /\ faults \in 0..MaxFaults

Fault == faults < MaxFaults /\ faults' = faults + 1
Op    == ops < MaxOps /\ ops' = ops + 1

-----------------------------------------------------------------------------
(* The worker tick: expandAndDial.                                         *)

\* NextDispatchableForCampaign.  The FOR UPDATE locks end with the statement,
\* because it runs on the pool and not in a transaction: reading is all it does.
Dispatchable ==
    {[id |-> w, max_concurrent |-> campaigns[CampaignOf[w]].max_concurrent] :
        w \in {v \in Rows :
                 /\ campaigns[CampaignOf[v]].status = "active"
                 /\ campaign_leads[v].status \in {"pending", "failed"}
                 /\ campaign_leads[v].attempts < MaxAttempts}}

StartTick(r) ==
    /\ tick[r].pc = "idle"
    /\ \E S \in SUBSET Dispatchable :
         /\ S # {}
         /\ S = Dispatchable \/ Cardinality(S) = DispatchLimit
         /\ tick' = [tick EXCEPT ![r] = [IdleTick EXCEPT !.pc = "row",
                                                        !.due = S]]
    /\ dncStable' = [dncStable EXCEPT ![r] = dnc]
    /\ UNCHANGED <<dbVars, calls, slotVars, dial, handler, astVars, ops, faults>>

\* The loop goes on to the next row, or the tick is over.
NextRow(t) ==
    IF t.due = {} THEN IdleTick ELSE [t EXCEPT !.pc = "row", !.row = None]

\* CountCallsToday: started_at is set together with channel_id.
CountCallsToday == Cardinality({k \in Calls : calls[k].channel_id # None})

\* Mutant: the list is read for the wrong tenant, so that nothing is found.
NeverBlocked(w) == FALSE

IsBlockedPhone(w) == LeadOf[w] \in dnc

\* The daily cap, counted once a tick.
CheckCap(t) ==
    LET n == IF t.count = Uncounted THEN CountCallsToday ELSE t.count
    IN  IF DailyCap > 0 /\ n >= DailyCap THEN NextRow([t EXCEPT !.count = n])
        ELSE [t EXCEPT !.pc = "acquire", !.count = n]

\* The checks on one row: hours, do-not-call, daily cap.  A failed statement
\* leaves the row for the next tick, but IsBlockedPhone's error is dropped and
\* reads as "not blocked".
CheckRow(r) ==
    /\ tick[r].pc = "row"
    /\ \E d \in tick[r].due :
         LET t     == [tick[r] EXCEPT !.due = @ \ {d}, !.row = d]
             To(u) == tick' = [tick EXCEPT ![r] = u]
         IN  \/ window = "closed" /\ To(NextRow(t)) /\ UNCHANGED faults
             \/ /\ window = "open" /\ IsBlockedPhone(d.id)
                /\ \/ To([t EXCEPT !.pc = "skip"]) /\ UNCHANGED faults
                   \/ To(CheckCap(t)) /\ Fault
             \/ /\ window = "open" /\ ~IsBlockedPhone(d.id)
                /\ To(CheckCap(t)) /\ UNCHANGED faults
             \/ To(NextRow(t)) /\ Fault
    /\ UNCHANGED <<dbVars, calls, slotVars, dial, handler, astVars,
                   dncStable, ops>>

\* Mutant: the reason is written where the status belongs.
SkipWithReason(r) ==
    /\ tick[r].pc = "skip"
    /\ campaign_leads' = [campaign_leads EXCEPT ![tick[r].row.id].status = "dnc_blocked"]
    /\ tick' = [tick EXCEPT ![r] = NextRow(@)]
    /\ UNCHANGED <<campaigns, dnc, window, calls, slotVars, dial, handler,
                   astVars, dncStable, ops, faults>>

\* Its error is dropped.
SkipCampaignLead(r) ==
    /\ tick[r].pc = "skip"
    /\ \/ /\ campaign_leads' =
               [campaign_leads EXCEPT ![tick[r].row.id].status =
                  IF @ = "absent" THEN @ ELSE "blocked"]
          /\ UNCHANGED faults
       \/ Fault /\ UNCHANGED campaign_leads
    /\ tick' = [tick EXCEPT ![r] = NextRow(@)]
    /\ UNCHANGED <<campaigns, dnc, window, calls, slotVars, dial, handler,
                   astVars, dncStable, ops>>

\* tryAcquire, under the mutex: find the semaphore, or make it anew when there
\* is none or it has the wrong capacity and is empty.
\* Mutant: no default for a campaign without a limit.
WantedAsGiven(d) == d.max_concurrent

Wanted(d) == IF d.max_concurrent <= 0 THEN 3 ELSE d.max_concurrent

\* Mutant: a busy semaphore of the wrong capacity is replaced too.
ReplaceBusySemaphore(r) ==
    /\ tick[r].pc = "acquire"
    /\ LET c == CampaignOf[tick[r].row.id]
           n == Wanted(tick[r].row)
       IN  sems' = IF sems[r][c].cap # n
                   THEN [sems EXCEPT ![r][c] = [cap |-> n, len |-> 0]]
                   ELSE sems
    /\ tick' = [tick EXCEPT ![r].pc = "send"]
    /\ UNCHANGED <<dbVars, calls, inFlight, draining, dial, handler, astVars,
                   dncStable, ops, faults>>

TryAcquire(r) ==
    /\ tick[r].pc = "acquire"
    /\ LET c   == CampaignOf[tick[r].row.id]
           sem == sems[r][c]
           n   == Wanted(tick[r].row)
       IN  sems' = IF sem = NoSem \/ (sem.cap # n /\ sem.len = 0)
                   THEN [sems EXCEPT ![r][c] = [cap |-> n, len |-> 0]]
                   ELSE sems
    /\ tick' = [tick EXCEPT ![r].pc = "send"]
    /\ UNCHANGED <<dbVars, calls, inFlight, draining, dial, handler, astVars,
                   dncStable, ops, faults>>

\* tryAcquire, after the mutex: the non-blocking send.
SendToken(r) ==
    /\ tick[r].pc = "send"
    /\ LET c == CampaignOf[tick[r].row.id]
       IN  IF sems[r][c].len < sems[r][c].cap
           THEN /\ sems' = [sems EXCEPT ![r][c].len = @ + 1]
                /\ tick' = [tick EXCEPT ![r] = [@ EXCEPT !.pc = "mark",
                                                     !.count = tick[r].count + 1]]
           ELSE /\ tick' = [tick EXCEPT ![r] = NextRow(@)]
                /\ UNCHANGED sems
    /\ UNCHANGED <<dbVars, calls, inFlight, draining, dial, handler, astVars,
                   dncStable, ops, faults>>

\* The non-blocking receive on the semaphore of campaign c.
Receive(r, c) ==
    sems' = [sems EXCEPT ![r][c].len = IF @ > 0 THEN @ - 1 ELSE @]

\* Mutants: the UPDATE forgets one of its columns.
DispatchedUncounted(row) == [row EXCEPT !.status = "calling"]
DispatchedPending(row)   == [row EXCEPT !.attempts = @ + 1]

\* The UPDATE of MarkCampaignLeadDispatched.
Dispatched(row) == [status |-> "calling", attempts |-> row.attempts + 1]

\* MarkCampaignLeadDispatched commits (the row's status is not looked at again,
\* and a row removed meanwhile is no error), trackInFlight, go dialInBackground.
MarkDispatched(r) ==
    /\ tick[r].pc = "mark"
    /\ LET w == tick[r].row.id
           c == CampaignOf[w]
       IN  /\ campaigns[c].status # "deleted"
           /\ campaign_leads' =
                IF campaign_leads[w].status = "absent" THEN campaign_leads
                ELSE [campaign_leads EXCEPT ![w] = Dispatched(@)]
           /\ \E k \in Calls :
                /\ calls[k].status = "none"
                /\ calls' = [calls EXCEPT ![k] = [@ EXCEPT !.status = "queued",
                                                           !.row = w]]
                /\ inFlight' = [inFlight EXCEPT ![r][k] = c]
                /\ dial' = [dial EXCEPT ![k] = [pc |-> "session", at |-> r]]
    /\ tick' = [tick EXCEPT ![r] = NextRow(@)]
    /\ UNCHANGED <<campaigns, dnc, window, sems, draining, handler, astVars,
                   dncStable, ops, faults>>

\* The transaction rolls back: the campaign is gone (foreign key), or the
\* statement failed.  releaseImmediate takes the token back.
MarkFailed(r) ==
    /\ tick[r].pc = "mark"
    /\ LET c == CampaignOf[tick[r].row.id]
       IN  /\ IF campaigns[c].status = "deleted" THEN UNCHANGED faults ELSE Fault
           /\ Receive(r, c)
    /\ tick' = [tick EXCEPT ![r] = NextRow(@)]
    /\ UNCHANGED <<dbVars, calls, inFlight, draining, dial, handler, astVars,
                   dncStable, ops>>

-----------------------------------------------------------------------------
(* ReleaseSlot(k) in two steps: the map entry goes under the mutex, the     *)
(* token is received after it.  pc' is where the caller goes next.          *)

\* Mutant: the map entry is read and not deleted.
KeepEntry(r, k) ==
    /\ draining' = [draining EXCEPT ![r][k] = inFlight[r][k]]
    /\ UNCHANGED inFlight

DropEntry(r, k) ==
    /\ inFlight' = [inFlight EXCEPT ![r][k] = None]
    /\ draining' = [draining EXCEPT ![r][k] = inFlight[r][k]]

DrainToken(r, k) ==
    /\ draining[r][k] # None
    /\ Receive(r, draining[r][k])
    /\ draining' = [draining EXCEPT ![r][k] = None]

-----------------------------------------------------------------------------
(* The dial goroutine: DialCall, then dialInBackground's error path.       *)

DialAt(k, pc) == dial' = [dial EXCEPT ![k].pc = pc]

\* POST /calls/test: a call outside any campaign, dialled by the request itself.
TestCall(r) ==
    /\ Cardinality({k \in Calls : calls[k].status # "none" /\ calls[k].row = None})
         < MaxTestCalls
    /\ \E k \in Calls :
         /\ calls[k].status = "none"
         /\ calls' = [calls EXCEPT ![k].status = "queued"]
         /\ dial' = [dial EXCEPT ![k] = [pc |-> "session", at |-> r]]
    /\ UNCHANGED <<dbVars, tick, slotVars, handler, astVars, dncStable, ops,
                   faults>>

\* DialCall up to Originate: a missing bot or DID fails the call; a voice
\* session that cannot be created is only logged.
DialSession(k) ==
    /\ dial[k].pc = "session"
    /\ \/ DialAt(k, "failed") /\ UNCHANGED calls
       \/ DialAt(k, "originate") /\ UNCHANGED calls
       \/ /\ DialAt(k, "originate")
          /\ calls' = [calls EXCEPT ![k].voice_session_id = k]
    /\ UNCHANGED <<dbVars, tick, slotVars, handler, astVars, dncStable, ops,
                   faults>>

\* Originate answers, refuses, or times out although the channel was made.
DialOriginate(k) ==
    /\ dial[k].pc = "originate"
    /\ \/ /\ DialAt(k, "update")
          /\ chan' = [chan EXCEPT ![k] = "ringing"]
          /\ UNCHANGED faults
       \/ /\ DialAt(k, "failed")
          /\ UNCHANGED <<chan, faults>>
       \/ /\ DialAt(k, "failed")
          /\ chan' = [chan EXCEPT ![k] = "ringing"]
          /\ Fault
    /\ UNCHANGED <<dbVars, calls, tick, slotVars, handler, events, dncStable, ops>>

\* UpdateCallChannel: only now can the ARI handler find the call.
UpdateCallChannel(k) ==
    /\ dial[k].pc = "update"
    /\ DialAt(k, "done")
    /\ \/ /\ calls' = [calls EXCEPT ![k] = [@ EXCEPT !.channel_id = k,
                                                     !.status = "dialing"]]
          /\ UNCHANGED faults
       \/ Fault /\ UNCHANGED calls
    /\ UNCHANGED <<dbVars, tick, slotVars, handler, astVars, dncStable, ops>>

\* Mutant: dialInBackground returns without ReleaseSlot.
DialFailedKeepsSlot(k) ==
    /\ dial[k].pc = "failed"
    /\ calls' = [calls EXCEPT ![k].status = "skipped"]
    /\ DialAt(k, "done")
    /\ UNCHANGED <<dbVars, tick, slotVars, handler, astVars, dncStable, ops,
                   faults>>

\* MarkCallSkipped, its error dropped; a test call has no slot to give back.
DialFailed(k) ==
    /\ dial[k].pc = "failed"
    /\ \/ /\ calls' = [calls EXCEPT ![k].status = IF @ = "queued" THEN "skipped" ELSE @]
          /\ UNCHANGED faults
       \/ Fault /\ UNCHANGED calls
    /\ DialAt(k, IF calls[k].row = None THEN "done" ELSE "release")
    /\ UNCHANGED <<dbVars, tick, slotVars, handler, astVars, dncStable, ops>>

DialRelease(k) ==
    /\ dial[k].pc = "release"
    /\ LET r == dial[k].at
       IN  IF inFlight[r][k] = None
           THEN DialAt(k, "done") /\ UNCHANGED <<inFlight, draining>>
           ELSE DialAt(k, "drain") /\ DropEntry(r, k)
    /\ UNCHANGED <<dbVars, calls, tick, sems, handler, astVars, dncStable, ops,
                   faults>>

DialDrain(k) ==
    /\ dial[k].pc = "drain"
    /\ DrainToken(dial[k].at, k)
    /\ DialAt(k, "done")
    /\ UNCHANGED <<dbVars, calls, tick, inFlight, handler, astVars, dncStable,
                   ops, faults>>

-----------------------------------------------------------------------------
(* Asterisk (external): the callee answers, a channel ends.                *)

Ev(type, ch, status) == [type |-> type, ch |-> ch, status |-> status]

ChannelAnswers(ch) ==
    /\ chan[ch] = "ringing"
    /\ chan' = [chan EXCEPT ![ch] = "up"]
    /\ events' = Append(events, Ev("StasisStart", ch, "completed"))
    /\ UNCHANGED <<dbVars, calls, tick, slotVars, dial, handler, dncStable, ops,
                   faults>>

\* "failed" is the class of the causes congestion and unavailable.
ChannelEnds(ch) ==
    /\ chan[ch] \in Live
    /\ \E status \in {"completed", "failed"} :
         /\ status = "failed" => chan[ch] = "ringing"
         /\ events' = Append(events, Ev("ChannelDestroyed", ch, status))
    /\ chan' = [chan EXCEPT ![ch] = "gone"]
    /\ UNCHANGED <<dbVars, calls, tick, slotVars, dial, handler, dncStable, ops,
                   faults>>

\* HangupChannel, its error ignored; evs is what is left of the event queue.
HangupChannel(ch, evs) ==
    IF chan[ch] \in Live
    THEN \/ /\ chan' = [chan EXCEPT ![ch] = "gone"]
            /\ events' = Append(evs, Ev("ChannelDestroyed", ch, "completed"))
            /\ UNCHANGED faults
         \/ /\ Fault
            /\ events' = evs
            /\ UNCHANGED chan
    ELSE events' = evs /\ UNCHANGED <<chan, faults>>

\* The websocket drops: what it had not delivered is lost (RunEventLoop only
\* reconnects).
LoseEvents ==
    /\ events # <<>>
    /\ Fault
    /\ events' = <<>>
    /\ UNCHANGED <<dbVars, calls, tick, slotVars, dial, handler, chan, dncStable,
                   ops>>

-----------------------------------------------------------------------------
(* The ARI event loop: one event at a time, each handler to its end.       *)

\* Mutant: the call is found by the id in the channel's variables, stored or not.
FindCallByVariable(ch) == {ch}

FindCallByChannel(ch) == {k \in Calls : calls[k].channel_id = ch}

NextEvent(r, type) ==
    /\ handler[r].pc = "idle"
    /\ events # <<>>
    /\ Head(events).type = type

\* handleStasisStart, the lookup.  A channel no call names yet is taken for an
\* inbound one; the number dialled by us routes to no DID, so it is hung up.
StasisStart(r) ==
    /\ NextEvent(r, "StasisStart")
    /\ LET ch == Head(events).ch
       IN  IF FindCallByChannel(ch) = {}
           THEN HangupChannel(ch, Tail(events)) /\ UNCHANGED handler
           ELSE /\ \E k \in FindCallByChannel(ch) :
                     handler' = [handler EXCEPT ![r] =
                       [IdleHandler EXCEPT !.pc = "bridge", !.ch = ch, !.call = k]]
                /\ events' = Tail(events)
                /\ UNCHANGED <<chan, faults>>
    /\ UNCHANGED <<dbVars, calls, tick, slotVars, dial, dncStable, ops>>

\* handleStasisStart, the rest: a failed lookup, no voice session or any failed
\* step of the side-car and the bridge hangs up; else MarkCallAnswered, whose
\* error is only logged.
StasisBridge(r) ==
    /\ handler[r].pc = "bridge"
    /\ LET k == handler[r].call
       IN  \/ HangupChannel(handler[r].ch, events) /\ UNCHANGED calls
           \/ /\ calls[k].voice_session_id # None
              /\ \/ /\ calls' = [calls EXCEPT ![k].status = "answered"]
                    /\ UNCHANGED faults
                 \/ Fault /\ UNCHANGED calls
              /\ UNCHANGED astVars
    /\ handler' = [handler EXCEPT ![r] = IdleHandler]
    /\ UNCHANGED <<dbVars, tick, slotVars, dial, dncStable, ops>>

\* handleChannelDestroyed, FindCallByChannel; an error reads as "no call".
ChannelDestroyed(r) ==
    /\ NextEvent(r, "ChannelDestroyed")
    /\ LET ev    == Head(events)
           found == FindCallByChannel(ev.ch)
       IN  \E k \in IF found = {} THEN {None} ELSE found \cup {None} :
             /\ IF k = None /\ found # {} THEN Fault ELSE UNCHANGED faults
             /\ handler' = [handler EXCEPT ![r] =
                  [pc |-> "finish", ch |-> ev.ch, call |-> k, status |-> ev.status]]
    /\ events' = Tail(events)
    /\ UNCHANGED <<dbVars, calls, tick, slotVars, dial, chan, dncStable, ops>>

\* FinishCall: UPDATE calls ... WHERE channel_id = ch.
FinishCall(r) ==
    /\ handler[r].pc = "finish"
    /\ \/ /\ calls' = [k \in Calls |->
                         IF calls[k].channel_id = handler[r].ch
                         THEN [calls[k] EXCEPT !.status = handler[r].status]
                         ELSE calls[k]]
          /\ UNCHANGED faults
       \/ Fault /\ UNCHANGED calls
    /\ handler' = [handler EXCEPT ![r] = IF @.call = None THEN IdleHandler
                                         ELSE [@ EXCEPT !.pc = "release"]]
    /\ UNCHANGED <<dbVars, tick, slotVars, dial, astVars, dncStable, ops>>

\* Mutant: handleChannelDestroyed does not call releaseSlot.
HandlerForgets(r) ==
    /\ handler[r].pc = "release"
    /\ handler' = [handler EXCEPT ![r] = IdleHandler]
    /\ UNCHANGED <<dbVars, calls, tick, slotVars, dial, astVars, dncStable, ops,
                   faults>>

HandlerRelease(r) ==
    /\ handler[r].pc = "release"
    /\ LET k == handler[r].call
       IN  IF inFlight[r][k] = None
           THEN /\ handler' = [handler EXCEPT ![r] = IdleHandler]
                /\ UNCHANGED <<inFlight, draining>>
           ELSE /\ handler' = [handler EXCEPT ![r].pc = "drain"]
                /\ DropEntry(r, k)
    /\ UNCHANGED <<dbVars, calls, tick, sems, dial, astVars, dncStable, ops,
                   faults>>

HandlerDrain(r) ==
    /\ handler[r].pc = "drain"
    /\ DrainToken(r, handler[r].call)
    /\ handler' = [handler EXCEPT ![r] = IdleHandler]
    /\ UNCHANGED <<dbVars, calls, tick, inFlight, dial, astVars, dncStable, ops,
                   faults>>

-----------------------------------------------------------------------------
(* The portal, the clock and the process.                                  *)

NewRow    == [status |-> "pending", attempts |-> 0]
UnusedRow == [status |-> "unused", attempts |-> 0]

\* The ids AddLeadsToCampaign may hand out for campaign c: one for each lead the
\* request names, and none for a lead that has a row (ON CONFLICT DO NOTHING).
Free(c)    == {w \in Rows : CampaignOf[w] = c /\ campaign_leads[w].status = "unused"}
Present(c) == {w \in Rows : /\ CampaignOf[w] = c
                            /\ campaign_leads[w].status \notin {"unused", "absent"}}
OncePerLead(W) == \A v, w \in W : LeadOf[v] = LeadOf[w] => v = w

\* Mutant: INSERT without ON CONFLICT, and without the unique key.
InsertedAnyway(c) == {W \in SUBSET Free(c) : OncePerLead(W)}

Inserted(c) == {W \in SUBSET Free(c) : OncePerLead(W \cup Present(c))}

\* One transaction; a lead that was removed comes back as a new row.
AddLeadsToCampaign(c) ==
    /\ campaigns[c].status # "deleted"
    /\ Op
    /\ \E W \in Inserted(c) \ {{}} :
         campaign_leads' = [w \in Rows |-> IF w \in W THEN NewRow ELSE campaign_leads[w]]
    /\ UNCHANGED <<campaigns, dnc, window, calls, tick, slotVars, dial, handler,
                   astVars, dncStable, faults>>

\* UpdateCampaign and DeleteCampaign; a deleted campaign takes its rows along.
UpdateCampaign(c) ==
    /\ campaigns[c].status # "deleted"
    /\ Op
    /\ \/ /\ \E s \in {"active", "inactive"}, n \in MaxConcurrents :
               /\ campaigns' = [campaigns EXCEPT
                                  ![c] = [status |-> s, max_concurrent |-> n]]
          /\ UNCHANGED campaign_leads
       \/ /\ campaigns' = [campaigns EXCEPT ![c].status = "deleted"]
          /\ campaign_leads' = [w \in Rows |->
               IF w \in Present(c)
               THEN [campaign_leads[w] EXCEPT !.status = "absent"]
               ELSE campaign_leads[w]]
    /\ UNCHANGED <<dnc, window, calls, tick, slotVars, dial, handler, astVars,
                   dncStable, faults>>

RemoveLeadFromCampaign(w) ==
    /\ w \in Present(CampaignOf[w])
    /\ Op
    /\ campaign_leads' = [campaign_leads EXCEPT ![w].status = "absent"]
    /\ UNCHANGED <<campaigns, dnc, window, calls, tick, slotVars, dial, handler,
                   astVars, dncStable, faults>>

AddDoNotCall(l) ==
    /\ l \notin dnc
    /\ Op
    /\ dnc' = dnc \cup {l}
    /\ UNCHANGED <<campaigns, campaign_leads, window, calls, tick, slotVars, dial,
                   handler, astVars, dncStable, faults>>

RemoveDoNotCall(l) ==
    /\ l \in dnc
    /\ Op
    /\ dnc' = dnc \ {l}
    /\ dncStable' = [r \in Replicas |-> dncStable[r] \ {l}]
    /\ UNCHANGED <<campaigns, campaign_leads, window, calls, tick, slotVars, dial,
                   handler, astVars, faults>>

\* The hours close (bounded) and open again.
CloseWindow ==
    /\ window = "open"
    /\ Op
    /\ window' = "closed"
    /\ UNCHANGED <<campaigns, campaign_leads, dnc, calls, tick, slotVars, dial,
                   handler, astVars, dncStable, faults>>

OpenWindow ==
    /\ window = "closed"
    /\ window' = "open"
    /\ UNCHANGED <<campaigns, campaign_leads, dnc, calls, tick, slotVars, dial,
                   handler, astVars, dncStable, ops, faults>>

\* A replica stops and starts again: memory and goroutines are gone, New makes
\* empty maps, and the websocket's undelivered events are lost.
Restart(r) ==
    /\ Fault
    /\ tick' = [tick EXCEPT ![r] = IdleTick]
    /\ sems' = [sems EXCEPT ![r] = [c \in Campaigns |-> NoSem]]
    /\ inFlight' = [inFlight EXCEPT ![r] = [k \in Calls |-> None]]
    /\ draining' = [draining EXCEPT ![r] = [k \in Calls |-> None]]
    /\ dial' = [k \in Calls |-> IF dial[k].at = r THEN [dial[k] EXCEPT !.pc = "done"]
                                ELSE dial[k]]
    /\ handler' = [handler EXCEPT ![r] = IdleHandler]
    /\ events' = <<>>
    /\ UNCHANGED <<dbVars, calls, chan, dncStable, ops>>

-----------------------------------------------------------------------------

Init ==
    /\ campaigns \in [Campaigns -> [status: {"active"},
                                    max_concurrent: MaxConcurrents]]
    /\ campaign_leads = [w \in Rows |-> IF w \in FirstRows THEN NewRow ELSE UnusedRow]
    /\ dnc = {}
    /\ window = "open"
    /\ calls = [k \in Calls |-> NoCall]
    /\ tick = [r \in Replicas |-> IdleTick]
    /\ sems = [r \in Replicas |-> [c \in Campaigns |-> NoSem]]
    /\ inFlight = [r \in Replicas |-> [k \in Calls |-> None]]
    /\ draining = [r \in Replicas |-> [k \in Calls |-> None]]
    /\ dial = [k \in Calls |-> [pc |-> "none", at |-> None]]
    /\ handler = [r \in Replicas |-> IdleHandler]
    /\ chan = [k \in Calls |-> "none"]
    /\ events = <<>>
    /\ dncStable = [r \in Replicas |-> {}]
    /\ ops = 0
    /\ faults = 0

Worker(r) == \/ StartTick(r) \/ CheckRow(r) \/ SkipCampaignLead(r)
             \/ TryAcquire(r) \/ SendToken(r) \/ MarkDispatched(r) \/ MarkFailed(r)
Dialer(k) == \/ DialSession(k) \/ DialOriginate(k) \/ UpdateCallChannel(k)
             \/ DialFailed(k) \/ DialRelease(k) \/ DialDrain(k)
ARILoop(r) == \/ StasisStart(r) \/ StasisBridge(r) \/ ChannelDestroyed(r)
              \/ FinishCall(r) \/ HandlerRelease(r) \/ HandlerDrain(r)
Portal == \/ \E r \in Replicas : TestCall(r)
          \/ \E c \in Campaigns : UpdateCampaign(c)
          \/ \E c \in Campaigns : AddLeadsToCampaign(c)
          \/ \E w \in Rows : RemoveLeadFromCampaign(w)
          \/ \E l \in Leads : AddDoNotCall(l) \/ RemoveDoNotCall(l)

Next ==
    \/ \E r \in Replicas : Worker(r) \/ ARILoop(r) \/ Restart(r)
    \/ \E k \in Calls : Dialer(k) \/ ChannelAnswers(k) \/ ChannelEnds(k)
    \/ Portal \/ CloseWindow \/ OpenWindow \/ LoseEvents

Spec == Init /\ [][Next]_vars

\* Goroutines run, the event loop reads, the clock goes round, and every call
\* ends; nothing is assumed of the portal or of faults.
Fairness ==
    /\ \A r \in Replicas : WF_vars(Worker(r)) /\ WF_vars(ARILoop(r))
    /\ \A k \in Calls : WF_vars(Dialer(k)) /\ WF_vars(ChannelEnds(k))
    /\ WF_vars(OpenWindow)

FairSpec == Spec /\ Fairness

-----------------------------------------------------------------------------
(* Safety *)

\* The calls whose slot of campaign c is taken in r: tracked, or released from
\* the map with the token still in the channel.
Holders(r, c) == {k \in Calls : inFlight[r][k] = c \/ draining[r][k] = c}

\* Replica r has sent a token for c and has no call id for it yet.
Acquired(r, c) ==
    IF tick[r].pc = "mark" /\ CampaignOf[tick[r].row.id] = c THEN 1 ELSE 0

\* ReleaseSlot and tryAcquire (worker.go) look a semaphore up under the mutex
\* and use it after; the semaphore may be replaced in between.  Still no token
\* is lost or freed twice: a semaphore holds exactly one token per call that
\* has its slot, so every pending receive finds its own token in the semaphore
\* now in the map, and the capacity is never exceeded.
SlotAccounting ==
    \A r \in Replicas, c \in Campaigns :
        /\ sems[r][c].len = Cardinality(Holders(r, c)) + Acquired(r, c)
        /\ sems[r][c].len <= sems[r][c].cap

\* The channels of campaign c that replica r originated and that still exist.
LiveCalls(r, c) ==
    {k \in Calls : /\ chan[k] \in Live
                   /\ dial[k].at = r
                   /\ calls[k].row # None
                   /\ CampaignOf[calls[k].row] = c}

\* What the semaphore is for (worker.go header): while nothing failed, a slot is
\* given back neither by the dialer's error path nor by the ARI handler before
\* the call's channel is gone, so a process has at most as many channels of a
\* campaign in Asterisk as the campaign's semaphore has slots.
ConcurrencyBounded ==
    faults = 0 =>
        \A r \in Replicas, c \in Campaigns :
            Cardinality(LiveCalls(r, c)) <= sems[r][c].cap

\* campaign_leads.attempts (MarkCampaignLeadDispatched) counts the calls created
\* for the row, whatever replicas, skips and removals interleave.
AttemptsCountCalls ==
    \A w \in Rows :
        LET made == Cardinality({k \in Calls : calls[k].row = w})
        IN  IF campaign_leads[w].status = "absent"
            THEN campaign_leads[w].attempts <= made
            ELSE campaign_leads[w].attempts = made

\* With one backend process no row of campaign_leads is rung by two calls at a
\* time, and no lead by two calls of one campaign as long as it stays in it,
\* although the due list is a snapshot, MarkCampaignLeadDispatched does not look
\* at the row's status again, and AddLeadsToCampaign may name leads the campaign
\* has.  A lead of two campaigns, or one that was removed and added again during
\* its call, has two rows, and nothing keeps their calls apart.
OneCallPerCampaignLead ==
    \A j, k \in Calls :
        LET v == calls[j].row
            w == calls[k].row
        IN  /\ j # k /\ v # None /\ w # None
            /\ calls[j].status \notin Finished /\ calls[k].status \notin Finished
            /\ CampaignOf[v] = CampaignOf[w] /\ LeadOf[v] = LeadOf[w]
            => v # w /\ "absent" \in {campaign_leads[v].status, campaign_leads[w].status}

\* max_attempts: no row is attempted more often than its campaign allows.
AttemptsWithinMax == \A w \in Rows : campaign_leads[w].attempts <= MaxAttempts

-----------------------------------------------------------------------------
(* Action properties *)

\* Do-not-call (IsBlockedPhone before tryAcquire): a phone that was listed when
\* the tick read its due list and has been listed ever since gets no call from
\* that tick, unless a statement failed.
ListedPhonesNotDialed ==
    [][\A r \in Replicas :
          MarkDispatched(r) /\ faults = 0 => LeadOf[tick[r].row.id] \notin dncStable[r]]_vars

\* calls.status as the abstract life cycle sees it.
Lifecycle == INSTANCE CallLifecycle WITH status <- [k \in Calls |-> calls[k].status]

\* Three writers of calls.status share no lock: the dial goroutine
\* (UpdateCallChannel, MarkCallSkipped), the ARI loop (MarkCallAnswered,
\* FinishCall) and the worker.  None of their SQL statements but MarkCallSkipped
\* looks at the status it overwrites, yet with one backend process the rows
\* implement CallLifecycle.
RefinesLifecycle == Lifecycle!Spec

-----------------------------------------------------------------------------
(* Liveness *)

HoldsSlot(k) == \E r \in Replicas : inFlight[r][k] # None \/ draining[r][k] # None

\* A call whose channel_id was stored while its channel still existed gives its
\* slot back (handleChannelDestroyed finds it and calls ReleaseSlot).
StoredCallFreesSlot ==
    \A k \in Calls :
        calls[k].channel_id = k /\ chan[k] \in Live ~> ~HoldsSlot(k)

\* A call that could not be originated gives its slot back (dialInBackground).
FailedDialFreesSlot ==
    \A k \in Calls : dial[k].pc = "failed" ~> ~HoldsSlot(k)

\* As long as there are slots enough for every row, each pending row of an
\* active campaign is called, blocked, removed or its campaign stopped.
PendingLeadIsTakenUp ==
    \A w \in Rows :
        campaign_leads[w].status = "pending"
            ~> \/ campaign_leads[w].status # "pending"
               \/ campaigns[CampaignOf[w]].status # "active"

\* worker.go:5-7, "Cuando una llamada termina (ChannelDestroyed), el ARI handler
\* llama a worker.ReleaseSlot(callID) para liberar el cupo": a call that is over
\* does not keep its slot.
EndedCallFreesSlot ==
    \A k \in Calls : chan[k] = "gone" ~> ~HoldsSlot(k)

\* Every call whose end the process can see, and every call that was not made,
\* gives its slot back (ReleaseSlot by handleChannelDestroyed, dialInBackground).
SlotsReturn == StoredCallFreesSlot /\ FailedDialFreesSlot
=============================================================================
