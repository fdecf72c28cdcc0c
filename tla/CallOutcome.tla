----------------------------- MODULE CallOutcome -----------------------------
(***************************************************************************)
(* What becomes of a call: the marks the tools leave on the call and its   *)
(* lead while the bot talks (handlers_tool_invoke.go, store/tools.go), the *)
(* end of the channel (handleChannelDestroyed, FinishCall) and the events  *)
(* OnCallFinished hands to the webhook dispatcher (module OutWebhook).     *)
(*                                                                         *)
(* Tool requests, the ARI loop, the goroutine of OnCallFinished and the    *)
(* dispatcher run side by side; a request is cut at its statements.  Of    *)
(* the dispatcher only its queue is here.  A call has one tool request at  *)
(* a time.  The channel's id is in the row before the channel ends; the    *)
(* race for that is in module CampaignDispatch.                            *)
(* A tool stands for the marks its action leaves; tools without            *)
(* marks (transfer_human, the tool webhook, the searches) are left out,    *)
(* and so is the log of invocations.  The meeting that                     *)
(* calendar_schedule_meeting books is in module Meetings.                  *)
(***************************************************************************)
EXTENDS Integers, Sequences, FiniteSets

CONSTANTS
    Calls,
    HasLead,        \* calls with a lead
    FirstTools,     \* actions of the tools the bot has at first
    OutboxSize,     \* capacity of the dispatcher's queue (1024)
    MaxTools,       \* bound: tool requests of a call
    MaxSwitches,    \* bound: changes of the bot's tools
    MaxCallFaults   \* bound: failed statements

Actions == {"set_lead_outcome", "set_lead_status", "schedule_callback", "end_call",
            "calendar_schedule_meeting"}

ASSUME CallOutcomeAssumption ==
    /\ HasLead \subseteq Calls
    /\ FirstTools \subseteq Actions
    /\ OutboxSize \in Nat \ {0}
    /\ {MaxTools, MaxSwitches, MaxCallFaults} \subseteq Nat

VARIABLES
    row,        \* calls: status and outcome
    lead,       \* leads: status of the call's lead
    enabled,    \* actions whose tool is enabled and assigned to the bot
    tool,       \* the call's tool request: the marks still to make
    tools,      \* tool requests made so far
    ari,        \* the cause a ChannelDestroyed handler is about to store
    hook,       \* the goroutine of OnCallFinished
    told,       \* history: the outcome OnCallFinished read
    marked,     \* history: the last outcome a tool stored
    late,       \* history: calls marked after OnCallFinished read the row
    unfinished, \* history: calls whose FinishCall or hook failed
    outbox,     \* Dispatcher.ch
    offered,    \* history: events handed to Dispatch
    switches, callFaults

callVars == <<row, lead, enabled, tool, tools, ari, hook, told, marked, late, unfinished,
              outbox, offered, switches, callFaults>>

Keep == ""
NotTold == "not told"

ToolOutcomes == {"qualified"}
Causes == {"busy", "no_answer", "unreachable"}
AllOutcomes == ToolOutcomes \cup Causes \cup {Keep, "callback", "completed"}

CallEvents == [call: Calls, type: {"call.completed", "call.qualified"}]

NoTool == [action |-> Keep, lead |-> Keep, call |-> Keep]

CallTypeOK ==
    /\ row \in [Calls -> [status: {"dialing", "answered", "completed", "failed"},
                          outcome: AllOutcomes]]
    /\ lead \in [Calls -> {"new", "contacted", "callback"}]
    /\ enabled \subseteq Actions
    /\ tool \in [Calls -> [action: Actions \cup {Keep}, lead: {Keep, "contacted", "callback"},
                           call: AllOutcomes]]
    /\ tools \in [Calls -> 0..MaxTools]
    /\ ari \in [Calls -> {"up", "idle"} \cup Causes \cup {Keep}]
    /\ hook \in [Calls -> {"none", "due", "qualified", "done"}]
    /\ told \in [Calls -> AllOutcomes \cup {NotTold}]
    /\ marked \in [Calls -> AllOutcomes]
    /\ late \subseteq Calls /\ unfinished \subseteq Calls
    /\ outbox \in Seq(CallEvents) /\ Len(outbox) <= OutboxSize
    /\ offered \subseteq CallEvents
    /\ switches \in 0..MaxSwitches /\ callFaults \in 0..MaxCallFaults

CallInit ==
    /\ row = [c \in Calls |-> [status |-> "dialing", outcome |-> Keep]]
    /\ lead = [c \in Calls |-> "new"]
    /\ late = {} /\ unfinished = {}
    /\ enabled = FirstTools
    /\ tool = [c \in Calls |-> NoTool]
    /\ tools = [c \in Calls |-> 0]
    /\ ari = [c \in Calls |-> "up"]
    /\ hook = [c \in Calls |-> "none"]
    /\ told = [c \in Calls |-> NotTold]
    /\ marked = [c \in Calls |-> Keep]
    /\ outbox = <<>> /\ offered = {}
    /\ switches = 0 /\ callFaults = 0

----------------------------------------------------------------------------
(* The call and its tools.                                                  *)

\* StasisStart: the row is answered and the session linked to it.
CallAnswered(c) ==
    /\ ari[c] = "up" /\ row[c].status = "dialing"
    /\ row' = [row EXCEPT ![c].status = "answered"]
    /\ UNCHANGED <<lead, enabled, tool, tools, ari, hook, told, marked, late, unfinished,
                   outbox, offered, switches, callFaults>>

\* The operator enables, disables, assigns, unassigns or deletes a tool.
SwitchTool(a) ==
    /\ switches < MaxSwitches
    /\ switches' = switches + 1
    /\ enabled' = IF a \in enabled THEN enabled \ {a} ELSE enabled \cup {a}
    /\ UNCHANGED <<row, lead, tool, tools, ari, hook, told, marked, late, unfinished,
                   outbox, offered, callFaults>>

\* The marks an action leaves on the lead and on the call; without a lead two
\* of the actions are refused.
Marks(c, a) ==
    CASE a = "set_lead_outcome" ->
            {[action |-> a, lead |-> Keep, call |-> v] : v \in ToolOutcomes}
      [] a = "set_lead_status" /\ c \in HasLead ->
            {[action |-> a, lead |-> "contacted", call |-> Keep]}
      [] a = "schedule_callback" /\ c \in HasLead ->
            {[action |-> a, lead |-> "callback", call |-> "callback"]}
      [] a = "end_call" ->
            {[action |-> a, lead |-> Keep, call |-> "completed"]}
      [] a = "calendar_schedule_meeting" ->
            {[action |-> a, lead |-> IF c \in HasLead THEN "callback" ELSE Keep,
              call |-> "callback"]}
      [] OTHER -> {}

\* handleInternalToolInvoke up to executeToolAction: the session's call and
\* the bot's tools are read.  The status of the call is not looked at, and the
\* session may outlive the channel.
ToolInvoke(c, a) ==
    /\ row[c].status # "dialing" /\ tool[c] = NoTool /\ tools[c] < MaxTools
    /\ a \in enabled
    /\ \E m \in Marks(c, a) : tool' = [tool EXCEPT ![c] = m]
    /\ tools' = [tools EXCEPT ![c] = @ + 1]
    /\ UNCHANGED <<row, lead, enabled, ari, hook, told, marked, late, unfinished,
                   outbox, offered, switches, callFaults>>

CallFault ==
    /\ callFaults < MaxCallFaults
    /\ callFaults' = callFaults + 1

\* set_lead_status answers with the error; the others ignore it and go on.
UpdateLeadStatus(c) ==
    /\ tool[c].lead # Keep
    /\ \/ /\ lead' = [lead EXCEPT ![c] = tool[c].lead]
          /\ UNCHANGED callFaults
       \/ /\ CallFault
          /\ UNCHANGED lead
    /\ tool' = [tool EXCEPT ![c] = IF @.call = Keep THEN NoTool ELSE [@ EXCEPT !.lead = Keep]]
    /\ UNCHANGED <<row, enabled, tools, ari, hook, told, marked, late, unfinished,
                   outbox, offered, switches>>

UpdateCallOutcome(c) ==
    /\ tool[c].lead = Keep /\ tool[c].call # Keep
    /\ \/ /\ row' = [row EXCEPT ![c].outcome = tool[c].call]
          /\ marked' = [marked EXCEPT ![c] = tool[c].call]
          /\ late' = IF told[c] # NotTold THEN late \cup {c} ELSE late
          /\ UNCHANGED callFaults
       \/ /\ CallFault
          /\ UNCHANGED <<row, marked, late>>
    /\ tool' = [tool EXCEPT ![c] = NoTool]
    /\ UNCHANGED <<lead, enabled, tools, ari, hook, told, unfinished,
                   outbox, offered, switches>>

----------------------------------------------------------------------------
(* The end of the channel.                                                  *)

\* A bug to look for: the hook is started before the row is stored.
HookFirst(c, cause) ==
    /\ ari' = [ari EXCEPT ![c] = cause]
    /\ hook' = [hook EXCEPT ![c] = "due"]

\* The call is found and its outcome decided; a channel that was answered ends
\* without one of the causes that stand for a call that was not.
DestroyedCause(c, cause) ==
    /\ ari' = [ari EXCEPT ![c] = cause]
    /\ UNCHANGED hook

ChannelDestroyed(c, cause) ==
    /\ ari[c] = "up"
    /\ row[c].status = "answered" => cause = Keep
    /\ \/ /\ DestroyedCause(c, cause)
          /\ UNCHANGED <<unfinished, callFaults>>
       \/ /\ CallFault  \* the call is not found: nobody will be told
          /\ ari' = [ari EXCEPT ![c] = cause]
          /\ hook' = [hook EXCEPT ![c] = "done"]
          /\ unfinished' = unfinished \cup {c}
    /\ UNCHANGED <<row, lead, enabled, tool, tools, told, marked, late,
                   outbox, offered, switches>>

\* A bug to look for: the outcome is stored as it comes, empty or not.
StoredAsIs(old, cause) == cause

\* COALESCE(NULLIF($3, ''), outcome)
FinalOutcome(old, cause) == IF cause = Keep THEN old ELSE cause

\* A bug to look for: only an outcome that is known is told.
DueIfCause(c) == IF ari[c] = Keep THEN "none" ELSE "due"

DueAfter(c) == "due"

\* FinishCall, then the goroutine; an error of the UPDATE is only logged.
FinishCall(c) ==
    /\ ari[c] \in Causes \cup {Keep}
    /\ \/ /\ row' = [row EXCEPT ![c] =
                       [status |-> IF ari[c] = "unreachable" THEN "failed" ELSE "completed",
                        outcome |-> FinalOutcome(row[c].outcome, ari[c])]]
          /\ UNCHANGED <<unfinished, callFaults>>
       \/ /\ CallFault
          /\ unfinished' = unfinished \cup {c}
          /\ UNCHANGED row
    /\ ari' = [ari EXCEPT ![c] = "idle"]
    /\ hook' = [hook EXCEPT ![c] = IF @ = "none" THEN DueAfter(c) ELSE @]
    /\ UNCHANGED <<lead, enabled, tool, tools, told, marked, late,
                   outbox, offered, switches>>

Completed(c) == [call |-> c, type |-> "call.completed"]
Qualified(c) == [call |-> c, type |-> "call.qualified"]

\* A bug to look for: the queue grows.
DispatchEventAnyway(ev) ==
    /\ outbox' = Append(outbox, ev)
    /\ offered' = offered \cup {ev}

\* Dispatch: the event is dropped when the queue is full.
DispatchEvent(ev) ==
    /\ outbox' = IF Len(outbox) < OutboxSize THEN Append(outbox, ev) ELSE outbox
    /\ offered' = offered \cup {ev}

\* OnCallFinished reads the row and dispatches call.completed.
OnCallFinished(c) ==
    /\ hook[c] = "due"
    /\ \/ /\ told' = [told EXCEPT ![c] = row[c].outcome]
          /\ DispatchEvent(Completed(c))
          /\ hook' = [hook EXCEPT ![c] = IF row[c].outcome = "qualified"
                                         THEN "qualified" ELSE "done"]
          /\ UNCHANGED <<unfinished, callFaults>>
       \/ /\ CallFault
          /\ hook' = [hook EXCEPT ![c] = "done"]
          /\ unfinished' = unfinished \cup {c}
          /\ UNCHANGED <<told, outbox, offered>>
    /\ UNCHANGED <<row, lead, enabled, tool, tools, ari, marked, late,
                   switches>>

DispatchQualified(c) ==
    /\ hook[c] = "qualified"
    /\ DispatchEvent(Qualified(c))
    /\ hook' = [hook EXCEPT ![c] = "done"]
    /\ UNCHANGED <<row, lead, enabled, tool, tools, ari, told, marked, late, unfinished,
                   switches, callFaults>>

----------------------------------------------------------------------------
CallProceeds(c) ==
    \/ UpdateLeadStatus(c) \/ UpdateCallOutcome(c)
    \/ FinishCall(c) \/ OnCallFinished(c) \/ DispatchQualified(c)

\* A worker of the dispatcher (module OutWebhook) takes an event.
WorkerTakes ==
    /\ outbox # <<>>
    /\ outbox' = Tail(outbox)
    /\ UNCHANGED <<row, lead, enabled, tool, tools, ari, hook, told, marked, late, unfinished,
                   offered, switches, callFaults>>

CallNext ==
    \/ \E a \in Actions : SwitchTool(a)
    \/ \E c \in Calls :
          \/ CallAnswered(c) \/ CallProceeds(c)
          \/ \E a \in Actions : ToolInvoke(c, a)
          \/ \E cause \in Causes \cup {Keep} : ChannelDestroyed(c, cause)
    \/ WorkerTakes

CallSpec == CallInit /\ [][CallNext]_callVars

----------------------------------------------------------------------------
(* Properties.                                                              *)

\* The outcome a subscriber is told is the one the portal shows, except when
\* a tool request still in flight marked the call after OnCallFinished read
\* the row (nothing tells the subscriber then).
ToldIsWhatTheRowSays ==
    \A c \in Calls :
        told[c] # NotTold /\ c \notin late \cup unfinished => row[c].outcome = told[c]

\* A call that a tool marked qualified and that ended normally is reported as
\* qualified: FinishCall does not erase the mark, and call.qualified is
\* offered to the dispatcher.
QualifiedIsReported ==
    \A c \in Calls :
        /\ hook[c] = "done" /\ marked[c] = "qualified" /\ c \notin late \cup unfinished
        => told[c] = "qualified" /\ Qualified(c) \in offered

\* Every call whose channel is destroyed is told of, or a fault kept it back.
EveryEndIsTold ==
    \A c \in Calls : ari[c] # "up" ~> (told[c] # NotTold \/ c \in unfinished)

\* What subscribers are told of a call is what its row says, and a qualified
\* call is told as qualified (OnCallFinished, FinishCall, executeToolAction).
OutcomeInv == CallTypeOK /\ ToldIsWhatTheRowSays /\ QualifiedIsReported
=============================================================================
