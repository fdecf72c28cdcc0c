------------------------------ MODULE Routing ------------------------------
(***************************************************************************)
(* Inbound calls (backend/internal/app/ari_handler.go, handleInbound) and  *)
(* the tables that route them: DIDs given to tenants by the platform's     *)
(* administrators, bots given a DID by their tenant, and the routing rules *)
(* of a DID (store/trunks.go, store/did_routing.go, store/store.go and     *)
(* their handlers).                                                        *)
(*                                                                         *)
(* The ARI loop handles one event at a time, so one inbound call is set up *)
(* at a time; its queries are separate statements, and the requests of the *)
(* portal, which check in one statement and write in another, interleave   *)
(* with them.  MaxRouteEdits bounds the requests, MaxRules the rules       *)
(* created, MaxRouteFaults the queries and calls that fail, MaxArrivals    *)
(* the inbound calls.  A call that is over lends its name to a later one.  *)
(***************************************************************************)
EXTENDS Integers, Functions, FiniteSets

CONSTANTS
  Tenants, Bots, BotTenant, Dids, FirstTenant, FirstDid,
  RuleShapes,      \* conditions a rule may have: [days, start, end, prefixes]
  Priorities,
  Moments,         \* [day, minute] at which calls arrive
  DayLength,       \* minutes of a day
  Callers, PrefixOf,
  InboundCalls, Requests,
  MaxRouteEdits, MaxRules, MaxRouteFaults, MaxArrivals

ASSUME RoutingAssumption ==
  /\ BotTenant \in [Bots -> Tenants]
  /\ FirstTenant \in [Dids -> Tenants]
  /\ FirstDid \in [Bots -> Dids \cup {"none"}]
  /\ \A b \in Bots : FirstDid[b] \in {d \in Dids : FirstTenant[d] = BotTenant[b]} \cup {"none"}
  /\ "none" \notin Tenants \cup Dids \cup InboundCalls
  /\ DayLength \in Nat \ {0} /\ Priorities \subseteq Int
  /\ \A s \in RuleShapes : s.timed => {s.start, s.end} \subseteq 0..(DayLength - 1)
  /\ \A m \in Moments : m.minute \in 0..(DayLength - 1)
  /\ MaxRouteEdits \in Nat /\ MaxRules \in Nat /\ MaxRouteFaults \in Nat
  /\ MaxArrivals \in Nat

NoOne == "none"
Deleted == "deleted"
NoRequest == [op |-> "none"]

VARIABLES
  didTenant,    \* Dids -> tenant_id, NoOne (the pool) or Deleted
  didActive,    \* Dids -> status = 'active'
  botDid,       \* Bots -> did_id, or NoOne
  rules,        \* the rows of did_routing_rules
  bots,         \* the bots that exist
  leadRows,     \* the leads inbound calls made, numbered by arrival; with or
                \* without "+"; looked: a lookup had found no such lead
  dnc,          \* the do-not-call list: [tenant, caller, plus]
  request,      \* Requests -> the check a portal request has made, or NoRequest
  inbound,      \* InboundCalls -> its record
  onLoop,       \* the inbound call the ARI loop is setting up, or NoOne
  routeEdits, ruleCount, routeFaults, arrivals,
  raced         \* history: bots that have their number by a race of two requests

routeVars == <<didTenant, didActive, botDid, rules, bots, leadRows, dnc, request,
               inbound, onLoop, routeEdits, ruleCount, routeFaults, arrivals, raced>>

tables == <<didTenant, didActive, botDid, rules, bots, dnc>>

Phones == [tenant: Tenants, caller: Callers, plus: BOOLEAN]
LeadRows == [n: 1..MaxArrivals, tenant: Tenants, caller: Callers, plus: BOOLEAN,
             looked: BOOLEAN]

Rules == [n: 1..MaxRules, did: Dids, tenant: Tenants, priority: Priorities,
          enabled: BOOLEAN, shape: RuleShapes, bot: Bots]

Fresh == [step |-> "ringing", did |-> NoOne, caller |-> NoOne, plus |-> FALSE,
          at |-> NoOne, tenant |-> NoOne, saw |-> {}, rule |-> 0, bot |-> NoOne,
          why |-> NoOne, newLead |-> FALSE, looked |-> FALSE, barred |-> {}, row |-> "none"]

RouteInit ==
  /\ didTenant = FirstTenant
  /\ didActive = [d \in Dids |-> TRUE]
  /\ botDid = FirstDid
  /\ rules = {} /\ leadRows = {} /\ dnc = {} /\ bots = Bots
  /\ request = [q \in Requests |-> NoRequest]
  /\ inbound = [c \in InboundCalls |-> Fresh]
  /\ onLoop = NoOne
  /\ routeEdits = 0 /\ ruleCount = 0 /\ routeFaults = 0 /\ arrivals = 0
  /\ raced = {}

-----------------------------------------------------------------------------
(* Requests of the portal. *)

PhoneOf(r) == [tenant |-> r.tenant, caller |-> r.caller, plus |-> r.plus]

Asks(q, r) ==
  /\ request[q] = NoRequest
  /\ routeEdits < MaxRouteEdits /\ routeEdits' = routeEdits + 1
  /\ request' = [request EXCEPT ![q] = r]
  /\ UNCHANGED <<tables, leadRows, inbound, onLoop, ruleCount, routeFaults, arrivals, raced>>

Done(q) ==
  /\ request' = [request EXCEPT ![q] = NoRequest]
  /\ UNCHANGED <<leadRows, inbound, onLoop, routeEdits, routeFaults, arrivals>>

(* A request of a single statement. *)
AsksOnce ==
  /\ routeEdits < MaxRouteEdits /\ routeEdits' = routeEdits + 1
  /\ UNCHANGED <<leadRows, request, onLoop, ruleCount, routeFaults, arrivals, raced>>

(* AssignDIDToTenant is a transaction of three statements.  It reads the owner, *)
AssignDIDReads(q, d, t) ==
  /\ didTenant[d] # Deleted
  /\ Asks(q, [op |-> "assign", did |-> d, tenant |-> didTenant[d], to |-> t])

DetachesReleasedOnly(r) == r.tenant # NoOne /\ r.to = NoOne
Detaches(r) == r.tenant # NoOne /\ r.tenant # r.to

HoldersOf(d) == {b \in Bots : botDid[b] = d}

(* The bots whose rows an open transaction has updated: nobody reads the update
   before its commit, and whoever writes these rows waits for it. *)
Locked(b) == \E q \in Requests : request[q].op = "move" /\ b \in request[q].detached

(* takes the number from the bots that have it now, when the owner changes, *)
AssignDIDDetaches(q) ==
  LET r == request[q]
  IN  /\ r.op = "assign"
      /\ Detaches(r) => \A b \in HoldersOf(r.did) : ~Locked(b)
      /\ request' = [request EXCEPT ![q] =
           [op |-> "move", did |-> r.did, tenant |-> r.tenant, to |-> r.to,
            detached |-> IF Detaches(r) THEN HoldersOf(r.did) ELSE {}]]
      /\ UNCHANGED <<tables, leadRows, inbound, onLoop, routeEdits, ruleCount, routeFaults,
                     arrivals, raced>>

(* and writes the new owner and commits: until the commit others read the old
   owner, and who writes the row of the DID waits.  Bots that keep the number
   although the owner was not the one read are in a race. *)
AssignDIDToTenant(q) ==
  LET r == request[q]
  IN  /\ r.op = "move"
      /\ botDid' = [b \in Bots |-> IF b \in r.detached THEN NoOne ELSE botDid[b]]
      /\ IF didTenant[r.did] = Deleted THEN UNCHANGED <<didTenant, raced>>
         ELSE /\ didTenant' = [didTenant EXCEPT ![r.did] = r.to]
              /\ raced' = IF didTenant[r.did] = r.tenant THEN raced
                          ELSE raced \cup HoldersOf(r.did)
      /\ Done(q)
      /\ UNCHANGED <<didActive, rules, bots, dnc, ruleCount>>

(* A statement fails, or the transaction is the victim of a deadlock. *)
AssignRollsBack(q) ==
  /\ request[q].op = "move"
  /\ Done(q)
  /\ UNCHANGED <<tables, ruleCount, raced>>

(* AssignBotDID checks the DID's tenant and writes the bot's row afterwards. *)
AssignBotReads(q, b, d) ==
  /\ d # NoOne => didTenant[d] = BotTenant[b]
  /\ Asks(q, [op |-> "bot", bot |-> b, did |-> d, tenant |-> BotTenant[b]])

(* The number is being moved from the tenant, or has been, since the check. *)
Overtaken(r) ==
  \/ didTenant[r.did] # r.tenant
  \/ \E p \in Requests : /\ request[p].op = "move"
                         /\ request[p].did = r.did /\ request[p].to # r.tenant

AssignBotDID(q) ==
  LET r == request[q]
  IN  /\ r.op = "bot"
      /\ ~Locked(r.bot)
      /\ IF r.bot \notin bots \/ (r.did # NoOne /\ didTenant[r.did] = Deleted)
           THEN UNCHANGED <<botDid, raced>>
           ELSE /\ botDid' = [botDid EXCEPT ![r.bot] = r.did]
                /\ raced' = IF r.did # NoOne /\ Overtaken(r) THEN raced \cup {r.bot}
                            ELSE raced \ {r.bot}
      /\ Done(q)
      /\ UNCHANGED <<didTenant, didActive, rules, bots, dnc, ruleCount>>

UpdateDID(d) ==
  /\ didTenant[d] # Deleted
  /\ didActive' = [didActive EXCEPT ![d] = ~@]
  /\ AsksOnce
  /\ UNCHANGED <<didTenant, botDid, rules, bots, dnc, inbound>>

(* The rules go with the DID, the bots lose it. *)
DeleteDID(d) ==
  /\ didTenant[d] # Deleted
  /\ \A b \in HoldersOf(d) : ~Locked(b)
  /\ didTenant' = [didTenant EXCEPT ![d] = Deleted]
  /\ rules' = {u \in rules : u.did # d}
  /\ botDid' = [b \in Bots |-> IF botDid[b] = d THEN NoOne ELSE botDid[b]]
  /\ AsksOnce
  /\ UNCHANGED <<didActive, bots, dnc, inbound>>

(* ON DELETE RESTRICT: a bot that a rule targets stays. *)
DeleteBot(b) ==
  /\ b \in bots /\ \A u \in rules : u.bot # b
  /\ ~Locked(b)
  /\ bots' = bots \ {b}
  /\ botDid' = [botDid EXCEPT ![b] = NoOne]
  /\ AsksOnce
  /\ UNCHANGED <<didTenant, didActive, rules, dnc, inbound>>

(* handleCreateDIDRoutingRule takes the tenant from the DID; the store checks it
   again with the bot's tenant, and inserts. *)
CreateRuleChecks(q, d, p, s, b) ==
  /\ ruleCount < MaxRules
  /\ didTenant[d] = BotTenant[b] /\ b \in bots
  /\ Asks(q, [op |-> "rule", did |-> d, tenant |-> didTenant[d],
              priority |-> p, shape |-> s, bot |-> b])

CreateDIDRoutingRule(q) ==
  LET r == request[q]
  IN  /\ r.op = "rule"
      /\ IF didTenant[r.did] # Deleted /\ r.bot \in bots /\ ruleCount < MaxRules
           THEN /\ ruleCount' = ruleCount + 1
                /\ rules' = rules \cup {[n |-> ruleCount', did |-> r.did, tenant |-> r.tenant,
                                         priority |-> r.priority, enabled |-> TRUE,
                                         shape |-> r.shape, bot |-> r.bot]}
           ELSE UNCHANGED <<rules, ruleCount>>
      /\ Done(q)
      /\ UNCHANGED <<didTenant, didActive, botDid, bots, dnc, raced>>

(* handleUpdateDIDRoutingRule: the scope is the DID's present tenant, and what
   the request leaves out is written back as it was read. *)
UpdateRuleReads(q, u, e, p) ==
  /\ didTenant[u.did] = u.tenant
  /\ Asks(q, [op |-> "patch", rule |-> u, enabled |-> e, priority |-> p])

UpdateDIDRoutingRule(q) ==
  LET r == request[q]
  IN  /\ r.op = "patch"
      /\ rules' = {IF u.n = r.rule.n THEN [u EXCEPT !.enabled = r.enabled, !.priority = r.priority]
                                     ELSE u : u \in rules}
      /\ Done(q)
      /\ UNCHANGED <<didTenant, didActive, botDid, bots, dnc, ruleCount, raced>>

DeleteDIDRoutingRule(u) ==
  /\ didTenant[u.did] = u.tenant
  /\ rules' = rules \ {u}
  /\ AsksOnce
  /\ UNCHANGED <<didTenant, didActive, botDid, bots, dnc, inbound>>

(* The number is stored as it was typed. *)
AddDoNotCall(e) ==
  /\ e \notin dnc
  /\ dnc' = dnc \cup {e}
  /\ AsksOnce
  /\ UNCHANGED <<didTenant, didActive, botDid, rules, bots, inbound>>

RemoveDoNotCall(e) ==
  /\ e \in dnc
  /\ dnc' = dnc \ {e}
  /\ inbound' = [c \in InboundCalls |->
                   IF inbound[c].tenant = e.tenant /\ inbound[c].caller = e.caller
                   THEN [inbound[c] EXCEPT !.barred = @ \ {e.plus}]
                   ELSE inbound[c]]
  /\ AsksOnce
  /\ UNCHANGED <<didTenant, didActive, botDid, rules, bots>>

-----------------------------------------------------------------------------
(* ruleMatches *)

InWindow(s, minute) ==
  IF s.start <= s.end THEN s.start <= minute /\ minute < s.end
                      ELSE minute >= s.start \/ minute < s.end

RuleMatches(r, caller, at) ==
  /\ r.shape.days # {} => at.day \in r.shape.days
  /\ r.shape.timed => InWindow(r.shape, at.minute)
  /\ r.shape.prefixes # {} => PrefixOf[caller] \in r.shape.prefixes
  /\ r.shape.language = ""             \* handleInbound passes no language

(* ListDIDRoutingRules: the rows of the query, by priority and age.  The rules
   have different numbers, so that it has one answer. *)
BeforeByAge(r, u) == r.n < u.n
Before(r, u) == r.priority < u.priority \/ (r.priority = u.priority /\ r.n < u.n)
ListDIDRoutingRules(set) ==
  {list \in [1..Cardinality(set) -> set] :
     /\ Range(list) = set
     /\ \A i, j \in DOMAIN list : i < j => Before(list[i], list[j])}

Takes(r, caller, at) == r.enabled /\ RuleMatches(r, caller, at)

(* The loop of ResolveDIDRouting stops at the first rule it takes. *)
Chosen(list, caller, at) ==
  {i \in DOMAIN list : /\ Takes(list[i], caller, at)
                       /\ \A j \in 1..(i - 1) : ~Takes(list[j], caller, at)}

DefaultBotAnyTenant(d, t) == {b \in Bots : botDid[b] = d}
DefaultBot(d, t) == {b \in Bots : botDid[b] = d /\ BotTenant[b] = t}

-----------------------------------------------------------------------------
(* handleInbound, statement by statement. *)

Here(c, step) == onLoop = c /\ inbound[c].step = step
Becomes(c, r) == inbound' = [inbound EXCEPT ![c] = r]
RouteFault == routeFaults < MaxRouteFaults /\ routeFaults' = routeFaults + 1
QuietPortal == UNCHANGED <<tables, request, routeEdits, ruleCount, raced>>

(* The error path of handleStasisStart: the channel is hung up. *)
HangUp(c, why) ==
  /\ Becomes(c, [inbound[c] EXCEPT !.step = "hungup", !.why = why])
  /\ onLoop' = NoOne

(* The forms in which a caller's number is on a tenant's do-not-call list. *)
ListedForms(t, caller) == {plus \in BOOLEAN : [tenant |-> t, caller |-> caller, plus |-> plus] \in dnc}

(* LookupInboundRoute: an active DID with a tenant. *)
StasisStart(c, d, caller, plus, at) ==
  /\ onLoop = NoOne /\ inbound[c].step \in {"ringing", "gone"}
  /\ arrivals < MaxArrivals /\ arrivals' = arrivals + 1
  /\ LET r == [Fresh EXCEPT !.did = d, !.caller = caller, !.plus = plus, !.at = at]
     IN  IF didActive[d] /\ didTenant[d] \in Tenants
           THEN /\ Becomes(c, [r EXCEPT !.tenant = didTenant[d], !.step = "rules",
                               !.barred = ListedForms(didTenant[d], caller)])
                /\ onLoop' = c
           ELSE /\ Becomes(c, [r EXCEPT !.step = "hungup", !.why = "unknown_did"])
                /\ UNCHANGED onLoop
  /\ QuietPortal /\ UNCHANGED <<leadRows, routeFaults>>

ResolveRules(c) ==
  /\ Here(c, "rules")
  /\ LET r == inbound[c]
         own == {u \in rules : u.did = r.did /\ u.tenant = r.tenant}
     IN  \E list \in ListDIDRoutingRules(own) :
           \/ \E i \in Chosen(list, r.caller, r.at) :
                Becomes(c, [r EXCEPT !.saw = own, !.rule = list[i].n, !.bot = list[i].bot,
                                     !.why = "matched_rule", !.step = "bot"])
           \/ /\ \A i \in DOMAIN list : ~Takes(list[i], r.caller, r.at)
              /\ Becomes(c, [r EXCEPT !.saw = own, !.step = "default"])
  /\ QuietPortal /\ UNCHANGED <<leadRows, onLoop, routeFaults, arrivals>>

ResolveDefault(c) ==
  /\ Here(c, "default")
  /\ LET r == inbound[c]
         found == DefaultBot(r.did, r.tenant)
     IN  IF found = {} THEN HangUp(c, "no_route")
         ELSE /\ \E b \in found :
                   Becomes(c, [r EXCEPT !.bot = b, !.why = "default_did_bot", !.step = "bot"])
              /\ UNCHANGED onLoop
  /\ QuietPortal /\ UNCHANGED <<leadRows, routeFaults, arrivals>>

(* GetBot of the tenant, then the do-not-call list, compared with the number as
   it was delivered; a query that fails blocks nobody. *)
InDNCUnlessLead(r) == PhoneOf(r) \in dnc /\ \A l \in leadRows : PhoneOf(l) # PhoneOf(r)
InDNC(r) == PhoneOf(r) \in dnc

Screen(c) ==
  /\ Here(c, "bot")
  /\ LET r == inbound[c]
     IN  IF r.bot \notin bots \/ BotTenant[r.bot] # r.tenant
           THEN HangUp(c, "bot_not_found") /\ UNCHANGED routeFaults
           ELSE \/ InDNC(r) /\ HangUp(c, "dnc") /\ UNCHANGED routeFaults
                \/ /\ ~InDNC(r) /\ Becomes(c, [r EXCEPT !.step = "lead"])
                   /\ UNCHANGED <<onLoop, routeFaults>>
                \/ /\ InDNC(r) /\ RouteFault
                   /\ Becomes(c, [r EXCEPT !.step = "lead", !.barred = {}])
                   /\ UNCHANGED onLoop
  /\ QuietPortal /\ UNCHANGED <<leadRows, arrivals>>

(* FindLeadByPhone compares the number as delivered and, when it came without
   one, with a "+" in front. *)
LeadMatchesExactly(l, r) == l.tenant = r.tenant /\ l.caller = r.caller /\ l.plus = r.plus
LeadMatches(l, r) == l.tenant = r.tenant /\ l.caller = r.caller /\ (l.plus = r.plus \/ ~r.plus)

FindLeadByPhone(c) ==
  /\ Here(c, "lead")
  /\ LET r == inbound[c]
         found == \E l \in leadRows : LeadMatches(l, r)
     IN  \/ /\ Becomes(c, [r EXCEPT !.step = IF found THEN "row" ELSE "newlead", !.looked = TRUE])
            /\ UNCHANGED routeFaults
         \/ RouteFault /\ Becomes(c, [r EXCEPT !.step = "newlead"])
  /\ QuietPortal /\ UNCHANGED <<leadRows, onLoop, arrivals>>

(* A lead that cannot be created leaves the call without one. *)
CreateLead(c) ==
  /\ Here(c, "newlead")
  /\ LET r == inbound[c]
     IN  \/ /\ leadRows' = leadRows \cup {[n |-> arrivals, tenant |-> r.tenant, caller |-> r.caller,
                                           plus |-> r.plus, looked |-> r.looked]}
            /\ Becomes(c, [r EXCEPT !.step = "row", !.newLead = TRUE])
            /\ UNCHANGED routeFaults
         \/ RouteFault /\ Becomes(c, [r EXCEPT !.step = "row"]) /\ UNCHANGED leadRows
  /\ QuietPortal /\ UNCHANGED <<onLoop, arrivals>>

CreateInboundCall(c) ==
  /\ Here(c, "row")
  /\ \/ /\ Becomes(c, [inbound[c] EXCEPT !.step = "session", !.row = "answered"])
        /\ UNCHANGED <<onLoop, routeFaults>>
     \/ RouteFault /\ HangUp(c, "row_failed")
  /\ QuietPortal /\ UNCHANGED <<leadRows, arrivals>>

(* CreateSession (five seconds), and the bridging that follows it. *)
CreateInboundSession(c) ==
  /\ Here(c, "session")
  /\ \/ /\ Becomes(c, [inbound[c] EXCEPT !.step = "bridged"]) /\ onLoop' = NoOne
        /\ UNCHANGED routeFaults
     \/ RouteFault /\ HangUp(c, "session_failed")
  /\ QuietPortal /\ UNCHANGED <<leadRows, arrivals>>

ClosedIfBridged(r) == IF r.step = "bridged" /\ r.row = "answered" THEN "completed" ELSE r.row
ClosedRow(r) == IF r.row = "answered" THEN "completed" ELSE r.row

(* ChannelDestroyed, after StasisStart on the same loop: FinishCall closes the
   row of the channel if there is one.  The event may be lost with the websocket,
   or the UPDATE fail: the row stays answered, which "unclosed" remembers. *)
InboundDestroyed(c) ==
  /\ onLoop = NoOne /\ inbound[c].step \in {"hungup", "bridged"}
  /\ LET r == [inbound[c] EXCEPT !.step = "gone"]
     IN  \/ Becomes(c, [r EXCEPT !.row = ClosedRow(inbound[c])]) /\ UNCHANGED routeFaults
         \/ RouteFault /\ Becomes(c, [r EXCEPT !.row = IF @ = "answered" THEN "unclosed" ELSE @])
  /\ QuietPortal /\ UNCHANGED <<leadRows, onLoop, arrivals>>

PortalStep ==
  \/ \E q \in Requests, d \in Dids, t \in Tenants \cup {NoOne} : AssignDIDReads(q, d, t)
  \/ \E q \in Requests, b \in Bots, d \in Dids \cup {NoOne} : AssignBotReads(q, b, d)
  \/ \E q \in Requests, d \in Dids, p \in Priorities, s \in RuleShapes, b \in Bots :
       CreateRuleChecks(q, d, p, s, b)
  \/ \E q \in Requests, u \in rules, e \in BOOLEAN, p \in Priorities : UpdateRuleReads(q, u, e, p)
  \/ \E q \in Requests : AssignDIDDetaches(q)
  \/ \E q \in Requests : AssignDIDToTenant(q)
  \/ \E q \in Requests : AssignRollsBack(q)
  \/ \E q \in Requests : AssignBotDID(q)
  \/ \E q \in Requests : CreateDIDRoutingRule(q)
  \/ \E q \in Requests : UpdateDIDRoutingRule(q)
  \/ \E u \in rules : DeleteDIDRoutingRule(u)
  \/ \E d \in Dids : UpdateDID(d)
  \/ \E d \in Dids : DeleteDID(d)
  \/ \E b \in Bots : DeleteBot(b)
  \/ \E e \in Phones : AddDoNotCall(e)
  \/ \E e \in Phones : RemoveDoNotCall(e)

LoopStep ==
  \E c \in InboundCalls :
    \/ ResolveRules(c) \/ ResolveDefault(c) \/ Screen(c) \/ FindLeadByPhone(c)
    \/ CreateLead(c) \/ CreateInboundCall(c) \/ CreateInboundSession(c) \/ InboundDestroyed(c)

RouteNext ==
  \/ PortalStep
  \/ LoopStep
  \/ \E c \in InboundCalls, d \in Dids, p \in Callers, plus \in BOOLEAN, at \in Moments :
       StasisStart(c, d, p, plus, at)

RouteSpec == RouteInit /\ [][RouteNext]_routeVars

-----------------------------------------------------------------------------

(* The rows and the call being set up have their types. *)
RouteTypeOK ==
  /\ didTenant \in [Dids -> Tenants \cup {NoOne, Deleted}]
  /\ didActive \in [Dids -> BOOLEAN]
  /\ botDid \in [Bots -> Dids \cup {NoOne}]
  /\ rules \subseteq Rules
  /\ leadRows \subseteq LeadRows /\ dnc \subseteq Phones /\ bots \subseteq Bots
  /\ onLoop \in InboundCalls \cup {NoOne}
  /\ routeEdits \in 0..MaxRouteEdits /\ ruleCount \in 0..MaxRules
  /\ routeFaults \in 0..MaxRouteFaults /\ arrivals \in 0..MaxArrivals /\ raced \subseteq Bots
  /\ onLoop # NoOne => inbound[onLoop].step \notin {"ringing", "hungup", "bridged", "gone"}

(* Whatever requests race with the call, routing names a bot of the tenant *)
(* that owned the DID when the call came in: no caller is sent to another  *)
(* tenant's bot, which GetBot would not find (ResolveDIDRouting).          *)
RoutedWithinTenant ==
  \A c \in InboundCalls : inbound[c].bot # NoOne => BotTenant[inbound[c].bot] = inbound[c].tenant

(* Minutes from a to b going forward through midnight. *)
Forward(a, b) == (b + DayLength - a) % DayLength

(* What a rule says: its days, the minutes from start up to end of a day   *)
(* that wraps at midnight, its callers; a rule with a language never.      *)
Applies(r, caller, at) ==
  /\ r.enabled /\ r.shape.language = ""
  /\ r.shape.days = {} \/ at.day \in r.shape.days
  /\ ~r.shape.timed \/ Forward(r.shape.start, at.minute) < Forward(r.shape.start, r.shape.end)
  /\ r.shape.prefixes = {} \/ PrefixOf[caller] \in r.shape.prefixes

(* The rule that decides is the applicable one of least priority, the      *)
(* older of two with the same, and the default bot answers only when none  *)
(* applies (ListDIDRoutingRules, ruleMatches, ResolveDIDRouting).          *)
FirstRuleDecides ==
  \A c \in InboundCalls :
    LET r == inbound[c]
        live == {u \in r.saw : Applies(u, r.caller, r.at)}
    IN  /\ r.why = "matched_rule" =>
             \E u \in live : /\ u.n = r.rule /\ u.bot = r.bot
                             /\ \A v \in live \ {u} :
                                  \/ u.priority < v.priority
                                  \/ u.priority = v.priority /\ u.n < v.n
        /\ r.why \in {"default_did_bot", "no_route"} => live = {}

(* A bot calls out only with a DID of its own tenant, unless a request     *)
(* that moved the DID and one that gave it to the bot overlapped: the bot's *)
(* row was written after the other had taken the number from its bots, or   *)
(* after the owner that was read had changed (AssignBotDID,                 *)
(* AssignDIDToTenant).  Deletions, releases to the pool and any number of   *)
(* moves one after the other leave no bot with a foreign number.            *)
BotDidOfItsTenant ==
  \A b \in Bots \ raced : botDid[b] # NoOne => didTenant[botDid[b]] = BotTenant[b]

(* Inbound calls make one lead for a caller of a tenant, however often he  *)
(* calls: a later one is made only when the lookup failed, or when the     *)
(* number came with a "+" after it had come without, for FindLeadByPhone   *)
(* adds a "+" and takes none away (handleInbound, CreateLead).             *)
ReturningCallerKeepsLead ==
  \A l, m \in leadRows :
    l.n < m.n /\ l.tenant = m.tenant /\ l.caller = m.caller /\ m.looked => ~l.plus /\ m.plus

(* Of the forms in which a caller's number has been on the tenant's        *)
(* do-not-call list since the call came in, an answered call has none,     *)
(* unless the query failed: a listing with "+" does not bar the number     *)
(* delivered without (handleInbound, IsBlockedPhone).                      *)
BarredNotAnswered ==
  \A c \in InboundCalls :
    inbound[c].row # "none" \/ inbound[c].newLead => inbound[c].plus \notin inbound[c].barred

(* Every row that was created in state answered is completed in the end,   *)
(* also when the session could not be created and the call was hung up;    *)
(* only the loss of ChannelDestroyed or of its UPDATE leaves it answered.  *)
InboundRowsAreClosed ==
  \A c \in InboundCalls :
    inbound[c].row = "answered" ~> inbound[c].row \in {"completed", "unclosed"}

(* An inbound call goes to a bot of the number's tenant, the one the rules *)
(* name; returning callers keep their lead and barred ones stay out, while *)
(* requests change the tables between its statements (handleInbound).      *)
RoutingInv ==
  /\ RouteTypeOK
  /\ RoutedWithinTenant
  /\ FirstRuleDecides
  /\ BotDidOfItsTenant
  /\ ReturningCallerKeepsLead
  /\ BarredNotAnswered
=============================================================================
