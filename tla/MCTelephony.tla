---------------------------- MODULE MCTelephony ----------------------------
\* The parts of the telephone side that share nothing within a call, checked in
\* one run: the first state chooses which of them moves, the others stay as
\* they start.

EXTENDS Routing, Trunks, AnsweringMachine, AudioSocket

CONSTANTS t1, t2, ba, bb

VARIABLE part

MCBotTenant == [b \in Bots |-> IF b = bb THEN t2 ELSE t1]
MCFirstTenant == [d \in Dids |-> t1]
MCFirstDid == [b \in Bots |-> IF b = ba THEN CHOOSE d \in Dids : TRUE ELSE NoOne]
\* A rule for the night, which crosses midnight, and one for a weekday and a prefix.
MCRuleShapes ==
  {[days |-> {}, timed |-> TRUE, start |-> 2, end |-> 1, prefixes |-> {}, language |-> ""],
   [days |-> {0}, timed |-> FALSE, start |-> 0, end |-> 0, prefixes |-> {"x"}, language |-> ""]}
MCMoments == {[day |-> 0, minute |-> 0], [day |-> 1, minute |-> 1]}
MCPrefixOf == [p \in Callers |-> "x"]

Parts == {"routing", "trunks", "amd", "socket"}

Init ==
  /\ part \in Parts
  /\ RouteInit /\ TrunkInit /\ AmdInit /\ SocketInit

Next ==
    \/ /\ part = "routing" /\ RouteNext
       /\ UNCHANGED <<part, trunkVars, amdVars, socketVars>>
    \/ /\ part = "trunks" /\ TrunkNext
       /\ UNCHANGED <<part, routeVars, amdVars, socketVars>>
    \/ /\ part = "amd" /\ AmdNext
       /\ UNCHANGED <<part, routeVars, trunkVars, socketVars>>
    \/ /\ part = "socket" /\ SocketNext
       /\ UNCHANGED <<part, routeVars, trunkVars, amdVars>>

vars == <<part, routeVars, trunkVars, amdVars, socketVars>>

\* The ARI loop, the goroutines of a session and the reports in flight proceed;
\* callers and operators owe nothing.
Fairness ==
  /\ WF_routeVars(part = "routing" /\ LoopStep)
  /\ WF_amdVars(part = "amd" /\ EndSession)
  /\ WF_amdVars(part = "amd" /\ \E i \in 1..Len(reports) : HandleAMDResult(i))
  /\ \A f \in Feeders : WF_amdVars(part = "amd" /\ ObserveNotifies(f))
  /\ WF_socketVars(part = "socket" /\ ~crashed /\ RelayCancel)
  /\ WF_socketVars(part = "socket" /\ ~crashed /\ CloseChannels)
  /\ WF_socketVars(part = "socket" /\ ~crashed /\ WriteLoopEnds)
  /\ WF_socketVars(part = "socket" /\ ~crashed /\ (Upload \/ CloseConnection))

Spec == Init /\ [][Next]_vars /\ Fairness
=============================================================================
