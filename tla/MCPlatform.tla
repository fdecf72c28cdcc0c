----------------------------- MODULE MCPlatform -----------------------------
\* The parts of the backend that share nothing but the process, checked in one
\* run: the first state chooses which of them moves, the others stay as they
\* start.

EXTENDS RealtimeHub, RateLimiter, Migrations, KnowledgeBase, Chunker

CONSTANT t1

VARIABLE part

MCTenantOf == [c \in Clients |-> t1]

Parts == {"hub", "rate", "schema", "kb", "chunker"}

Init ==
    /\ part \in Parts
    /\ HubInit /\ RateInit /\ MigInit
    /\ KbInit /\ ChunkInit

Next ==
    \/ /\ part = "hub" /\ HubNext
       /\ UNCHANGED <<part, rateVars, migVars, kbVars, chunkVars>>
    \/ /\ part = "rate" /\ RateNext
       /\ UNCHANGED <<part, hubVars, migVars, kbVars, chunkVars>>
    \/ /\ part = "schema" /\ MigNext
       /\ UNCHANGED <<part, hubVars, rateVars, kbVars, chunkVars>>
    \/ /\ part = "kb" /\ KbNext
       /\ UNCHANGED <<part, hubVars, rateVars, migVars, chunkVars>>
    \/ /\ part = "chunker" /\ ChunkNext
       /\ UNCHANGED <<part, hubVars, rateVars, migVars, kbVars>>

vars == <<part, hubVars, rateVars, migVars, kbVars, chunkVars>>

\* Goroutines and handlers run on, and a process that was killed is started
\* again; browsers and operators owe nothing.  sync.RWMutex does not starve a
\* waiter, so Unregister gets the lock although broadcasts keep taking it.
Fairness ==
    /\ \A c \in Clients :
          /\ WF_hubVars(part = "hub" /\ ReaderReturns(c))
          /\ SF_hubVars(part = "hub" /\ Unregister(c))
          /\ WF_hubVars(part = "hub" /\ WriterWrites(c))
          /\ WF_hubVars(part = "hub" /\ WriterEnds(c))
    /\ \A b \in Broadcasters :
          /\ WF_hubVars(part = "hub" /\ BroadcastSends(b))
          /\ WF_hubVars(part = "hub" /\ BroadcastEnds(b))
    /\ \A r \in Replicas : WF_migVars(part = "schema" /\ MigProceeds(r))
    /\ \A d \in Docs : WF_kbVars(part = "kb" /\ IngestProceeds(d))

Spec == Init /\ [][Next]_vars /\ Fairness
=============================================================================
