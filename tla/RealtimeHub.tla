----------------------------- MODULE RealtimeHub -----------------------------
(***************************************************************************)
(* The realtime hub (realtime/hub.go) and the handler of one WebSocket     *)
(* (handlers_realtime.go): Register, Broadcast and Unregister under the    *)
(* hub's lock, and the Writer and Reader goroutines of a client.           *)
(*                                                                         *)
(* Broadcast keeps the lock over all its sends and over the Close of a     *)
(* full client, so its sends are steps of their own.  An event is its      *)
(* number among the events of its tenant, in the order of the lock.        *)
(* Authentication, payloads and the wording of closes are left out.  The   *)
(* WebSocket library is external: a Write, Ping or Read that fails leaves  *)
(* the connection closed.                                                  *)
(***************************************************************************)
EXTENDS Integers, Sequences, FiniteSets

CONSTANTS
    Clients,         \* WebSocket clients
    Tenants,
    Broadcasters,    \* goroutines that broadcast
    TenantOf,        \* the tenant each client is of
    SendBuffer,      \* capacity of a client's channel (32)
    MaxBroadcasts    \* bound: broadcasts of a tenant

ASSUME HubAssumption ==
    /\ TenantOf \in [Clients -> Tenants] /\ Tenants # {}
    /\ "unlocked" \notin Broadcasters
    /\ SendBuffer \in Nat \ {0}
    /\ MaxBroadcasts \in Nat

VARIABLES
    hubClients,  \* Hub.clients: the registered clients
    hubMu,       \* who holds Hub.mu between steps
    sendChan,    \* contents of Client.send
    sendClosed,  \* clients whose send is closed
    connOpen,    \* clients whose connection is open
    handler,     \* where handleRealtime is
    writer,      \* where Writer is
    cast,        \* each broadcaster: the clients it still has to send to
    casts,       \* events broadcast so far, by tenant
    joined,      \* history: events before the client registered
    written,     \* history: events written to the client
    hubPanic     \* a send on, or a second close of, a closed channel

hubVars == <<hubClients, hubMu, sendChan, sendClosed, connOpen, handler, writer,
             cast, casts, joined, written, hubPanic>>

Unlocked == "unlocked"
NoCast == [on |-> FALSE, tenant |-> CHOOSE t \in Tenants : TRUE, todo |-> {}, number |-> 0]

HubTypeOK ==
    /\ hubClients \subseteq Clients
    /\ hubMu \in Broadcasters \cup {Unlocked}
    /\ sendChan \in [Clients -> Seq(1..MaxBroadcasts)]
    /\ \A c \in Clients : Len(sendChan[c]) <= SendBuffer
    /\ sendClosed \subseteq Clients /\ connOpen \subseteq Clients
    /\ handler \in [Clients -> {"new", "reading", "returned", "done"}]
    /\ writer \in [Clients -> {"none", "running", "ended"}]
    /\ cast \in [Broadcasters -> [on: BOOLEAN, tenant: Tenants, todo: SUBSET Clients,
                                  number: 0..MaxBroadcasts]]
    /\ casts \in [Tenants -> 0..MaxBroadcasts]
    /\ joined \in [Clients -> 0..MaxBroadcasts]
    /\ written \in [Clients -> Seq(1..MaxBroadcasts)]
    /\ hubPanic \in BOOLEAN

HubInit ==
    /\ hubClients = {} /\ sendClosed = {} /\ connOpen = {}
    /\ hubMu = Unlocked
    /\ sendChan = [c \in Clients |-> <<>>]
    /\ handler = [c \in Clients |-> "new"]
    /\ writer = [c \in Clients |-> "none"]
    /\ cast = [b \in Broadcasters |-> NoCast]
    /\ casts = [t \in Tenants |-> 0]
    /\ joined = [c \in Clients |-> 0]
    /\ written = [c \in Clients |-> <<>>]
    /\ hubPanic = FALSE

----------------------------------------------------------------------------
(* handleRealtime.                                                          *)

\* The upgrade, Register under the lock, and the Writer goroutine.
Register(c) ==
    /\ handler[c] = "new" /\ hubMu = Unlocked
    /\ handler' = [handler EXCEPT ![c] = "reading"]
    /\ connOpen' = connOpen \cup {c}
    /\ hubClients' = hubClients \cup {c}
    /\ joined' = [joined EXCEPT ![c] = casts[TenantOf[c]]]
    /\ writer' = [writer EXCEPT ![c] = "running"]
    /\ UNCHANGED <<hubMu, sendChan, sendClosed, cast, casts, written, hubPanic>>

\* A bug to look for: the handler waits for its Writer before Unregister.
ReaderWaitsForWriter(c) ==
    /\ handler[c] = "reading" /\ c \notin connOpen /\ writer[c] = "ended"
    /\ handler' = [handler EXCEPT ![c] = "returned"]
    /\ UNCHANGED <<hubClients, hubMu, sendChan, sendClosed, connOpen, writer, cast, casts,
                   joined, written, hubPanic>>

\* Reader: Read returns an error once the connection is closed.
ReaderReturns(c) ==
    /\ handler[c] = "reading" /\ c \notin connOpen
    /\ handler' = [handler EXCEPT ![c] = "returned"]
    /\ UNCHANGED <<hubClients, hubMu, sendChan, sendClosed, connOpen, writer, cast, casts,
                   joined, written, hubPanic>>

\* A bug to look for: Unregister without the lock.
UnregisterUnlocked(c) ==
    /\ handler[c] = "returned"
    /\ hubClients' = hubClients \ {c}
    /\ sendClosed' = sendClosed \cup {c}
    /\ hubPanic' = (hubPanic \/ c \in sendClosed)

\* The critical section of Unregister.
UnregisterLocked(c) ==
    /\ handler[c] = "returned" /\ hubMu = Unlocked
    /\ hubClients' = hubClients \ {c}
    /\ sendClosed' = sendClosed \cup {c}
    /\ hubPanic' = (hubPanic \/ c \in sendClosed)

\* Unregister, then conn.Close and the deferred cancel.
Unregister(c) ==
    /\ UnregisterLocked(c)
    /\ handler' = [handler EXCEPT ![c] = "done"]
    /\ UNCHANGED <<hubMu, sendChan, connOpen, writer, cast, casts, joined, written>>

\* The peer closes, the network fails, or a ping is not answered (Writer ends
\* and the connection is closed).
ConnectionLost(c) ==
    /\ c \in connOpen
    /\ connOpen' = connOpen \ {c}
    /\ \/ UNCHANGED writer
       \/ writer' = [writer EXCEPT ![c] = "ended"]
    /\ UNCHANGED <<hubClients, hubMu, sendChan, sendClosed, handler, cast, casts, joined,
                   written, hubPanic>>

----------------------------------------------------------------------------
(* Writer.                                                                  *)

WriterWrites(c) ==
    /\ writer[c] = "running" /\ sendChan[c] # <<>>
    /\ sendChan' = [sendChan EXCEPT ![c] = Tail(@)]
    /\ IF c \in connOpen
       THEN /\ written' = [written EXCEPT ![c] = Append(@, Head(sendChan[c]))]
            /\ UNCHANGED writer
       ELSE /\ writer' = [writer EXCEPT ![c] = "ended"]
            /\ UNCHANGED written
    /\ UNCHANGED <<hubClients, hubMu, sendClosed, connOpen, handler, cast, casts, joined,
                   hubPanic>>

\* The channel is closed and empty, or the handler's context is cancelled.
WriterEnds(c) ==
    /\ writer[c] = "running"
    /\ \/ c \in sendClosed /\ sendChan[c] = <<>>
       \/ handler[c] = "done"
    /\ writer' = [writer EXCEPT ![c] = "ended"]
    /\ UNCHANGED <<hubClients, hubMu, sendChan, sendClosed, connOpen, handler, cast, casts,
                   joined, written, hubPanic>>

----------------------------------------------------------------------------
(* Broadcast.                                                               *)

BroadcastLocks(b, t) ==
    /\ hubMu = Unlocked
    /\ hubMu' = b

BroadcastBegins(b, t) ==
    /\ ~ cast[b].on
    /\ casts[t] < MaxBroadcasts  \* bound
    /\ BroadcastLocks(b, t)
    /\ casts' = [casts EXCEPT ![t] = @ + 1]
    /\ cast' = [cast EXCEPT ![b] = [on |-> TRUE, tenant |-> t, number |-> casts[t] + 1,
                                    todo |-> {c \in hubClients : TenantOf[c] = t}]]
    /\ UNCHANGED <<hubClients, sendChan, sendClosed, connOpen, handler, writer, joined,
                   written, hubPanic>>

\* A bug to look for: a full client loses the event and stays connected.
DropEvent(c) == UNCHANGED connOpen

\* conn.Close, under the lock; the client stays in the set until its Reader
\* returns and Unregister takes it out.
CloseSlowClient(c) == connOpen' = connOpen \ {c}

BroadcastSends(b) ==
    /\ cast[b].on
    /\ \E c \in cast[b].todo :
          /\ cast' = [cast EXCEPT ![b].todo = @ \ {c}]
          /\ hubPanic' = (hubPanic \/ c \in sendClosed)
          /\ IF Len(sendChan[c]) < SendBuffer
             THEN /\ sendChan' = [sendChan EXCEPT ![c] = Append(@, cast[b].number)]
                  /\ UNCHANGED connOpen
             ELSE /\ CloseSlowClient(c)
                  /\ UNCHANGED sendChan
    /\ UNCHANGED <<hubClients, hubMu, sendClosed, handler, writer, casts, joined, written>>

BroadcastEnds(b) ==
    /\ cast[b].on /\ cast[b].todo = {}
    /\ cast' = [cast EXCEPT ![b] = NoCast]
    /\ hubMu' = Unlocked
    /\ UNCHANGED <<hubClients, sendChan, sendClosed, connOpen, handler, writer, casts, joined,
                   written, hubPanic>>

----------------------------------------------------------------------------
HubNext ==
    \/ \E c \in Clients :
          \/ Register(c) \/ ReaderReturns(c) \/ Unregister(c) \/ ConnectionLost(c)
          \/ WriterWrites(c) \/ WriterEnds(c)
    \/ \E b \in Broadcasters :
          \/ \E t \in Tenants : BroadcastBegins(b, t)
          \/ BroadcastSends(b) \/ BroadcastEnds(b)

HubSpec == HubInit /\ [][HubNext]_hubVars

----------------------------------------------------------------------------
(* Properties.                                                              *)

\* Broadcast never sends on a channel that Unregister closed and Unregister
\* never closes one twice, whichever goroutines meet at the lock (the comment
\* on Broadcast gives this as the reason for keeping the lock).
NoPanicInHub == ~ hubPanic

\* What a client has been written is the events of its tenant since it
\* registered, without a gap, without a repetition and in the order of the
\* broadcasts: a client that was too slow is cut off, never skipped.
NoGapWhileConnected ==
    \A c \in Clients :
        \A i \in DOMAIN written[c] : written[c][i] = joined[c] + i

\* A client whose connection is closed is taken out of the hub, also when
\* Broadcast closed it and left it in the set.
ClosedClientsLeave ==
    \A c \in Clients :
        (c \in hubClients /\ c \notin connOpen) ~> c \notin hubClients

\* The hub keeps its types, never touches a closed channel and never lets a
\* connected client miss an event (Broadcast, Unregister).
HubInv == HubTypeOK /\ NoPanicInHub /\ NoGapWhileConnected
=============================================================================
