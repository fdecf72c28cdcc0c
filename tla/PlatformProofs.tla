---------------------------- MODULE PlatformProofs ----------------------------
(***************************************************************************)
(* Proofs about the parts of the backend that share nothing but the        *)
(* process: the realtime hub, the migrations, the knowledge base, the      *)
(* login throttle and the chunker.  Each has an inductive invariant of its *)
(* own, and its variables are only its.                                    *)
(***************************************************************************)
EXTENDS RealtimeHub, RateLimiter, Migrations, KnowledgeBase, Chunker, TLAPS

-----------------------------------------------------------------------------
(* Queues *)

LEMMA AppendFacts ==
    ASSUME NEW S, NEW s \in Seq(S), NEW e \in S
    PROVE  /\ Append(s, e) \in Seq(S)
           /\ Len(Append(s, e)) = Len(s) + 1 /\ Len(s) \in Nat
           /\ DOMAIN s = 1..Len(s) /\ DOMAIN Append(s, e) = 1..(Len(s) + 1)
           /\ \A i \in 1..Len(s) : Append(s, e)[i] = s[i]
           /\ Append(s, e)[Len(s) + 1] = e
OBVIOUS

LEMMA TailFacts ==
    ASSUME NEW S, NEW s \in Seq(S), s # <<>>
    PROVE  /\ Head(s) \in S /\ Head(s) = s[1] /\ Len(s) \in Nat \ {0}
           /\ Tail(s) \in Seq(S) /\ Len(Tail(s)) = Len(s) - 1
           /\ DOMAIN s = 1..Len(s) /\ DOMAIN Tail(s) = 1..(Len(s) - 1)
           /\ \A i \in 1..(Len(s) - 1) : Tail(s)[i] = s[i + 1]
OBVIOUS

\* The numbers after k, one after the other.
Run(s, k) == \A i \in DOMAIN s : s[i] = k + i

LEMMA RunAppend ==
    ASSUME NEW S, NEW s \in Seq(S), NEW e \in S, NEW k \in Nat, Run(s, k),
           e = k + Len(s) + 1
    PROVE  Run(Append(s, e), k)
<1>1. ASSUME NEW i \in 1..(Len(s) + 1) PROVE Append(s, e)[i] = k + i
  <2>1. CASE i \in 1..Len(s)
    BY <2>1, AppendFacts DEF Run
  <2>2. CASE i = Len(s) + 1
    <3>1. Append(s, e)[i] = e /\ Len(s) \in Nat
      BY <2>2, AppendFacts
    <3> QED
      BY <2>2, <3>1
  <2>3. Len(s) \in Nat
    BY AppendFacts
  <2> QED
    BY <1>1, <2>1, <2>2, <2>3
<1> QED
  BY <1>1, AppendFacts DEF Run

LEMMA RunTail ==
    ASSUME NEW S, NEW s \in Seq(S), s # <<>>, NEW k \in Nat, Run(s, k)
    PROVE  Head(s) = k + 1 /\ Run(Tail(s), k + 1)
<1>1. Len(s) \in Nat \ {0} /\ Head(s) = s[1] /\ DOMAIN s = 1..Len(s)
  BY TailFacts
<1>2. Head(s) = k + 1
  BY <1>1 DEF Run
<1>3. ASSUME NEW i \in 1..(Len(s) - 1) PROVE Tail(s)[i] = (k + 1) + i
  <2>1. Tail(s)[i] = s[i + 1]
    BY <1>3, TailFacts
  <2>2. i + 1 \in DOMAIN s /\ i \in Nat
    BY <1>1, <1>3
  <2>3. s[i + 1] = k + (i + 1)
    BY <2>2 DEF Run
  <2> QED
    BY <2>1, <2>2, <2>3
<1> QED
  BY <1>2, <1>3, TailFacts DEF Run

-----------------------------------------------------------------------------
(* The realtime hub *)

\* The lock says which broadcast is under way; the clients it still has to send
\* to are registered, and its event is the last of its tenant.
CastOk(b) ==
    /\ cast[b].on <=> hubMu = b
    /\ ~cast[b].on => cast[b].todo = {}
    /\ cast[b].on => /\ cast[b].number = casts[cast[b].tenant] /\ cast[b].number # 0
                     /\ \A c \in cast[b].todo :
                           c \in hubClients /\ TenantOf[c] = cast[b].tenant

Awaits(c) == \E b \in Broadcasters : c \in cast[b].todo

\* The events of its tenant that Broadcast has dealt with for this client.
Reached(c) == IF Awaits(c) THEN casts[TenantOf[c]] - 1 ELSE casts[TenantOf[c]]

\* A client is registered from Register to Unregister, and connected only then.
\* While it is connected, what it was written and what waits in its channel are
\* the events of its tenant since it joined, one after the other.
ClientOk(c) ==
    /\ c \in hubClients <=> handler[c] \in {"reading", "returned"}
    /\ c \in sendClosed <=> handler[c] = "done"
    /\ handler[c] = "new" => sendChan[c] = <<>> /\ written[c] = <<>>
    /\ c \in connOpen => handler[c] = "reading"
    /\ Run(written[c], joined[c])
    /\ c \in connOpen =>
          /\ Run(sendChan[c], joined[c] + Len(written[c]))
          /\ joined[c] + Len(written[c]) + Len(sendChan[c]) = Reached(c)

HubIndInv ==
    /\ HubTypeOK /\ NoPanicInHub
    /\ \A b \in Broadcasters : CastOk(b)
    /\ \A c \in Clients : ClientOk(c)

CastType == [on: BOOLEAN, tenant: Tenants, todo: SUBSET Clients, number: 0..MaxBroadcasts]

LEMMA NoCastType == NoCast \in CastType /\ ~NoCast.on /\ NoCast.todo = {}
BY HubAssumption DEF NoCast, CastType

LEMMA HubIndInit == HubInit => HubIndInv
<1> SUFFICES ASSUME HubInit PROVE HubIndInv
  OBVIOUS
<1>1. HubTypeOK /\ NoPanicInHub
  <2>1. /\ sendChan \in [Clients -> Seq(1..MaxBroadcasts)]
        /\ written \in [Clients -> Seq(1..MaxBroadcasts)]
        /\ \A c \in Clients : Len(sendChan[c]) = 0
    BY DEF HubInit
  <2>2. cast \in [Broadcasters -> CastType]
    BY NoCastType DEF HubInit
  <2>3. /\ handler \in [Clients -> {"new", "reading", "returned", "done"}]
        /\ writer \in [Clients -> {"none", "running", "ended"}]
        /\ joined \in [Clients -> 0..MaxBroadcasts] /\ casts \in [Tenants -> 0..MaxBroadcasts]
    BY HubAssumption DEF HubInit
  <2>4. \A c \in Clients : Len(sendChan[c]) <= SendBuffer
    BY HubAssumption, <2>1
  <2> QED
    BY <2>1, <2>2, <2>3, <2>4 DEF HubInit, HubTypeOK, NoPanicInHub, CastType
<1>2. ASSUME NEW b \in Broadcasters PROVE CastOk(b)
  BY HubAssumption, NoCastType, <1>2 DEF HubInit, CastOk, Unlocked
<1>3. ASSUME NEW c \in Clients PROVE ClientOk(c)
  BY <1>3 DEF HubInit, ClientOk, Run
<1> QED
  BY <1>1, <1>2, <1>3 DEF HubIndInv

\* While the lock is free no client waits for an event; only the broadcast that
\* holds it may have clients left.
LEMMA HubLock ==
    ASSUME HubIndInv
    PROVE  /\ hubMu = Unlocked => \A c \in Clients : ~Awaits(c)
           /\ \A b, d \in Broadcasters : cast[b].on /\ d # b => cast[d].todo = {}
BY HubAssumption DEF HubIndInv, CastOk, Awaits, Unlocked

\* A step of the handler, the Writer or the peer that leaves the broadcasts and
\* what the client has been sent alone.
LEMMA ClientStep ==
    ASSUME HubTypeOK, NEW x \in Clients, ClientOk(x), UNCHANGED <<cast, casts>>,
           sendChan'[x] = sendChan[x], written'[x] = written[x],
           joined'[x] = joined[x],
           x \in connOpen' => x \in connOpen,
           x \in hubClients' <=> handler'[x] \in {"reading", "returned"},
           x \in sendClosed' <=> handler'[x] = "done",
           handler'[x] = "new" => handler[x] = "new",
           x \in connOpen' => handler'[x] = "reading"
    PROVE  ClientOk(x)'
<1>1. Reached(x)' = Reached(x)
  BY DEF Reached, Awaits
<1> QED
  BY <1>1 DEF ClientOk

LEMMA HubIndStep == HubIndInv /\ [HubNext]_hubVars => HubIndInv'
<1> SUFFICES ASSUME HubIndInv, [HubNext]_hubVars PROVE HubIndInv'
  OBVIOUS
<1>0. /\ HubTypeOK /\ ~hubPanic
      /\ \A b \in Broadcasters : CastOk(b)
      /\ \A c \in Clients : ClientOk(c)
      /\ cast \in [Broadcasters -> CastType]
      /\ handler \in [Clients -> {"new", "reading", "returned", "done"}]
      /\ writer \in [Clients -> {"none", "running", "ended"}]
      /\ joined \in [Clients -> 0..MaxBroadcasts] /\ casts \in [Tenants -> 0..MaxBroadcasts]
      /\ sendChan \in [Clients -> Seq(1..MaxBroadcasts)]
      /\ written \in [Clients -> Seq(1..MaxBroadcasts)]
      /\ MaxBroadcasts \in Nat /\ SendBuffer \in Nat \ {0}
  BY HubAssumption DEF HubIndInv, HubTypeOK, NoPanicInHub, CastType
\* Nothing happened to the broadcasts.
<1>a. ASSUME UNCHANGED <<cast, casts, hubMu>>, hubClients \subseteq hubClients',
             NEW b \in Broadcasters
      PROVE  CastOk(b)'
  BY <1>0, <1>a DEF CastOk
<1>1. ASSUME NEW c \in Clients, Register(c) PROVE HubIndInv'
  <2>1. HubTypeOK' /\ NoPanicInHub'
    <3>1. casts[TenantOf[c]] \in 0..MaxBroadcasts
      BY <1>0, HubAssumption
    <3> QED
      BY <1>0, <1>1, <3>1 DEF Register, HubTypeOK, NoPanicInHub
  <2>2. ASSUME NEW b \in Broadcasters PROVE CastOk(b)'
    BY <1>1, <1>a DEF Register
  <2>3. ASSUME NEW x \in Clients PROVE ClientOk(x)'
    <3>1. CASE x = c
      <4>1. /\ handler[x] = "new" /\ handler'[x] = "reading"
            /\ x \in hubClients' /\ x \in connOpen'
            /\ joined'[x] = casts[TenantOf[x]]
            /\ UNCHANGED <<sendChan, sendClosed, written, cast, casts>>
        BY <1>0, <1>1, <3>1 DEF Register
      <4>2. sendChan[x] = <<>> /\ written[x] = <<>> /\ x \notin sendClosed
        BY <1>0, <4>1 DEF ClientOk
      <4>3. Reached(x)' = casts[TenantOf[x]]
        BY <1>1, <4>1, HubLock DEF Register, Reached, Awaits
      <4>4. casts[TenantOf[x]] \in Nat
        BY <1>0, HubAssumption
      <4> QED
        BY <4>1, <4>2, <4>3, <4>4 DEF ClientOk, Run
    <3>2. CASE x # c
      BY <1>0, <1>1, <3>2, ClientStep DEF Register, ClientOk
    <3> QED
      BY <3>1, <3>2
  <2> QED
    BY <2>1, <2>2, <2>3 DEF HubIndInv
<1>2. ASSUME NEW c \in Clients, ReaderReturns(c) PROVE HubIndInv'
  <2>1. HubTypeOK' /\ NoPanicInHub'
    BY <1>0, <1>2 DEF ReaderReturns, HubTypeOK, NoPanicInHub
  <2>2. ASSUME NEW b \in Broadcasters PROVE CastOk(b)'
    BY <1>2, <1>a DEF ReaderReturns
  <2>3. ASSUME NEW x \in Clients PROVE ClientOk(x)'
    <3>1. /\ handler'[x] = IF x = c THEN "returned" ELSE handler[x]
          /\ handler[c] = "reading" /\ c \notin connOpen
          /\ UNCHANGED <<cast, casts, sendChan, written, joined, connOpen, hubClients, sendClosed>>
      BY <1>0, <1>2 DEF ReaderReturns
    <3> QED
      BY <1>0, <3>1, ClientStep DEF ClientOk
  <2> QED
    BY <2>1, <2>2, <2>3 DEF HubIndInv
<1>3. ASSUME NEW c \in Clients, Unregister(c) PROVE HubIndInv'
  <2>0. /\ handler[c] = "returned" /\ hubMu = Unlocked /\ c \notin sendClosed
        /\ handler' = [handler EXCEPT ![c] = "done"]
        /\ hubClients' = hubClients \ {c} /\ sendClosed' = sendClosed \cup {c}
        /\ hubPanic' = FALSE
        /\ UNCHANGED <<hubMu, sendChan, connOpen, writer, cast, casts, joined, written>>
    <3>1. c \notin sendClosed /\ hubPanic = FALSE
      BY <1>0, <1>3 DEF Unregister, UnregisterLocked, ClientOk, HubTypeOK
    <3> QED
      BY <1>3, <3>1 DEF Unregister, UnregisterLocked
  <2>1. HubTypeOK' /\ NoPanicInHub'
    BY <1>0, <2>0 DEF HubTypeOK, NoPanicInHub
  <2>2. ASSUME NEW b \in Broadcasters PROVE CastOk(b)'
    BY <1>0, <2>0, HubAssumption DEF CastOk, Unlocked
  <2>3. ASSUME NEW x \in Clients PROVE ClientOk(x)'
    <3>1. handler'[x] = IF x = c THEN "done" ELSE handler[x]
      BY <1>0, <2>0
    <3> QED
      BY <1>0, <2>0, <3>1, ClientStep DEF ClientOk
  <2> QED
    BY <2>1, <2>2, <2>3 DEF HubIndInv
<1>4. ASSUME NEW c \in Clients, ConnectionLost(c) PROVE HubIndInv'
  <2>1. HubTypeOK' /\ NoPanicInHub'
    BY <1>0, <1>4 DEF ConnectionLost, HubTypeOK, NoPanicInHub
  <2>2. ASSUME NEW b \in Broadcasters PROVE CastOk(b)'
    BY <1>4, <1>a DEF ConnectionLost
  <2>3. ASSUME NEW x \in Clients PROVE ClientOk(x)'
    BY <1>0, <1>4, ClientStep DEF ConnectionLost, ClientOk
  <2> QED
    BY <2>1, <2>2, <2>3 DEF HubIndInv
<1>5. ASSUME NEW c \in Clients, WriterWrites(c) PROVE HubIndInv'
  <2> DEFINE s == sendChan[c]
             q == written[c]
  <2>0. /\ s \in Seq(1..MaxBroadcasts) /\ s # <<>> /\ q \in Seq(1..MaxBroadcasts)
        /\ sendChan' = [sendChan EXCEPT ![c] = Tail(s)]
        /\ \/ c \in connOpen /\ written' = [written EXCEPT ![c] = Append(q, Head(s))]
              /\ UNCHANGED writer
           \/ c \notin connOpen /\ UNCHANGED written
              /\ writer' = [writer EXCEPT ![c] = "ended"]
        /\ UNCHANGED <<hubClients, hubMu, sendClosed, connOpen, handler, cast, casts, joined,
                       hubPanic>>
    BY <1>0, <1>5 DEF WriterWrites
  <2>1. HubTypeOK' /\ NoPanicInHub'
    <3>1. Tail(s) \in Seq(1..MaxBroadcasts) /\ Len(Tail(s)) = Len(s) - 1
          /\ Head(s) \in 1..MaxBroadcasts /\ Len(s) \in Nat
      <4> HIDE DEF s, q
      <4> QED
        BY <2>0, TailFacts
    <3>2. Append(q, Head(s)) \in Seq(1..MaxBroadcasts)
      <4> HIDE DEF s, q
      <4> QED
        BY <2>0, <3>1, AppendFacts
    <3>3. Len(s) <= SendBuffer
      BY <1>0 DEF HubTypeOK
    <3> HIDE DEF s, q
    <3>4. sendChan' \in [Clients -> Seq(1..MaxBroadcasts)]
          /\ written' \in [Clients -> Seq(1..MaxBroadcasts)]
          /\ writer' \in [Clients -> {"none", "running", "ended"}]
      BY <1>0, <2>0, <3>1, <3>2
    <3>5. \A x \in Clients : Len(sendChan'[x]) <= SendBuffer
      BY <1>0, <2>0, <3>1, <3>3 DEF HubTypeOK
    <3> QED
      BY <1>0, <2>0, <3>4, <3>5 DEF HubTypeOK, NoPanicInHub
  <2>2. ASSUME NEW b \in Broadcasters PROVE CastOk(b)'
    BY <1>a, <2>0
  <2>3. ASSUME NEW x \in Clients PROVE ClientOk(x)'
    <3>1. CASE x # c
      <4>1. sendChan'[x] = sendChan[x] /\ written'[x] = written[x]
        BY <1>0, <2>0, <3>1
      <4> HIDE DEF s, q
      <4> QED
        BY <1>0, <2>0, <3>1, <4>1, ClientStep DEF ClientOk
    <3>2. CASE x = c
      <4>1. Reached(c)' = Reached(c)
        BY <2>0 DEF Reached, Awaits
      <4>2. sendChan'[c] = Tail(s) /\ handler[c] # "new" /\ joined[c] \in Nat
        BY <1>0, <2>0 DEF ClientOk
      <4>3. CASE c \notin connOpen
        BY <1>0, <2>0, <3>2, <4>2, <4>3 DEF ClientOk
      <4>4. CASE c \in connOpen
        <5>1. written'[c] = Append(q, Head(s))
          BY <1>0, <2>0, <4>4
        <5>2. /\ Run(q, joined[c]) /\ Run(s, joined[c] + Len(q))
              /\ joined[c] + Len(q) + Len(s) = Reached(c)
          BY <1>0, <4>4 DEF ClientOk
        <5> HIDE DEF s, q
        <5>3. /\ Len(q) \in Nat /\ Head(s) \in 1..MaxBroadcasts /\ Len(s) \in Nat
              /\ Len(Append(q, Head(s))) = Len(q) + 1 /\ Len(Tail(s)) = Len(s) - 1
          <6>1. /\ Head(s) \in 1..MaxBroadcasts /\ Len(s) \in Nat
                /\ Len(Tail(s)) = Len(s) - 1
            BY <2>0, TailFacts
          <6> QED
            BY <2>0, <6>1, AppendFacts
        <5>4. joined[c] + Len(q) \in Nat
          BY <4>2, <5>3
        <5>5. Head(s) = joined[c] + Len(q) + 1 /\ Run(Tail(s), joined[c] + Len(q) + 1)
          BY <2>0, <5>2, <5>4, RunTail
        <5>6. Run(Append(q, Head(s)), joined[c])
          BY <2>0, <4>2, <5>2, <5>3, <5>5, RunAppend
        <5>7. /\ joined[c] + Len(q) + 1 = joined[c] + (Len(q) + 1)
              /\ joined[c] + (Len(q) + 1) + (Len(s) - 1) = joined[c] + Len(q) + Len(s)
          BY <4>2, <5>3
        <5> QED
          BY <1>0, <2>0, <3>2, <4>1, <4>2, <5>1, <5>2, <5>3, <5>5, <5>6, <5>7 DEF ClientOk
      <4> QED
        BY <4>3, <4>4
    <3> QED
      BY <3>1, <3>2
  <2> QED
    BY <2>1, <2>2, <2>3 DEF HubIndInv
<1>6. ASSUME NEW c \in Clients, WriterEnds(c) PROVE HubIndInv'
  <2>1. HubTypeOK' /\ NoPanicInHub'
    BY <1>0, <1>6 DEF WriterEnds, HubTypeOK, NoPanicInHub
  <2>2. ASSUME NEW b \in Broadcasters PROVE CastOk(b)'
    BY <1>6, <1>a DEF WriterEnds
  <2>3. ASSUME NEW x \in Clients PROVE ClientOk(x)'
    BY <1>0, <1>6, ClientStep DEF WriterEnds, ClientOk
  <2> QED
    BY <2>1, <2>2, <2>3 DEF HubIndInv
<1>7. ASSUME NEW b \in Broadcasters, NEW t \in Tenants, BroadcastBegins(b, t)
      PROVE  HubIndInv'
  <2> DEFINE new == [on |-> TRUE, tenant |-> t, number |-> casts[t] + 1,
                     todo |-> {c \in hubClients : TenantOf[c] = t}]
  <2>0. /\ hubMu = Unlocked /\ hubMu' = b /\ casts[t] < MaxBroadcasts /\ casts[t] \in Nat
        /\ casts' = [casts EXCEPT ![t] = casts[t] + 1]
        /\ cast' = [cast EXCEPT ![b] = new]
        /\ UNCHANGED <<hubClients, sendChan, sendClosed, connOpen, handler, writer, joined,
                       written, hubPanic>>
    BY <1>0, <1>7 DEF BroadcastBegins, BroadcastLocks
  <2>1. HubTypeOK' /\ NoPanicInHub'
    <3>1. new \in CastType /\ casts[t] + 1 \in 0..MaxBroadcasts
      BY <1>0, <2>0 DEF CastType, HubTypeOK
    <3> HIDE DEF new
    <3>2. cast' \in [Broadcasters -> CastType] /\ casts' \in [Tenants -> 0..MaxBroadcasts]
      BY <1>0, <2>0, <3>1
    <3> QED
      BY <1>0, <2>0, <3>2 DEF HubTypeOK, NoPanicInHub, CastType
  <2>2. ASSUME NEW d \in Broadcasters PROVE CastOk(d)'
    <3>1. CASE d = b
      <4>1. cast'[d] = new /\ casts'[t] = casts[t] + 1
        BY <1>0, <2>0, <3>1
      <4> QED
        BY <2>0, <3>1, <4>1 DEF CastOk
    <3>2. CASE d # b
      <4>1. cast'[d] = cast[d] /\ ~cast[d].on
        BY <1>0, <2>0, <3>2, HubAssumption DEF CastOk, Unlocked
      <4> QED
        BY <1>0, <2>0, <3>2, <4>1 DEF CastOk
    <3> QED
      BY <3>1, <3>2
  <2>3. ASSUME NEW x \in Clients PROVE ClientOk(x)'
    <3>1. ASSUME x \in connOpen PROVE Reached(x)' = Reached(x)
      <4>0. x \in hubClients /\ ~Awaits(x)
        BY <1>0, <2>0, <3>1, HubLock DEF ClientOk
      <4>1. CASE TenantOf[x] = t
        <5>1. x \in cast'[b].todo /\ casts'[t] = casts[t] + 1
          BY <1>0, <2>0, <4>0, <4>1
        <5>2. Awaits(x)'
          BY <5>1 DEF Awaits
        <5> QED
          BY <2>0, <4>0, <4>1, <5>1, <5>2 DEF Reached
      <4>2. CASE TenantOf[x] # t
        <5>1. x \notin cast'[b].todo
          BY <1>0, <2>0, <4>2
        <5>2. ~Awaits(x)'
          BY <1>0, <2>0, <4>0, <5>1 DEF Awaits
        <5>3. casts'[TenantOf[x]] = casts[TenantOf[x]]
          BY <1>0, <2>0, <4>2, HubAssumption
        <5> QED
          BY <2>0, <4>0, <5>2, <5>3, HubAssumption DEF Reached
      <4> QED
        BY <4>1, <4>2
    <3> HIDE DEF new
    <3> QED
      BY <1>0, <2>0, <3>1 DEF ClientOk
  <2> QED
    BY <2>1, <2>2, <2>3 DEF HubIndInv
<1>8. ASSUME NEW b \in Broadcasters, BroadcastSends(b) PROVE HubIndInv'
  <2>1. PICK c \in cast[b].todo :
          /\ cast' = [cast EXCEPT ![b].todo = @ \ {c}]
          /\ hubPanic' = (hubPanic \/ c \in sendClosed)
          /\ IF Len(sendChan[c]) < SendBuffer
             THEN /\ sendChan' = [sendChan EXCEPT ![c] = Append(@, cast[b].number)]
                  /\ UNCHANGED connOpen
             ELSE /\ CloseSlowClient(c)
                  /\ UNCHANGED sendChan
    BY <1>8 DEF BroadcastSends
  <2> DEFINE row == [cast[b] EXCEPT !.todo = @ \ {c}]
             s == sendChan[c]
             n == cast[b].number
  <2>2. /\ cast[b] \in CastType /\ c \in Clients /\ cast[b].on /\ c \in hubClients
        /\ n = casts[TenantOf[c]] /\ n \in 1..MaxBroadcasts
        /\ c \notin sendClosed /\ TenantOf[c] = cast[b].tenant
    <3>1. cast[b] \in CastType /\ cast[b].on /\ c \in Clients /\ c \in hubClients
          /\ n = casts[TenantOf[c]] /\ n # 0 /\ TenantOf[c] = cast[b].tenant
      BY <1>0, <1>8, <2>1 DEF BroadcastSends, CastOk, CastType
    <3>2. n \in 1..MaxBroadcasts
      BY <1>0, <3>1 DEF CastType
    <3>3. c \notin sendClosed
      BY <1>0, <3>1 DEF ClientOk
    <3> QED
      BY <3>1, <3>2, <3>3
  <2>3. /\ UNCHANGED <<hubClients, hubMu, sendClosed, handler, writer, casts, joined, written>>
        /\ hubPanic' = FALSE
        /\ cast' = [cast EXCEPT ![b] = row]
    <3>1. hubPanic = FALSE
      BY <1>0 DEF HubTypeOK
    <3> QED
      BY <1>8, <2>1, <2>2, <3>1 DEF BroadcastSends
  <2>4. /\ row \in CastType /\ row.on /\ row.tenant = cast[b].tenant /\ row.number = n
        /\ row.todo = cast[b].todo \ {c}
    BY <2>2 DEF CastType
  <2> HIDE DEF row
  <2>5. /\ s \in Seq(1..MaxBroadcasts) /\ Append(s, n) \in Seq(1..MaxBroadcasts)
        /\ Len(Append(s, n)) = Len(s) + 1 /\ Len(s) \in Nat
    <3>1. s \in Seq(1..MaxBroadcasts) /\ n \in 1..MaxBroadcasts
      BY <1>0, <2>2
    <3> HIDE DEF s, n
    <3> QED
      BY <3>1, AppendFacts
  <2>6. \/ /\ Len(s) < SendBuffer
           /\ sendChan' = [sendChan EXCEPT ![c] = Append(s, n)] /\ UNCHANGED connOpen
        \/ connOpen' = connOpen \ {c} /\ UNCHANGED sendChan
    BY <1>0, <2>1, <2>2 DEF CloseSlowClient
  <2>7. HubTypeOK' /\ NoPanicInHub'
    <3> HIDE DEF s, n
    <3>1. cast' \in [Broadcasters -> CastType]
      BY <1>0, <2>3, <2>4
    <3>2. sendChan' \in [Clients -> Seq(1..MaxBroadcasts)]
      BY <1>0, <2>5, <2>6
    <3>3. \A x \in Clients : Len(sendChan'[x]) <= SendBuffer
      <4>1. \A x \in Clients : Len(sendChan[x]) <= SendBuffer
        BY <1>0 DEF HubTypeOK
      <4>2. ASSUME NEW x \in Clients, sendChan' = [sendChan EXCEPT ![c] = Append(s, n)]
            PROVE  sendChan'[x] = IF x = c THEN Append(s, n) ELSE sendChan[x]
        BY <1>0, <4>2
      <4>3. Len(s) < SendBuffer => Len(s) + 1 <= SendBuffer
        BY <1>0, <2>5
      <4> QED
        BY <2>5, <2>6, <4>1, <4>2, <4>3
    <3>4. connOpen' \subseteq Clients
      BY <2>6 DEF HubIndInv, HubTypeOK
    <3> QED
      BY <1>0, <2>3, <3>1, <3>2, <3>3, <3>4 DEF HubTypeOK, NoPanicInHub, CastType
  <2>8. ASSUME NEW d \in Broadcasters
        PROVE  /\ CastOk(d)' /\ cast'[d].on = cast[d].on
               /\ cast'[d].todo = cast[d].todo \ {c}
    <3>1. CASE d = b
      <4>1. cast'[d] = row
        BY <1>0, <2>3, <3>1
      <4> QED
        BY <1>0, <2>2, <2>3, <2>4, <3>1, <4>1 DEF CastOk
    <3>2. CASE d # b
      <4>1. cast'[d] = cast[d] /\ cast[d].todo = {}
        BY <1>0, <2>2, <2>3, <3>2, HubLock
      <4> QED
        BY <1>0, <2>3, <4>1 DEF CastOk
    <3> QED
      BY <3>1, <3>2
  <2>9. ASSUME NEW x \in Clients PROVE ClientOk(x)'
    <3>1. CASE x # c
      <4>1. Awaits(x)' <=> Awaits(x)
        BY <2>8, <3>1 DEF Awaits
      <4>2. Reached(x)' = Reached(x)
        BY <2>3, <4>1 DEF Reached
      <4>3. sendChan'[x] = sendChan[x] /\ (x \in connOpen' <=> x \in connOpen)
        BY <1>0, <2>6, <3>1
      <4> QED
        BY <1>0, <2>3, <4>2, <4>3 DEF ClientOk
    <3>2. CASE x = c
      <4>1. Awaits(c) /\ ~Awaits(c)'
        BY <2>1, <2>8 DEF Awaits
      <4>2. Reached(c) = n - 1 /\ Reached(c)' = n
        BY <2>2, <2>3, <4>1 DEF Reached
      <4>3. CASE connOpen' = connOpen \ {c} /\ UNCHANGED sendChan
        BY <1>0, <2>3, <3>2, <4>3 DEF ClientOk
      <4>4. CASE sendChan' = [sendChan EXCEPT ![c] = Append(s, n)] /\ UNCHANGED connOpen
        <5>0. /\ sendChan'[c] = Append(s, n) /\ joined[c] \in Nat /\ handler[c] # "new"
              /\ written[c] \in Seq(1..MaxBroadcasts)
          <6>1. sendChan'[c] = Append(s, n)
            BY <1>0, <2>2, <4>4
          <6>2. joined[c] \in 0..MaxBroadcasts /\ written[c] \in Seq(1..MaxBroadcasts)
            BY <1>0, <2>2
          <6>3. joined[c] \in Nat
            BY <1>0, <6>2
          <6>4. handler[c] # "new"
            BY <1>0, <2>2 DEF ClientOk
          <6> QED
            BY <6>1, <6>2, <6>3, <6>4
        <5>9. Len(written[c]) \in Nat
          BY <5>0
        <5>1. CASE c \in connOpen
          <6>1. /\ Run(s, joined[c] + Len(written[c]))
                /\ joined[c] + Len(written[c]) + Len(s) = n - 1
            BY <1>0, <2>2, <4>2, <5>1 DEF ClientOk
          <6> HIDE DEF s, n
          <6>2. s \in Seq(1..MaxBroadcasts) /\ n \in 1..MaxBroadcasts /\ Len(s) \in Nat
            BY <2>2, <2>5
          <6>3. /\ joined[c] + Len(written[c]) \in Nat
                /\ n = joined[c] + Len(written[c]) + Len(s) + 1
                /\ joined[c] + Len(written[c]) + (Len(s) + 1) = n
            <7>1. n \in Nat /\ joined[c] \in Nat
              BY <1>0, <5>0, <6>2
            <7>2. Len(written[c]) \in Nat /\ Len(s) \in Nat
              BY <5>9, <6>2
            <7>3. joined[c] + Len(written[c]) + Len(s) = n - 1
              BY <6>1
            <7> QED
              BY <7>1, <7>2, <7>3
          <6>4. Run(Append(s, n), joined[c] + Len(written[c]))
            BY <6>1, <6>2, <6>3, RunAppend
          <6> QED
            BY <1>0, <2>3, <2>5, <3>2, <4>2, <4>4, <5>0, <6>3, <6>4 DEF ClientOk
        <5>2. CASE c \notin connOpen
          BY <1>0, <2>3, <3>2, <4>4, <5>0, <5>2 DEF ClientOk
        <5> QED
          BY <5>1, <5>2
      <4> QED
        BY <2>6, <4>3, <4>4
    <3> QED
      BY <3>1, <3>2
  <2> QED
    BY <2>7, <2>8, <2>9 DEF HubIndInv
<1>9. ASSUME NEW b \in Broadcasters, BroadcastEnds(b) PROVE HubIndInv'
  <2>0. /\ cast[b].on /\ cast[b].todo = {} /\ hubMu' = Unlocked
        /\ cast' = [cast EXCEPT ![b] = NoCast]
        /\ UNCHANGED <<hubClients, sendChan, sendClosed, connOpen, handler, writer, casts,
                       joined, written, hubPanic>>
    BY <1>9 DEF BroadcastEnds
  <2>1. cast' \in [Broadcasters -> CastType]
    BY <1>0, <2>0, NoCastType
  <2>2. HubTypeOK' /\ NoPanicInHub'
    BY <1>0, <2>0, <2>1 DEF HubTypeOK, NoPanicInHub, CastType
  <2>3. ASSUME NEW d \in Broadcasters
        PROVE  CastOk(d)' /\ cast'[d].todo = cast[d].todo
    <3>1. CASE d = b
      <4>1. cast'[d] = NoCast
        BY <1>0, <2>0, <3>1
      <4> QED
        BY <2>0, <3>1, <4>1, NoCastType, HubAssumption DEF CastOk, Unlocked
    <3>2. CASE d # b
      <4>1. cast'[d] = cast[d] /\ ~cast[d].on
        BY <1>0, <2>0, <3>2 DEF CastOk
      <4> QED
        BY <1>0, <2>0, <4>1, HubAssumption DEF CastOk, Unlocked
    <3> QED
      BY <3>1, <3>2
  <2>4. ASSUME NEW x \in Clients PROVE ClientOk(x)'
    <3>1. Reached(x)' = Reached(x)
      BY <2>0, <2>3 DEF Reached, Awaits
    <3> QED
      BY <1>0, <2>0, <3>1 DEF ClientOk
  <2> QED
    BY <2>2, <2>3, <2>4 DEF HubIndInv
<1>10. CASE UNCHANGED hubVars
  <2>1. \A c \in Clients : ClientOk(c)'
    BY <1>0, <1>10, ClientStep DEF hubVars, ClientOk
  <2> QED
    BY <1>0, <1>10, <2>1 DEF hubVars, HubIndInv, HubTypeOK, NoPanicInHub, CastOk
<1> QED
  BY <1>1, <1>2, <1>3, <1>4, <1>5, <1>6, <1>7, <1>8, <1>9, <1>10 DEF HubNext

\* The hub never sends on a channel Unregister closed, closes none twice, and
\* what it writes to a client has no gap and no repetition, whichever goroutines
\* meet at its lock (Broadcast, Register, Unregister, Writer).
THEOREM HubIsSafe == HubSpec => []HubInv
<1>1. HubIndInv => HubInv
  BY DEF HubIndInv, HubInv, ClientOk, NoGapWhileConnected, Run
<1> QED
  BY <1>1, HubIndInit, HubIndStep, PTL DEF HubSpec

-----------------------------------------------------------------------------
(* The migrations *)

ReplicaType ==
    [step: {"start", "next", "body", "record", "commit", "serving", "failed"},
     seen: SUBSET Versions, file: 1..(Files + 1)]

\* A process believes nothing of the table that is not so, has every file before
\* its own, and inserts a version only that nobody has.
ReplicaOk(r) ==
    /\ replica[r].seen \subseteq recorded
    /\ 1..(replica[r].file - 1) \subseteq recorded
    /\ replica[r].step \in {"body", "record", "commit"} => replica[r].file <= Files
    /\ replica[r].step = "commit" => replica[r].file \notin recorded
    /\ replica[r].step = "serving" => replica[r].file > Files

\* The primary key of schema_migrations: one transaction inserts a version.
OneInserts ==
    \A q, r \in Replicas :
        replica[q].step = "commit" /\ replica[r].step = "commit"
            /\ replica[q].file = replica[r].file => q = r

MigIndInv ==
    /\ MigTypeOK /\ AppliedInOrder /\ OneInserts
    /\ \A r \in Replicas : ReplicaOk(r)

LEMMA MigIndInit == MigInit => MigIndInv
<1> SUFFICES ASSUME MigInit PROVE MigIndInv
  OBVIOUS
<1>1. Starting \in ReplicaType
  BY MigrationsAssumption DEF Starting, ReplicaType
<1>2. replica \in [Replicas -> ReplicaType] /\ \A r \in Replicas : replica[r] = Starting
  BY <1>1 DEF MigInit
<1>3. MigTypeOK
  BY <1>2, MigrationsAssumption DEF MigInit, MigTypeOK, ReplicaType
<1>4. AppliedInOrder
  BY DEF MigInit, AppliedInOrder
<1>5. OneInserts /\ \A r \in Replicas : ReplicaOk(r)
  BY <1>2 DEF OneInserts, ReplicaOk, Starting, MigInit
<1> QED
  BY <1>3, <1>4, <1>5 DEF MigIndInv

\* A step of one process that leaves the tables alone and does not insert.
LEMMA ReplicaStep ==
    ASSUME MigIndInv, NEW r \in Replicas, NEW new \in ReplicaType,
           replica' = [replica EXCEPT ![r] = new], UNCHANGED <<schema, recorded>>,
           stops' \in 0..MaxStops,
           new.seen \subseteq recorded, 1..(new.file - 1) \subseteq recorded,
           new.step \in {"body", "record"} => new.file <= Files,
           new.step = "serving" => new.file > Files,
           new.step = "commit" =>
              /\ new.file <= Files /\ new.file \notin recorded
              /\ Inserting(new.file) = {}
    PROVE  MigIndInv'
<1>0. /\ replica \in [Replicas -> ReplicaType] /\ schema \in Seq(Versions)
      /\ recorded \subseteq Versions /\ OneInserts /\ AppliedInOrder
      /\ \A q \in Replicas : ReplicaOk(q)
  BY DEF MigIndInv, MigTypeOK, ReplicaType
<1>1. \A q \in Replicas : replica'[q] = IF q = r THEN new ELSE replica[q]
  BY <1>0
<1>2. replica' \in [Replicas -> ReplicaType]
  BY <1>0
<1>3. MigTypeOK'
  BY <1>0, <1>2 DEF MigTypeOK, ReplicaType
<1>4. AppliedInOrder'
  BY <1>0 DEF AppliedInOrder
<1>5. ASSUME NEW q \in Replicas PROVE ReplicaOk(q)'
  BY <1>0, <1>1 DEF ReplicaOk
<1>6. ASSUME new.step = "commit", NEW q \in Replicas, q # r, replica[q].step = "commit"
      PROVE  replica[q].file # new.file
  BY <1>6 DEF Inserting
<1>7. OneInserts'
  BY <1>0, <1>1, <1>6 DEF OneInserts
<1> QED
  BY <1>3, <1>4, <1>5, <1>7 DEF MigIndInv

LEMMA MigIndStep == MigIndInv /\ [MigNext]_migVars => MigIndInv'
<1> SUFFICES ASSUME MigIndInv, [MigNext]_migVars PROVE MigIndInv'
  OBVIOUS
<1>0. /\ replica \in [Replicas -> ReplicaType] /\ schema \in Seq(Versions)
      /\ recorded \subseteq Versions /\ OneInserts /\ AppliedInOrder
      /\ \A q \in Replicas : ReplicaOk(q)
      /\ stops \in 0..MaxStops /\ Files \in Nat /\ MaxStops \in Nat
  BY MigrationsAssumption DEF MigIndInv, MigTypeOK, ReplicaType
\* A step that only moves one process to another place of the loop.
<1>a. ASSUME NEW r \in Replicas, NEW to \in {"next", "body", "record", "failed"},
             Goto(r, to), UNCHANGED <<schema, recorded>>, stops' \in 0..MaxStops,
             to \in {"body", "record"} => replica[r].file <= Files
      PROVE  MigIndInv'
  <2> DEFINE new == [replica[r] EXCEPT !.step = to]
  <2>1. replica[r] \in ReplicaType /\ ReplicaOk(r)
    BY <1>0
  <2>2. /\ new \in ReplicaType /\ new.step = to /\ new.seen = replica[r].seen
        /\ new.file = replica[r].file
    BY <2>1 DEF ReplicaType
  <2>3. replica' = [replica EXCEPT ![r] = new]
    BY <1>a DEF Goto
  <2> HIDE DEF new
  <2> QED
    BY <1>a, <2>1, <2>2, <2>3, ReplicaStep DEF ReplicaOk
<1>1. ASSUME NEW r \in Replicas, ReadApplied(r) PROVE MigIndInv'
  <2> DEFINE new == [replica[r] EXCEPT !.step = "next", !.seen = recorded]
  <2>1. replica[r] \in ReplicaType /\ ReplicaOk(r)
    BY <1>0
  <2>2. /\ new \in ReplicaType /\ new.step = "next" /\ new.seen = recorded
        /\ new.file = replica[r].file
    BY <1>0, <2>1 DEF ReplicaType
  <2>3. replica' = [replica EXCEPT ![r] = new] /\ UNCHANGED <<schema, recorded, stops>>
    BY <1>0, <1>1 DEF ReadApplied
  <2> HIDE DEF new
  <2> QED
    BY <1>0, <2>1, <2>2, <2>3, ReplicaStep DEF ReplicaOk
<1>2. ASSUME NEW r \in Replicas, NextFile(r) PROVE MigIndInv'
  <2> DEFINE f == replica[r].file
  <2>1. /\ replica[r] \in ReplicaType /\ ReplicaOk(r) /\ UNCHANGED <<schema, recorded, stops>>
        /\ replica[r].step = "next"
    BY <1>0, <1>2 DEF NextFile
  <2>2. f \in 1..(Files + 1) /\ replica[r].seen \subseteq recorded
    BY <2>1 DEF ReplicaType, ReplicaOk
  <2>3. CASE f > Files /\ Goto(r, "serving")
    <3> DEFINE new == [replica[r] EXCEPT !.step = "serving"]
    <3>1. replica' = [replica EXCEPT ![r] = new]
      BY <2>3 DEF Goto
    <3>2. /\ new \in ReplicaType /\ new.step = "serving" /\ new.seen = replica[r].seen
          /\ new.file = f
      BY <2>1 DEF ReplicaType
    <3> HIDE DEF new
    <3> QED
      BY <1>0, <2>1, <2>3, <3>1, <3>2, ReplicaStep DEF ReplicaOk
  <2>4. CASE f <= Files /\ f \in replica[r].seen /\ replica' = [replica EXCEPT ![r].file = f + 1]
    <3> DEFINE new == [replica[r] EXCEPT !.file = f + 1]
    <3>1. replica' = [replica EXCEPT ![r] = new]
      BY <2>4
    <3>2. f + 1 \in 1..(Files + 1)
      BY <1>0, <2>2, <2>4
    <3>3. /\ new \in ReplicaType /\ new.step = "next" /\ new.seen = replica[r].seen
          /\ new.file = f + 1
      <4> HIDE DEF f
      <4> QED
        BY <2>1, <3>2 DEF ReplicaType
    <3>4. 1..f \subseteq recorded
      BY <2>1, <2>2, <2>4 DEF ReplicaOk
    <3>5. 1..(new.file - 1) = 1..f
      BY <2>2, <3>3
    <3> HIDE DEF new
    <3> QED
      BY <1>0, <2>1, <2>2, <3>1, <3>3, <3>4, <3>5, ReplicaStep
  <2>5. CASE f <= Files /\ Goto(r, "body")
    BY <1>0, <1>a, <2>1, <2>5
  <2> QED
    BY <1>2, <2>3, <2>4, <2>5 DEF NextFile
<1>3. ASSUME NEW r \in Replicas, RunBody(r) PROVE MigIndInv'
  <2>1. replica[r].file <= Files /\ UNCHANGED <<schema, recorded>>
    BY <1>0, <1>3 DEF RunBody, ReplicaOk
  <2>2. \/ Goto(r, "record") /\ UNCHANGED stops
        \/ Goto(r, "failed") /\ stops' = IF stops < MaxStops THEN stops + 1 ELSE stops
    BY <1>3 DEF RunBody, MigrateFails
  <2>3. stops' \in 0..MaxStops
    BY <1>0, <2>2
  <2> QED
    BY <1>a, <2>1, <2>2, <2>3
<1>4. ASSUME NEW r \in Replicas, RecordVersion(r) PROVE MigIndInv'
  <2>1. /\ replica[r] \in ReplicaType /\ ReplicaOk(r) /\ replica[r].file <= Files
        /\ UNCHANGED <<schema, recorded, stops>> /\ Inserting(replica[r].file) = {}
    BY <1>0, <1>4 DEF RecordVersion, ReplicaOk
  <2>2. CASE replica[r].file \in recorded
    BY <1>0, <1>4, <1>a, <2>1, <2>2 DEF RecordVersion, MigrateFails
  <2>3. CASE replica[r].file \notin recorded
    <3> DEFINE new == [replica[r] EXCEPT !.step = "commit"]
    <3>1. replica' = [replica EXCEPT ![r] = new]
      BY <1>4, <2>3 DEF RecordVersion, Goto
    <3>2. /\ new \in ReplicaType /\ new.step = "commit" /\ new.seen = replica[r].seen
          /\ new.file = replica[r].file
      BY <2>1 DEF ReplicaType
    <3> HIDE DEF new
    <3> QED
      BY <1>0, <2>1, <2>3, <3>1, <3>2, ReplicaStep DEF ReplicaOk
  <2> QED
    BY <2>2, <2>3
<1>5. ASSUME NEW r \in Replicas, Commit(r) PROVE MigIndInv'
  <2> DEFINE f == replica[r].file
             n == Len(schema)
             new == [replica[r] EXCEPT !.step = "next", !.file = f + 1]
  <2>1. /\ replica[r] \in ReplicaType /\ ReplicaOk(r) /\ replica[r].step = "commit"
        /\ f \in 1..(Files + 1) /\ f <= Files /\ f \notin recorded
        /\ 1..(f - 1) \subseteq recorded /\ n \in Nat /\ recorded = 1..n
    BY <1>0, <1>5 DEF Commit, ReplicaOk, ReplicaType, AppliedInOrder
  <2>2. /\ schema' = Append(schema, f) /\ recorded' = recorded \cup {f}
        /\ replica' = [replica EXCEPT ![r] = new] /\ UNCHANGED stops
    BY <1>5 DEF Commit
  <2>3. /\ new \in ReplicaType /\ new.step = "next" /\ new.seen = replica[r].seen
        /\ new.file = f + 1
    <3>1. f + 1 \in 1..(Files + 1)
      BY <1>0, <2>1
    <3> HIDE DEF f
    <3> QED
      BY <2>1, <3>1 DEF ReplicaType
  <2> HIDE DEF f, n, new
  <2>4. f = n + 1
    <3>1. f > n
      BY <2>1
    <3>2. ASSUME f - 1 > n PROVE FALSE
      <4>1. f - 1 \in 1..(f - 1)
        BY <2>1, <3>2
      <4> QED
        BY <2>1, <3>2, <4>1
    <3> QED
      BY <2>1, <3>1, <3>2
  <2>5. f \in Versions
    BY <2>1 DEF Versions
  <2>6. schema' \in Seq(Versions) /\ recorded' \subseteq Versions
    BY <1>0, <2>2, <2>5, AppendFacts
  <2>7. replica' \in [Replicas -> ReplicaType]
    BY <1>0, <2>2, <2>3
  <2>8. MigTypeOK'
    BY <1>0, <2>2, <2>6, <2>7 DEF MigTypeOK, ReplicaType
  <2>9. AppliedInOrder'
    <3>1. \A i \in DOMAIN schema : schema[i] = i
      BY <1>0 DEF AppliedInOrder
    <3>2. /\ DOMAIN schema = 1..n /\ DOMAIN schema' = 1..(n + 1) /\ Len(schema') = n + 1
          /\ \A i \in 1..n : schema'[i] = schema[i]
          /\ schema'[n + 1] = n + 1
      BY <1>0, <2>2, <2>4, <2>5, AppendFacts DEF n
    <3>3. recorded' = 1..(n + 1)
      BY <2>1, <2>2, <2>4
    <3>4. \A i \in 1..(n + 1) : schema'[i] = i
      BY <2>1, <3>1, <3>2
    <3> QED
      BY <3>2, <3>3, <3>4 DEF AppliedInOrder
  <2>10. \A q \in Replicas : replica'[q] = IF q = r THEN new ELSE replica[q]
    BY <1>0, <2>2
  <2>11. ASSUME NEW q \in Replicas PROVE ReplicaOk(q)'
    <3>1. CASE q = r
      <4>1. 1..(new.file - 1) = 1..f
        BY <2>1, <2>3
      <4>2. 1..f \subseteq recorded'
        BY <2>1, <2>2
      <4> QED
        BY <2>1, <2>2, <2>3, <2>10, <3>1, <4>1, <4>2 DEF ReplicaOk
    <3>2. CASE q # r
      <4>1. replica[q].step = "commit" => replica[q].file # f
        BY <1>0, <2>1, <3>2 DEF OneInserts, f
      <4> QED
        BY <1>0, <2>2, <2>10, <3>2, <4>1 DEF ReplicaOk
    <3> QED
      BY <3>1, <3>2
  <2>12. OneInserts'
    BY <1>0, <2>3, <2>10 DEF OneInserts
  <2> QED
    BY <2>8, <2>9, <2>11, <2>12 DEF MigIndInv
<1>6. ASSUME NEW r \in Replicas, RestartReplica(r) PROVE MigIndInv'
  <2>1. Starting \in ReplicaType /\ 1..(Starting.file - 1) = {}
    BY <1>0 DEF Starting, ReplicaType
  <2> QED
    BY <1>0, <1>6, <2>1, ReplicaStep DEF RestartReplica, Starting
<1>7. ASSUME NEW r \in Replicas, Killed(r) PROVE MigIndInv'
  <2>1. stops' \in 0..MaxStops
    BY <1>0, <1>7 DEF Killed
  <2> QED
    BY <1>7, <1>a, <2>1 DEF Killed
<1>8. CASE UNCHANGED migVars
  BY <1>8 DEF migVars, MigIndInv, MigTypeOK, AppliedInOrder, OneInserts, ReplicaOk
<1> QED
  BY <1>1, <1>2, <1>3, <1>4, <1>5, <1>6, <1>7, <1>8 DEF MigNext, MigProceeds

\* However many processes start together, die and start again, the files are
\* applied once each and in order, a version is recorded exactly when its
\* statements are in the database, and only a process that found or made the
\* schema complete serves (Migrate).
THEOREM SchemaIsSafe == MigSpec => []SchemaInv
<1>1. MigIndInv => SchemaInv
  <2> SUFFICES ASSUME MigIndInv PROVE SchemaInv
    OBVIOUS
  <2>1. ASSUME NEW r \in Replicas, replica[r].step = "serving" PROVE recorded = Versions
    <3>1. replica[r].file \in 1..(Files + 1) /\ replica[r].file > Files /\ Files \in Nat
      BY <2>1, MigrationsAssumption DEF MigIndInv, MigTypeOK, ReplicaOk
    <3>2. replica[r].file - 1 = Files
      BY <3>1
    <3> QED
      BY <2>1, <3>2 DEF MigIndInv, MigTypeOK, ReplicaOk, Versions
  <2> QED
    BY <2>1 DEF MigIndInv, SchemaInv, ServesOnCompleteSchema
<1> QED
  BY <1>1, MigIndInit, MigIndStep, PTL DEF MigSpec

-----------------------------------------------------------------------------
(* The knowledge base *)

DocType == [status: {"none", "pending", "processing", "ready", "failed", "deleted"},
            count: 0..MaxBatches]
JobType == [step: {"none", "start", "embed", "insert", "fail", "finish"},
            batches: 0..MaxBatches, done: 0..MaxBatches, live: BOOLEAN]

\* One document: what its goroutine knows to be done is what the database holds,
\* as long as the document is there; a final status is the goroutine's last act.
DocOk(d) ==
    /\ doc[d].status \in {"none", "pending", "deleted"} => chunks[d] = {}
    /\ doc[d].status \in {"none", "ready", "failed"} => job[d].step = "none"
    /\ doc[d].status = "pending" => job[d].step \in {"none", "start"}
    /\ job[d].step = "start" => job[d].done = 0 /\ doc[d].status \in {"pending", "deleted"}
    /\ job[d].step \in {"embed", "insert"} => job[d].done < job[d].batches
    /\ job[d].step = "finish" => job[d].done > 0
    /\ job[d].step \in {"embed", "insert", "finish"} /\ Stored(d) =>
          chunks[d] = 1..job[d].done
    /\ job[d].step = "fail" /\ Stored(d) =>
          /\ 1..job[d].done \subseteq chunks[d]
          /\ d \notin excused => chunks[d] = 1..job[d].done
    /\ doc[d].status = "ready" => chunks[d] = 1..doc[d].count /\ doc[d].count > 0
    /\ doc[d].status = "failed" =>
          /\ 1..doc[d].count \subseteq chunks[d]
          /\ d \notin excused => chunks[d] = 1..doc[d].count

KbIndInv == KbTypeOK /\ \A d \in Docs : DocOk(d)

LEMMA KbIndInit == KbInit => KbIndInv
<1> SUFFICES ASSUME KbInit PROVE KbIndInv
  OBVIOUS
<1>1. NoDoc \in DocType /\ NoJob \in JobType
  BY KbAssumption DEF NoDoc, DocType, NoJob, JobType
<1>2. KbTypeOK
  BY KbAssumption, <1>1 DEF KbInit, KbTypeOK, DocType, JobType
<1>3. ASSUME NEW d \in Docs PROVE DocOk(d)
  BY <1>3 DEF KbInit, DocOk, NoDoc, NoJob, Stored
<1> QED
  BY <1>2, <1>3 DEF KbIndInv

\* A step about one document.
LEMMA DocFrame ==
    ASSUME KbIndInv, NEW d \in Docs, NEW row, NEW set, NEW new,
           row \in DocType, set \in SUBSET (1..MaxBatches), new \in JobType,
           doc' = [doc EXCEPT ![d] = row], chunks' = [chunks EXCEPT ![d] = set],
           job' = [job EXCEPT ![d] = new],
           kbFaults' \in 0..MaxKbFaults, excused \subseteq excused', excused' \subseteq Docs,
           DocOk(d)'
    PROVE  KbIndInv'
<1>0. /\ doc \in [Docs -> DocType] /\ job \in [Docs -> JobType]
      /\ chunks \in [Docs -> SUBSET (1..MaxBatches)]
      /\ \A e \in Docs : DocOk(e)
  BY DEF KbIndInv, KbTypeOK, DocType, JobType
<1>1. /\ doc' \in [Docs -> DocType] /\ job' \in [Docs -> JobType]
      /\ chunks' \in [Docs -> SUBSET (1..MaxBatches)]
  BY <1>0
<1>2. KbTypeOK'
  BY <1>1 DEF KbTypeOK, DocType, JobType
<1>3. ASSUME NEW e \in Docs, e # d PROVE DocOk(e)'
  <2>1. doc'[e] = doc[e] /\ chunks'[e] = chunks[e] /\ job'[e] = job[e]
    BY <1>0, <1>3
  <2>2. Stored(e)' <=> Stored(e)
    BY <2>1 DEF Stored
  <2> QED
    BY <1>0, <2>1, <2>2 DEF DocOk
<1> QED
  BY <1>2, <1>3 DEF KbIndInv

\* UPDATE kb_documents: nothing, or the new status of a document that is there.
LEMMA MarkDocument ==
    ASSUME KbTypeOK, NEW d \in Docs, NEW status, NEW count,
           MarkKBDocumentStatus(d, status, count)
    PROVE  /\ \/ doc' = [doc EXCEPT ![d] = doc[d]]
              \/ Stored(d) /\ doc' = [doc EXCEPT ![d] = [status |-> status, count |-> count]]
                           /\ UNCHANGED excused
           /\ doc' # doc => Stored(d)
           /\ kbFaults' \in 0..MaxKbFaults /\ excused \subseteq excused' /\ excused' \subseteq Docs
<1>0. doc \in [Docs -> DocType] /\ kbFaults \in 0..MaxKbFaults /\ excused \subseteq Docs
  BY DEF KbTypeOK, DocType
<1>1. doc = [doc EXCEPT ![d] = doc[d]]
  BY <1>0
<1> QED
  BY <1>0, <1>1, KbAssumption DEF MarkKBDocumentStatus, NoFault, KbFault

LEMMA KbIndStep == KbIndInv /\ [KbNext]_kbVars => KbIndInv'
<1> SUFFICES ASSUME KbIndInv, [KbNext]_kbVars PROVE KbIndInv'
  OBVIOUS
<1>0. /\ KbTypeOK /\ doc \in [Docs -> DocType] /\ job \in [Docs -> JobType]
      /\ chunks \in [Docs -> SUBSET (1..MaxBatches)]
      /\ kbFaults \in 0..MaxKbFaults /\ excused \subseteq Docs
      /\ \A d \in Docs : DocOk(d)
      /\ MaxBatches \in Nat /\ MaxKbFaults \in Nat
  BY KbAssumption DEF KbIndInv, KbTypeOK, DocType, JobType
<1>same. ASSUME NEW d \in Docs
         PROVE  /\ UNCHANGED doc => doc' = [doc EXCEPT ![d] = doc[d]]
                /\ UNCHANGED chunks => chunks' = [chunks EXCEPT ![d] = chunks[d]]
                /\ UNCHANGED job => job' = [job EXCEPT ![d] = job[d]]
                /\ doc[d] \in DocType /\ chunks[d] \in SUBSET (1..MaxBatches)
                /\ job[d] \in JobType
  BY <1>0
<1>fault. /\ NoFault => /\ kbFaults' \in 0..MaxKbFaults /\ excused \subseteq excused'
                        /\ excused' \subseteq Docs
          /\ \A d \in Docs : KbFault(d) =>
                /\ kbFaults' \in 0..MaxKbFaults /\ excused \subseteq excused'
                /\ excused' \subseteq Docs /\ d \in excused'
  BY <1>0 DEF NoFault, KbFault
<1>goto. ASSUME NEW d \in Docs, NEW to \in {"none", "start", "embed", "insert", "fail", "finish"},
                KbGoto(d, to)
         PROVE  \E new \in JobType :
                   /\ job' = [job EXCEPT ![d] = new] /\ job'[d] = new
                   /\ new.step = to /\ new.batches = job[d].batches /\ new.done = job[d].done
  <2> DEFINE new == [job[d] EXCEPT !.step = to]
  <2>1. job[d] \in JobType
    BY <1>0
  <2>2. /\ new \in JobType /\ new.step = to /\ new.batches = job[d].batches
        /\ new.done = job[d].done
    BY <2>1 DEF JobType
  <2>3. job' = [job EXCEPT ![d] = new]
    BY <1>goto DEF KbGoto
  <2> HIDE DEF new
  <2> QED
    BY <1>0, <2>2, <2>3
<1>1. ASSUME NEW d \in Docs, NEW n \in 0..MaxBatches, UploadKBDocument(d, n)
      PROVE  KbIndInv'
  <2> DEFINE row == [doc[d] EXCEPT !.status = "pending"]
             new == [step |-> "start", batches |-> n, done |-> 0, live |-> TRUE]
  <2>1. row \in DocType /\ row.status = "pending"
    BY <1>0 DEF DocType
  <2>2. new \in JobType /\ new.step = "start" /\ new.done = 0
    BY <1>0 DEF JobType
  <2>3. /\ doc' = [doc EXCEPT ![d] = row] /\ job' = [job EXCEPT ![d] = new]
        /\ NoFault /\ UNCHANGED chunks /\ doc[d].status = "none"
    BY <1>1 DEF UploadKBDocument
  <2> HIDE DEF row, new
  <2>4. doc'[d] = row /\ job'[d] = new /\ chunks'[d] = {}
    BY <1>0, <2>3 DEF DocOk
  <2>5. DocOk(d)'
    BY <2>1, <2>2, <2>4 DEF DocOk
  <2> QED
    BY <1>same, <1>fault, <2>1, <2>2, <2>3, <2>5, DocFrame
<1>2. ASSUME NEW d \in Docs, DeleteKBDocument(d) PROVE KbIndInv'
  <2> DEFINE row == [status |-> "deleted", count |-> 0]
  <2>1. row \in DocType /\ {} \in SUBSET (1..MaxBatches)
    BY <1>0 DEF DocType
  <2>2. /\ doc' = [doc EXCEPT ![d] = row] /\ chunks' = [chunks EXCEPT ![d] = {}]
        /\ NoFault /\ UNCHANGED job
    BY <1>2 DEF DeleteKBDocument
  <2>3. doc'[d].status = "deleted" /\ chunks'[d] = {} /\ job'[d] = job[d]
    BY <1>0, <2>2
  <2>4. DocOk(d)'
    BY <1>0, <2>3 DEF DocOk, Stored
  <2> QED
    BY <1>same, <1>fault, <2>1, <2>2, <2>4, DocFrame
<1>3. ASSUME NEW d \in Docs, IngestDeadline(d) PROVE KbIndInv'
  <2> DEFINE new == [job[d] EXCEPT !.live = FALSE]
  <2>1. /\ new \in JobType /\ new.step = job[d].step /\ new.done = job[d].done
        /\ new.batches = job[d].batches
    BY <1>same DEF JobType
  <2>2. job' = [job EXCEPT ![d] = new] /\ KbFault(d) /\ UNCHANGED <<doc, chunks>>
    BY <1>3 DEF IngestDeadline
  <2> HIDE DEF new
  <2>3. job'[d] = new /\ d \in excused'
    BY <1>0, <1>fault, <2>2
  <2>4. Stored(d)' <=> Stored(d)
    BY <2>2 DEF Stored
  <2>5. DocOk(d)'
    BY <1>0, <2>1, <2>2, <2>3, <2>4 DEF DocOk
  <2>6. /\ doc' = [doc EXCEPT ![d] = doc[d]] /\ doc[d] \in DocType
        /\ chunks' = [chunks EXCEPT ![d] = chunks[d]] /\ chunks[d] \in SUBSET (1..MaxBatches)
    BY <1>same, <2>2
  <2>7. /\ kbFaults' \in 0..MaxKbFaults /\ excused \subseteq excused' /\ excused' \subseteq Docs
    BY <1>fault, <2>2
  <2> QED
    BY <2>1, <2>2, <2>5, <2>6, <2>7, DocFrame
<1>4. ASSUME NEW d \in Docs, IngestStarts(d) PROVE KbIndInv'
  <2>1. /\ job[d].step = "start" /\ MarkKBDocumentStatus(d, "processing", 0)
        /\ UNCHANGED chunks
        /\ IF doc' = doc THEN KbGoto(d, "none")
           ELSE KbGoto(d, IF job[d].batches = 0 THEN "fail" ELSE "embed")
    BY <1>4 DEF IngestStarts
  <2>2. /\ job[d].done = 0 /\ chunks[d] = {} /\ doc[d].status \in {"pending", "deleted"}
        /\ job[d].batches \in Nat
    BY <1>0, <1>same, <2>1 DEF DocOk, JobType
  <2>3. CASE doc' = doc
    <3>1. PICK new \in JobType :
             job' = [job EXCEPT ![d] = new] /\ job'[d] = new /\ new.step = "none"
      BY <1>goto, <2>1, <2>3
    <3>2. DocOk(d)'
      BY <2>1, <2>2, <2>3, <3>1 DEF DocOk
    <3> QED
      BY <1>0, <1>same, <2>1, <2>3, <3>1, <3>2, DocFrame, MarkDocument
  <2>4. CASE doc' # doc
    <3> DEFINE row == [status |-> "processing", count |-> 0]
    <3>1. row \in DocType
      BY <1>0 DEF DocType
    <3>2. Stored(d) /\ doc' = [doc EXCEPT ![d] = row]
      BY <1>0, <1>same, <2>1, <2>4, MarkDocument
    <3>3. PICK new \in JobType :
             /\ job' = [job EXCEPT ![d] = new] /\ job'[d] = new
             /\ new.step = IF job[d].batches = 0 THEN "fail" ELSE "embed"
             /\ new.batches = job[d].batches /\ new.done = 0
      BY <1>goto, <2>1, <2>2, <2>4
    <3>4. doc'[d].status = "processing" /\ chunks'[d] = 1..0
      BY <1>0, <2>1, <2>2, <3>2
    <3>5. DocOk(d)'
      BY <2>2, <3>3, <3>4 DEF DocOk
    <3> QED
      BY <1>0, <1>same, <2>1, <3>1, <3>2, <3>3, <3>5, DocFrame, MarkDocument
  <2> QED
    BY <2>3, <2>4
<1>5. ASSUME NEW d \in Docs, Embed(d) PROVE KbIndInv'
  <2>1. PICK to \in {"insert", "fail"} : KbGoto(d, to)
    BY <1>5 DEF Embed, EmbedFailure
  <2>2. job[d].step = "embed" /\ NoFault /\ UNCHANGED <<doc, chunks>>
    BY <1>5 DEF Embed
  <2>3. PICK new \in JobType :
           /\ job' = [job EXCEPT ![d] = new] /\ job'[d] = new
           /\ new.step = to /\ new.batches = job[d].batches /\ new.done = job[d].done
    BY <1>goto, <2>1
  <2>4. (Stored(d)' <=> Stored(d)) /\ UNCHANGED excused
    BY <2>2 DEF Stored, NoFault
  <2>5. DocOk(d)'
    BY <1>0, <2>2, <2>3, <2>4 DEF DocOk
  <2> QED
    BY <1>same, <1>fault, <2>2, <2>3, <2>5, DocFrame
<1>6. ASSUME NEW d \in Docs, InsertKBChunks(d) PROVE KbIndInv'
  <2> DEFINE n == job[d].done
  <2>1. job[d].step = "insert" /\ UNCHANGED doc /\ (Stored(d)' <=> Stored(d))
    BY <1>6 DEF InsertKBChunks, Stored
  <2>2. /\ n \in Nat /\ job[d].batches \in 0..MaxBatches /\ n < job[d].batches
        /\ (Stored(d) => chunks[d] = 1..n)
        /\ doc[d].status \notin {"none", "ready", "failed", "pending"}
    BY <1>0, <1>same, <2>1 DEF DocOk, JobType
  <2>3. n + 1 \in 1..MaxBatches /\ 1..n \cup {n + 1} = 1..(n + 1) /\ n + 1 > 0
    BY <1>0, <2>2
  <2>4. chunks[d] \cup {n + 1} \in SUBSET (1..MaxBatches)
    BY <1>same, <2>3
  <2>5. CASE AcceptsChunks(d) /\ chunks' = [chunks EXCEPT ![d] = @ \cup {n + 1}]
             /\ BatchDone(d) /\ NoFault
    <3> DEFINE to == IF n + 1 = job[d].batches THEN "finish" ELSE "embed"
               new == [job[d] EXCEPT !.done = n + 1, !.step = to]
    <3>1. job[d] \in JobType /\ n + 1 \in 0..MaxBatches /\ to \in {"finish", "embed"}
      BY <1>same, <2>3
    <3>2. job' = [job EXCEPT ![d] = new]
      BY <1>0, <2>5 DEF BatchDone
    <3>3. (to = "embed" => n + 1 < job[d].batches)
      BY <2>2
    <3> HIDE DEF to, n
    <3>4. /\ new \in JobType /\ new.step = to /\ new.done = n + 1
          /\ new.batches = job[d].batches
      BY <3>1 DEF JobType
    <3> HIDE DEF new
    <3>5. job'[d] = new /\ chunks'[d] = chunks[d] \cup {n + 1} /\ UNCHANGED excused
      BY <1>0, <2>5, <3>2 DEF NoFault
    <3>6. Stored(d) /\ chunks'[d] = 1..(n + 1)
      BY <2>2, <2>3, <2>5, <3>5 DEF AcceptsChunks
    <3>7. doc'[d] = doc[d] /\ doc[d].status \notin {"none", "ready", "failed", "pending", "deleted"}
      BY <2>1, <2>2, <3>6 DEF Stored
    <3>8. DocOk(d)'
      BY <2>3, <3>1, <3>3, <3>4, <3>5, <3>6, <3>7 DEF DocOk
    <3> QED
      BY <1>same, <1>fault, <2>1, <2>4, <2>5, <3>2, <3>4, <3>8, DocFrame
  <2>6. ASSUME KbGoto(d, "fail"), UNCHANGED chunks, NoFault \/ KbFault(d)
        PROVE  KbIndInv'
    <3>1. PICK new \in JobType :
             /\ job' = [job EXCEPT ![d] = new] /\ job'[d] = new
             /\ new.step = "fail" /\ new.done = n
      BY <1>goto, <2>6
    <3>2. doc'[d] = doc[d] /\ chunks'[d] = chunks[d]
      BY <2>1, <2>6
    <3>3. DocOk(d)'
      BY <1>0, <2>1, <2>2, <3>1, <3>2 DEF DocOk
    <3> QED
      BY <1>same, <1>fault, <2>1, <2>6, <3>1, <3>3, DocFrame
  <2>7. CASE AcceptsChunks(d) /\ KbGoto(d, "fail") /\ KbFault(d)
             /\ chunks' = [chunks EXCEPT ![d] = @ \cup {n + 1}]
    <3>1. PICK new \in JobType :
             /\ job' = [job EXCEPT ![d] = new] /\ job'[d] = new
             /\ new.step = "fail" /\ new.done = n
      BY <1>goto, <2>7
    <3>2. doc'[d] = doc[d] /\ chunks'[d] = chunks[d] \cup {n + 1} /\ d \in excused'
      BY <1>0, <1>fault, <2>1, <2>7
    <3>3. Stored(d) /\ doc[d].status \notin {"none", "ready", "failed", "pending", "deleted"}
      BY <2>2, <2>7 DEF AcceptsChunks, Stored
    <3>4. DocOk(d)'
      BY <2>2, <3>1, <3>2, <3>3 DEF DocOk
    <3> QED
      BY <1>same, <1>fault, <2>1, <2>4, <2>7, <3>1, <3>4, DocFrame
  <2> QED
    BY <1>6, <2>5, <2>6, <2>7 DEF InsertKBChunks
<1>7. ASSUME NEW d \in Docs, IngestFails(d) PROVE KbIndInv'
  <2> DEFINE n == job[d].done
             row == [status |-> "failed", count |-> n]
  <2>1. /\ job[d].step = "fail" /\ MarkKBDocumentStatus(d, "failed", n)
        /\ KbGoto(d, "none") /\ UNCHANGED chunks
    BY <1>7 DEF IngestFails
  <2>2. PICK new \in JobType :
           job' = [job EXCEPT ![d] = new] /\ job'[d] = new /\ new.step = "none"
    BY <1>goto, <2>1
  <2>3. row \in DocType
    BY <1>same DEF DocType, JobType
  <2>4. chunks'[d] = chunks[d]
    BY <2>1
  <2>5. CASE doc' = [doc EXCEPT ![d] = doc[d]]
    <3>1. doc'[d] = doc[d]
      BY <1>0, <2>5
    <3>2. doc[d].status \notin {"none", "ready", "failed", "pending"}
      BY <1>0, <2>1 DEF DocOk
    <3>3. DocOk(d)'
      BY <1>0, <2>2, <2>4, <3>1, <3>2 DEF DocOk
    <3> QED
      BY <1>0, <1>same, <2>1, <2>2, <2>5, <3>3, DocFrame, MarkDocument
  <2>6. CASE Stored(d) /\ doc' = [doc EXCEPT ![d] = row] /\ UNCHANGED excused
    <3>1. doc'[d] = row /\ row.status = "failed" /\ row.count = n
      BY <1>0, <2>6
    <3> HIDE DEF row
    <3>2. DocOk(d)'
      BY <1>0, <2>1, <2>2, <2>4, <2>6, <3>1 DEF DocOk
    <3> QED
      BY <1>0, <1>same, <2>1, <2>2, <2>3, <2>6, <3>2, DocFrame, MarkDocument
  <2> QED
    BY <1>0, <2>1, <2>5, <2>6, MarkDocument
<1>8. ASSUME NEW d \in Docs, IngestEnds(d) PROVE KbIndInv'
  <2> DEFINE n == job[d].done
             row == [status |-> "ready", count |-> n]
  <2>1. /\ job[d].step = "finish" /\ MarkKBDocumentStatus(d, "ready", n)
        /\ KbGoto(d, "none") /\ UNCHANGED chunks
    BY <1>8 DEF IngestEnds
  <2>2. PICK new \in JobType :
           job' = [job EXCEPT ![d] = new] /\ job'[d] = new /\ new.step = "none"
    BY <1>goto, <2>1
  <2>3. row \in DocType
    BY <1>same DEF DocType, JobType
  <2>4. chunks'[d] = chunks[d] /\ n > 0
    BY <1>0, <2>1 DEF DocOk
  <2>5. CASE doc' = [doc EXCEPT ![d] = doc[d]]
    <3>1. doc'[d] = doc[d]
      BY <1>0, <2>5
    <3>2. doc[d].status \notin {"none", "ready", "failed", "pending"}
      BY <1>0, <2>1 DEF DocOk
    <3>3. DocOk(d)'
      BY <1>0, <2>2, <2>4, <3>1, <3>2 DEF DocOk
    <3> QED
      BY <1>0, <1>same, <2>1, <2>2, <2>5, <3>3, DocFrame, MarkDocument
  <2>6. CASE Stored(d) /\ doc' = [doc EXCEPT ![d] = row] /\ UNCHANGED excused
    <3>1. doc'[d] = row /\ row.status = "ready" /\ row.count = n
      BY <1>0, <2>6
    <3> HIDE DEF row
    <3>2. DocOk(d)'
      BY <1>0, <2>1, <2>2, <2>4, <2>6, <3>1 DEF DocOk
    <3> QED
      BY <1>0, <1>same, <2>1, <2>2, <2>3, <2>6, <3>2, DocFrame, MarkDocument
  <2> QED
    BY <1>0, <2>1, <2>5, <2>6, MarkDocument
<1>9. CASE KbRestart
  <2>1. /\ job' = [d \in Docs |-> NoJob] /\ UNCHANGED <<doc, chunks>>
        /\ kbFaults' = kbFaults + 1 /\ kbFaults < MaxKbFaults
        /\ excused \subseteq excused' /\ excused' \subseteq Docs
    BY <1>0, <1>9 DEF KbRestart
  <2>2. NoJob \in JobType /\ NoJob.step = "none"
    BY <1>0 DEF NoJob, JobType
  <2>3. job' \in [Docs -> JobType] /\ \A d \in Docs : job'[d].step = "none"
    BY <2>1, <2>2
  <2>4. KbTypeOK'
    BY <1>0, <2>1, <2>3 DEF KbTypeOK, DocType, JobType
  <2>5. ASSUME NEW d \in Docs PROVE DocOk(d)'
    BY <1>0, <2>1, <2>3 DEF DocOk
  <2> QED
    BY <2>4, <2>5 DEF KbIndInv
<1>10. CASE UNCHANGED kbVars
  BY <1>10 DEF kbVars, KbIndInv, KbTypeOK, DocOk, Stored
<1> QED
  BY <1>1, <1>2, <1>3, <1>4, <1>5, <1>6, <1>7, <1>8, <1>9, <1>10 DEF KbNext, IngestProceeds

\* What the portal shows of a document is what a search can find: a ready one has
\* all its chunks, a failed one as many as it says (but for an unanswered COMMIT),
\* a deleted one none, although the goroutine of its ingest goes on (Ingest).
THEOREM KnowledgeIsConsistent == KbSpec => []KbInv
<1>1. KbIndInv => KbInv
  BY DEF KbIndInv, KbInv, DocOk, StatusTellsTheChunks, DeletedLeavesNothing
<1> QED
  BY <1>1, KbIndInit, KbIndStep, PTL DEF KbSpec

-----------------------------------------------------------------------------
(* The throttle.  A bucket pays for what its key was let in since any time   *)
(* up to lastSeen, and for what came after lastSeen with the tokens it no    *)
(* longer has; a key without a bucket could have a full one.                 *)

LetInSince(k, s) == LetInBetween(k, s, now)

BucketPays(k) ==
    LET b == visitors[k] IN
    IF b.known
    THEN /\ b.tokens < Burst /\ b.lastSeen <= now
         /\ LetInSince(k, b.lastSeen) > 0
         /\ \A s \in 0..b.lastSeen :
               LetInSince(k, s) + b.tokens <= Burst + (b.lastSeen - s) \div Rate
         /\ \A s \in (b.lastSeen + 1)..now :
               /\ LetInSince(k, s) + b.tokens < Burst
               /\ b.lastSeen + Rate <= s => LetInSince(k, s) = 0
    ELSE \A s \in 0..now : LetInSince(k, s) <= (now - s) \div Rate

\* The history up to a tick grows with it, and nothing was let in after now.
HistoryOk(k) ==
    /\ \A s, t \in Time : s <= t => allowed[k][s] <= allowed[k][t]
    /\ \A t \in now..MaxTime : allowed[k][t] = allowed[k][now]
    /\ \A t \in Time : now < t => denied[k][t] = 0

\* RateInv made inductive.
RateIndInv ==
    /\ RateTypeOK
    /\ \A k \in Keys : HistoryOk(k) /\ BucketPays(k)
    /\ RefusedOnlyAfterAllowed

LEMMA RateConstants ==
    /\ Rate \in Nat /\ Rate >= 1 /\ Burst \in Nat /\ Burst >= 1 /\ Idle \in Nat
    /\ MaxTime \in Nat /\ MaxDenied \in Nat /\ Rate * Burst \in Nat /\ Rate * Burst <= Idle
BY RateAssumption

\* How often Rate fits into a stretch of time.
LEMMA DivBound ==
    ASSUME NEW n \in Nat, NEW q \in Nat
    PROVE  n \div Rate \in Nat /\ (Rate * q <= n <=> q <= n \div Rate)
<1> DEFINE d == n \div Rate
<1>0. Rate \in Nat /\ Rate >= 1
  BY RateConstants
<1>1. d \in Nat /\ Rate * d \in Nat /\ Rate * d <= n /\ n < Rate * d + Rate
  BY <1>0
<1> HIDE DEF d
<1>2. CASE q <= d
  <2>1. PICK e \in Nat : d = q + e
    BY <1>1, <1>2
  <2>2. Rate * d = Rate * q + Rate * e /\ Rate * e \in Nat /\ Rate * q \in Nat
    BY <1>0, <2>1
  <2> QED
    BY <1>1, <1>2, <2>2 DEF d
<1>3. CASE ~(q <= d)
  <2>1. PICK e \in Nat : q = d + 1 + e
    <3>1. q - d - 1 \in Nat /\ q = d + 1 + (q - d - 1)
      BY <1>1, <1>3
    <3> QED
      BY <3>1
  <2>2. Rate * q = Rate * d + Rate + Rate * e /\ Rate * e \in Nat
    BY <1>0, <1>1, <2>1
  <2> QED
    BY <1>0, <1>1, <1>3, <2>2 DEF d
<1> QED
  BY <1>2, <1>3

LEMMA DivMonotone ==
    ASSUME NEW a \in Nat, NEW b \in Nat, a <= b
    PROVE  a \div Rate \in Nat /\ a \div Rate <= b \div Rate
<1> DEFINE p == a \div Rate
<1>1. p \in Nat
  BY DivBound
<1>2. Rate * p <= a
  BY <1>1, DivBound
<1>3. Rate * p \in Nat
  BY <1>1, RateConstants
<1>4. Rate * p <= b
  BY <1>2, <1>3
<1> HIDE DEF p
<1> QED
  BY <1>1, <1>4, DivBound DEF p

LEMMA DivSum ==
    ASSUME NEW a \in Nat, NEW b \in Nat
    PROVE  (a \div Rate) + (b \div Rate) <= (a + b) \div Rate
<1> DEFINE p == a \div Rate
           q == b \div Rate
<1>1. p \in Nat /\ q \in Nat /\ Rate * p <= a /\ Rate * q <= b
  BY DivBound
<1>2. a + b \in Nat
  OBVIOUS
<1> HIDE DEF p, q
<1>3. Rate * (p + q) = Rate * p + Rate * q /\ Rate * p \in Nat /\ Rate * q \in Nat /\ p + q \in Nat
  BY <1>1, RateConstants
<1>4. Rate * (p + q) <= a + b
  BY <1>1, <1>3
<1> QED
  BY <1>2, <1>3, <1>4, DivBound DEF p, q

LEMMA DivLess ==
    ASSUME NEW a \in Nat, NEW b \in Nat, b < a + Rate
    PROVE  b \div Rate <= (a \div Rate) + 1
<1> DEFINE p == b \div Rate
<1>0. Rate \in Nat /\ Rate >= 1 /\ p \in Nat /\ Rate * p <= b /\ a \div Rate \in Nat
  BY DivBound, RateConstants
<1> HIDE DEF p
<1>1. CASE p = 0
  BY <1>0, <1>1 DEF p
<1>2. CASE p # 0
  <2>1. PICK e \in Nat : p = e + 1
    <3>1. p - 1 \in Nat /\ p = (p - 1) + 1
      BY <1>0, <1>2
    <3> QED
      BY <3>1
  <2>2. Rate * p = Rate * e + Rate /\ Rate * e \in Nat
    BY <1>0, <2>1
  <2>3. Rate * e <= a
    BY <1>0, <2>2
  <2>4. e <= a \div Rate
    BY <2>3, DivBound
  <2> QED
    BY <1>0, <2>1, <2>4 DEF p
<1> QED
  BY <1>1, <1>2

LEMMA SinceFacts ==
    ASSUME RateIndInv, NEW k \in Keys
    PROVE  /\ now \in Nat /\ now <= MaxTime /\ allowed[k] \in [Time -> Nat]
           /\ \A s \in 0..now : LetInSince(k, s) \in Nat
           /\ \A s, t \in 0..now : s <= t => LetInSince(k, t) <= LetInSince(k, s)
           /\ visitors[k].known \in BOOLEAN /\ visitors[k].tokens \in 0..Burst
           /\ visitors[k].lastSeen \in 0..MaxTime /\ visitors[k].tokens \in Nat
           /\ visitors[k].lastSeen \in Nat
<1>1. now \in Nat /\ now <= MaxTime /\ allowed[k] \in [Time -> Nat]
  BY RateConstants DEF RateIndInv, RateTypeOK, Time
<1>2. \A s, t \in Time : s <= t => allowed[k][s] <= allowed[k][t]
  BY DEF RateIndInv, HistoryOk
<1>3. ASSUME NEW s \in 0..now PROVE LetInSince(k, s) \in Nat
  <2>1. now \in Time /\ s \in Time /\ (s # 0 => s - 1 \in Time /\ s - 1 <= now)
    BY <1>1, RateConstants DEF Time
  <2>2. allowed[k][now] \in Nat /\ (s # 0 => allowed[k][s - 1] \in Nat)
    BY <1>1, <2>1
  <2>3. s # 0 => allowed[k][s - 1] <= allowed[k][now]
    BY <1>2, <2>1
  <2> QED
    BY <2>2, <2>3 DEF LetInSince, LetInBetween
<1>4. ASSUME NEW s \in 0..now, NEW t \in 0..now, s <= t
      PROVE  LetInSince(k, t) <= LetInSince(k, s)
  <2>1. now \in Time /\ (s # 0 => s - 1 \in Time) /\ (t # 0 => t - 1 \in Time)
    BY <1>1, RateConstants DEF Time
  <2>2. /\ allowed[k][now] \in Nat /\ (s # 0 => allowed[k][s - 1] \in Nat)
        /\ (t # 0 => allowed[k][t - 1] \in Nat)
    BY <1>1, <2>1
  <2>3. s # 0 /\ t # 0 => allowed[k][s - 1] <= allowed[k][t - 1]
    BY <1>2, <1>4, <2>1
  <2>4. t = 0 => s = 0
    BY <1>1, <1>4
  <2> QED
    BY <2>2, <2>3, <2>4 DEF LetInSince, LetInBetween
<1>5. visitors[k] \in [known: BOOLEAN, tokens: 0..Burst, lastSeen: Time]
  BY DEF RateIndInv, RateTypeOK
<1>6. /\ visitors[k].known \in BOOLEAN /\ visitors[k].tokens \in 0..Burst
      /\ visitors[k].lastSeen \in 0..MaxTime
  BY <1>5 DEF Time
<1> QED
  BY <1>1, <1>3, <1>4, <1>6, RateConstants

LEMMA RateIndImplies == RateIndInv => RateInv
<1> SUFFICES ASSUME RateIndInv PROVE RateInv
  OBVIOUS
<1>1. ASSUME NEW k \in Keys, NEW s \in 0..now
      PROVE  LetInBetween(k, s, now) <= Burst + (now - s) \div Rate
  <2> DEFINE L == visitors[k].lastSeen
             T == visitors[k].tokens
             A == LetInSince(k, s)
  <2>0. /\ now \in Nat /\ s \in Nat /\ s <= now /\ L \in Nat /\ T \in Nat /\ A \in Nat
        /\ BucketPays(k) /\ now - s \in Nat
    BY SinceFacts DEF RateIndInv
  <2>1. (now - s) \div Rate \in Nat
    BY <2>0, DivBound
  <2> SUFFICES A <= Burst + (now - s) \div Rate
    BY DEF LetInSince
  <2>2. CASE ~visitors[k].known
    <3>1. A <= (now - s) \div Rate
      BY <2>0, <2>2 DEF BucketPays
    <3> HIDE DEF A
    <3> QED
      BY <2>0, <2>1, <3>1, RateConstants
  <2>3. CASE visitors[k].known /\ s <= L
    <3>1. L <= now /\ s \in 0..L
      BY <2>0, <2>3 DEF BucketPays
    <3>2. A + T <= Burst + (L - s) \div Rate
      BY <2>3, <2>0, <3>1 DEF BucketPays
    <3>3. L - s \in Nat /\ L - s <= now - s
      BY <2>0, <2>3, <3>1
    <3>4. (L - s) \div Rate \in Nat /\ (L - s) \div Rate <= (now - s) \div Rate
      BY <2>0, <3>3, DivMonotone
    <3> HIDE DEF A, L, T
    <3> QED
      BY <2>0, <2>1, <3>2, <3>4, RateConstants
  <2>4. CASE visitors[k].known /\ ~(s <= L)
    <3>1. s \in (L + 1)..now
      BY <2>0, <2>4
    <3>2. A + T < Burst
      BY <2>4, <2>0, <3>1 DEF BucketPays
    <3> HIDE DEF A, L, T
    <3> QED
      BY <2>0, <2>1, <3>2, RateConstants
  <2> QED
    BY <2>2, <2>3, <2>4
<1>2. WindowBound
  BY <1>1 DEF WindowBound
<1> QED
  BY <1>2 DEF RateIndInv, RateInv

LEMMA RateIndInit == RateInit => RateIndInv
<1> SUFFICES ASSUME RateInit PROVE RateIndInv
  OBVIOUS
<1>1. /\ now = 0 /\ \A k \in Keys : visitors[k] = NoBucket
      /\ \A k \in Keys : \A t \in Time : allowed[k][t] = 0 /\ denied[k][t] = 0
  BY DEF RateInit
<1>2. RateTypeOK
  <2>1. 0 \in Time /\ 0 \in 0..MaxDenied /\ 0 \in 0..Burst
    BY RateConstants DEF Time
  <2> QED
    BY <2>1 DEF RateInit, RateTypeOK, NoBucket
<1>3. ASSUME NEW k \in Keys PROVE HistoryOk(k) /\ BucketPays(k)
  <2>1. HistoryOk(k)
    BY <1>1, RateConstants DEF HistoryOk, Time
  <2>2. ~visitors[k].known
    BY <1>1 DEF NoBucket
  <2>3. \A s \in 0..0 : LetInSince(k, s) <= (0 - s) \div Rate
    <3>1. \A s \in 0..0 : LetInSince(k, s) = 0 /\ s = 0
      BY <1>1, RateConstants DEF LetInSince, LetInBetween, Time
    <3>2. (0 - 0) \div Rate \in Nat
      BY DivBound
    <3> QED
      BY <3>1, <3>2
  <2> QED
    BY <1>1, <2>1, <2>2, <2>3 DEF BucketPays
<1>4. RefusedOnlyAfterAllowed
  <2>1. \A t \in 0..now : t \in Time
    BY <1>1, RateConstants DEF Time
  <2> QED
    BY <1>1, <2>1 DEF RefusedOnlyAfterAllowed
<1> QED
  BY <1>2, <1>3, <1>4 DEF RateIndInv

\* A tick adds a moment at which nothing was let in yet.
LEMMA TickStep ==
    ASSUME RateIndInv, Tick
    PROVE  RateIndInv'
<1>0. /\ now \in 0..MaxTime /\ now < MaxTime /\ now' = now + 1
      /\ UNCHANGED <<visitors, allowed, denied>>
      /\ now \in Nat /\ now' \in 0..MaxTime
  BY RateConstants DEF RateIndInv, RateTypeOK, Time, Tick
<1>1. RateTypeOK'
  BY <1>0 DEF RateIndInv, RateTypeOK, Time
<1>2. ASSUME NEW k \in Keys
      PROVE  /\ \A s \in 0..now : LetInSince(k, s)' = LetInSince(k, s)
             /\ \A s \in 0..now' : s = now + 1 => LetInSince(k, s)' = 0
             /\ allowed[k][now + 1] = allowed[k][now] /\ allowed[k][now] \in Nat
  <2>1. allowed[k][now + 1] = allowed[k][now]
    BY <1>0, RateConstants DEF RateIndInv, HistoryOk
  <2>2. allowed[k][now] \in Nat
    BY <1>0, SinceFacts DEF Time
  <2> QED
    BY <1>0, <2>1, <2>2 DEF LetInSince, LetInBetween
<1>3. ASSUME NEW k \in Keys PROVE HistoryOk(k)'
  <2>1. \A t \in now'..MaxTime : t \in now..MaxTime
    BY <1>0
  <2>2. \A t \in now..MaxTime : allowed[k][t] = allowed[k][now]
    BY DEF RateIndInv, HistoryOk
  <2>3. \A t \in now'..MaxTime : allowed'[k][t] = allowed'[k][now']
    BY <1>0, <1>2, <2>1, <2>2
  <2>4. \A t \in Time : now' < t => now < t
    BY <1>0 DEF Time
  <2> QED
    BY <1>0, <2>3, <2>4 DEF RateIndInv, HistoryOk
<1>4. ASSUME NEW k \in Keys PROVE BucketPays(k)'
  <2>l. PICK L \in Nat : L = visitors[k].lastSeen
    BY SinceFacts
  <2>t. PICK T \in Nat : T = visitors[k].tokens
    BY SinceFacts
  <2>0. L \in Nat /\ T \in Nat /\ BucketPays(k)
    BY <1>0 DEF RateIndInv
  <2>1. CASE visitors[k].known
    <3>1. /\ T < Burst /\ L <= now /\ LetInSince(k, L) > 0
          /\ \A s \in 0..L : LetInSince(k, s) + T <= Burst + (L - s) \div Rate
          /\ \A s \in (L + 1)..now : LetInSince(k, s) + T < Burst
                                     /\ (L + Rate <= s => LetInSince(k, s) = 0)
      BY <2>0, <2>1, <2>l, <2>t DEF BucketPays
    <3>2. \A s \in 0..L : s \in 0..now
      BY <1>0, <2>0, <3>1
    <3>3. L \in 0..now /\ LetInSince(k, L)' > 0
      BY <1>0, <1>2, <2>0, <3>1
    <3>4. \A s \in 0..L : LetInSince(k, s)' + T <= Burst + (L - s) \div Rate
      BY <1>2, <3>1, <3>2
    <3>5. ASSUME NEW s \in (L + 1)..now'
          PROVE  LetInSince(k, s)' + T < Burst /\ (L + Rate <= s => LetInSince(k, s)' = 0)
      <4>1. CASE s = now + 1
        BY <1>2, <2>0, <3>1, <4>1, RateConstants
      <4>2. CASE s # now + 1
        <5>1. s \in 0..now /\ s \in (L + 1)..now
          BY <1>0, <2>0, <4>2
        <5> QED
          BY <1>2, <3>1, <5>1
      <4> QED
        BY <4>1, <4>2
    <3>6. L <= now'
      BY <1>0, <2>0, <3>1
    <3>7. visitors'[k].known /\ visitors'[k].tokens = T /\ visitors'[k].lastSeen = L
      BY <1>0, <2>1, <2>l, <2>t
    <3> QED
      BY <3>1, <3>3, <3>4, <3>5, <3>6, <3>7 DEF BucketPays
  <2>2. CASE ~visitors[k].known
    <3>1. \A s \in 0..now : LetInSince(k, s) <= (now - s) \div Rate
      BY <2>0, <2>2 DEF BucketPays
    <3>2. ASSUME NEW s \in 0..now' PROVE LetInSince(k, s)' <= (now' - s) \div Rate
      <4>1. CASE s = now + 1
        <5>1. now' - s = 0
          BY <1>0, <4>1
        <5>2. 0 \div Rate \in Nat
          BY DivBound
        <5> QED
          BY <1>2, <4>1, <5>1, <5>2
      <4>2. CASE s # now + 1
        <5>1. s \in 0..now /\ now - s \in Nat /\ now' - s \in Nat /\ now - s <= now' - s
          BY <1>0, <4>2
        <5>2. (now - s) \div Rate \in Nat /\ (now - s) \div Rate <= (now' - s) \div Rate
          BY <5>1, DivMonotone
        <5>3. (now' - s) \div Rate \in Nat
          BY <5>1, DivBound
        <5>4. LetInSince(k, s)' \in Nat
          BY <1>2, <5>1, SinceFacts
        <5>5. LetInSince(k, s)' <= (now - s) \div Rate
          BY <1>2, <3>1, <5>1
        <5> QED
          BY <5>2, <5>3, <5>4, <5>5
      <4> QED
        BY <4>1, <4>2
    <3> QED
      BY <1>0, <2>2, <3>2 DEF BucketPays
  <2> QED
    BY <2>1, <2>2
<1>5. RefusedOnlyAfterAllowed'
  <2> SUFFICES ASSUME NEW k \in Keys, NEW t \in 0..now', denied'[k][t] > 0
               PROVE  \E s \in 0..t : t - s < Rate /\ LetInBetween(k, s, t)' > 0
    BY DEF RefusedOnlyAfterAllowed
  <2>1. denied[k][now + 1] = 0
    BY <1>0 DEF RateIndInv, HistoryOk, Time
  <2>2. t \in 0..now /\ denied[k][t] > 0
    BY <1>0, <2>1
  <2>3. PICK s \in 0..t : t - s < Rate /\ LetInBetween(k, s, t) > 0
    BY <2>2 DEF RateIndInv, RefusedOnlyAfterAllowed
  <2>4. LetInBetween(k, s, t)' = LetInBetween(k, s, t)
    BY <1>0 DEF LetInBetween
  <2> QED
    BY <2>3, <2>4
<1> QED
  BY <1>1, <1>3, <1>4, <1>5 DEF RateIndInv

\* A request let in counts in every stretch that reaches now.
LEMMA LetInKeeps ==
    ASSUME RateIndInv, NEW k \in Keys, LetIn(k), UNCHANGED now
    PROVE  /\ allowed' \in [Keys -> [Time -> Nat]]
           /\ \A j \in Keys : HistoryOk(j)'
           /\ \A j \in Keys \ {k} : \A s \in 0..now : LetInSince(j, s)' = LetInSince(j, s)
           /\ \A s \in 0..now : LetInSince(k, s)' = LetInSince(k, s) + 1
           /\ RefusedOnlyAfterAllowed'
<1>a. now \in Time /\ allowed \in [Keys -> [Time -> Nat]] /\ \A j \in Keys : HistoryOk(j)
  BY DEF RateIndInv, RateTypeOK
<1>b. now \in Nat /\ now <= MaxTime /\ MaxTime \in Nat
  BY <1>a, RateConstants DEF Time
<1>c. now' = now /\ UNCHANGED denied
  BY DEF LetIn
<1>0. /\ now \in Time /\ now \in Nat /\ now <= MaxTime /\ now' = now
      /\ UNCHANGED denied
      /\ allowed \in [Keys -> [Time -> Nat]]
      /\ \A j \in Keys : HistoryOk(j)
      /\ MaxTime \in Nat
  BY <1>a, <1>b, <1>c
<1>1. allowed' = [allowed EXCEPT ![k] = [t \in Time |-> IF t >= now THEN allowed[k][t] + 1
                                                                   ELSE allowed[k][t]]]
  BY DEF LetIn
<1>2. /\ allowed' \in [Keys -> [Time -> Nat]]
      /\ \A j \in Keys \ {k} : allowed'[j] = allowed[j]
      /\ \A t \in Time : allowed'[k][t] = IF t >= now THEN allowed[k][t] + 1 ELSE allowed[k][t]
      /\ \A j \in Keys : \A t \in Time : allowed[j][t] \in Nat
  BY <1>0, <1>1
<1>3. ASSUME NEW j \in Keys PROVE HistoryOk(j)'
  <2>1. /\ \A s, t \in Time : s <= t => allowed[j][s] <= allowed[j][t]
        /\ \A t \in now..MaxTime : allowed[j][t] = allowed[j][now]
        /\ \A t \in Time : now < t => denied[j][t] = 0
    BY <1>0 DEF HistoryOk
  <2>2. \A s, t \in Time : s <= t => allowed'[j][s] <= allowed'[j][t]
    <3> SUFFICES ASSUME NEW s \in Time, NEW t \in Time, s <= t
                 PROVE  allowed'[j][s] <= allowed'[j][t]
      OBVIOUS
    <3>1. s \in Nat /\ t \in Nat /\ allowed[j][s] \in Nat /\ allowed[j][t] \in Nat
          /\ allowed[j][s] <= allowed[j][t]
      BY <1>0, <1>2, <2>1 DEF Time
    <3>2. CASE j = k
      <4>1. s >= now => t >= now
        BY <1>0, <3>1
      <4> QED
        BY <1>0, <1>2, <3>1, <3>2, <4>1
    <3> QED
      BY <1>2, <3>1, <3>2
  <2>3. \A t \in now..MaxTime : allowed'[j][t] = allowed'[j][now]
    <3> SUFFICES ASSUME NEW t \in now..MaxTime PROVE allowed'[j][t] = allowed'[j][now]
      OBVIOUS
    <3>1. t \in Time /\ t >= now /\ now >= now
      BY <1>0 DEF Time
    <3> QED
      BY <1>0, <1>2, <2>1, <3>1
  <2> QED
    BY <1>0, <2>1, <2>2, <2>3 DEF HistoryOk
<1>4. ASSUME NEW j \in Keys \ {k}, NEW s \in 0..now PROVE LetInSince(j, s)' = LetInSince(j, s)
  BY <1>0, <1>2 DEF LetInSince, LetInBetween
<1>5. ASSUME NEW s \in 0..now PROVE LetInSince(k, s)' = LetInSince(k, s) + 1
  <2>1. s # 0 => s - 1 \in Time /\ ~(s - 1 >= now)
    BY <1>0 DEF Time
  <2>2. allowed'[k][now] = allowed[k][now] + 1 /\ (s # 0 => allowed'[k][s - 1] = allowed[k][s - 1])
    BY <1>0, <1>2, <2>1
  <2>3. allowed[k][now] \in Nat /\ (s # 0 => allowed[k][s - 1] \in Nat)
    BY <1>0, <1>2, <2>1
  <2> QED
    BY <1>0, <2>2, <2>3 DEF LetInSince, LetInBetween
<1>6. RefusedOnlyAfterAllowed'
  <2> SUFFICES ASSUME NEW j \in Keys, NEW t \in 0..now, denied[j][t] > 0
               PROVE  \E s \in 0..t : t - s < Rate /\ LetInBetween(j, s, t)' > 0
    BY <1>0 DEF RefusedOnlyAfterAllowed
  <2>1. PICK s \in 0..t : t - s < Rate /\ LetInBetween(j, s, t) > 0
    BY DEF RateIndInv, RefusedOnlyAfterAllowed
  <2>2. t \in Time /\ (s # 0 => s - 1 \in Time /\ ~(s - 1 >= now))
    BY <1>0 DEF Time
  <2>3. allowed[j][t] \in Nat /\ (s # 0 => allowed[j][s - 1] \in Nat)
    BY <1>0, <1>2, <2>2
  <2>4. allowed'[j][t] \in Nat /\ allowed'[j][t] >= allowed[j][t]
        /\ (s # 0 => allowed'[j][s - 1] = allowed[j][s - 1])
    BY <1>0, <1>2, <2>2, <2>3
  <2>5. LetInBetween(j, s, t)' > 0
    BY <2>1, <2>3, <2>4 DEF LetInBetween
  <2> QED
    BY <2>1, <2>5
<1> QED
  BY <1>2, <1>3, <1>4, <1>5, <1>6

\* A key whose bucket and history stay as they are.
LEMMA SamePays ==
    ASSUME NEW j, BucketPays(j), visitors'[j] = visitors[j], UNCHANGED now, now \in Nat,
           visitors[j].lastSeen \in Nat,
           \A s \in 0..now : LetInSince(j, s)' = LetInSince(j, s)
    PROVE  BucketPays(j)'
<1>l. PICK L \in Nat : L = visitors[j].lastSeen
  OBVIOUS
<1>n. PICK N \in Nat : N = now
  OBVIOUS
<1>t. PICK T : T = visitors[j].tokens
  OBVIOUS
<1>0. /\ now' = N /\ visitors'[j].lastSeen = L /\ visitors'[j].tokens = T
      /\ visitors'[j].known = visitors[j].known
      /\ \A s \in 0..N : LetInSince(j, s)' = LetInSince(j, s)
  BY <1>l, <1>n, <1>t
<1>1. CASE visitors[j].known
  <2>1. /\ T < Burst /\ L <= N /\ LetInSince(j, L) > 0
        /\ \A s \in 0..L : LetInSince(j, s) + T <= Burst + (L - s) \div Rate
        /\ \A s \in (L + 1)..N : LetInSince(j, s) + T < Burst
                                 /\ (L + Rate <= s => LetInSince(j, s) = 0)
    BY <1>l, <1>n, <1>t, <1>1 DEF BucketPays
  <2>2. L \in 0..N /\ (\A s \in 0..L : s \in 0..N) /\ \A s \in (L + 1)..N : s \in 0..N
    BY <2>1
  <2>3. LetInSince(j, L)' > 0
    BY <1>0, <2>1, <2>2
  <2>4. \A s \in 0..L : LetInSince(j, s)' + T <= Burst + (L - s) \div Rate
    BY <1>0, <2>1, <2>2
  <2>5. \A s \in (L + 1)..N : LetInSince(j, s)' + T < Burst
                             /\ (L + Rate <= s => LetInSince(j, s)' = 0)
    BY <1>0, <2>1, <2>2
  <2> QED
    BY <1>0, <1>1, <2>1, <2>3, <2>4, <2>5 DEF BucketPays
<1>2. CASE ~visitors[j].known
  <2>1. \A s \in 0..N : LetInSince(j, s) <= (N - s) \div Rate
    BY <1>n, <1>2 DEF BucketPays
  <2>2. \A s \in 0..N : LetInSince(j, s)' <= (N - s) \div Rate
    BY <1>0, <2>1
  <2> QED
    BY <1>0, <1>2, <2>2 DEF BucketPays
<1> QED
  BY <1>1, <1>2

\* What a bucket that is refilled gains: it is paid for by the time since.
LEMMA RefillPaid ==
    ASSUME RateIndInv, NEW k \in Keys, visitors[k].known,
           (now - visitors[k].lastSeen) \div Rate > 0, NEW s \in 0..now,
           NEW t \in Nat, t <= Burst, t <= visitors[k].tokens + (now - visitors[k].lastSeen) \div Rate
    PROVE  LetInSince(k, s) + t <= Burst + (now - s) \div Rate
<1> DEFINE L == visitors[k].lastSeen
           T == visitors[k].tokens
           A == LetInSince(k, s)
           r == (now - L) \div Rate
<1>0. /\ now \in Nat /\ L \in Nat /\ T \in Nat /\ A \in Nat /\ BucketPays(k) /\ s \in Nat
      /\ L <= now /\ s <= now
  BY SinceFacts DEF RateIndInv, BucketPays
<1>1. now - L \in Nat /\ now - s \in Nat /\ r \in Nat /\ (now - s) \div Rate \in Nat
  BY <1>0, DivBound
<1>2. CASE s <= L
  <2>1. L - s \in Nat /\ (L - s) + (now - L) = now - s
    BY <1>0, <1>2
  <2>2. ((L - s) \div Rate) + r <= (now - s) \div Rate /\ (L - s) \div Rate \in Nat
    BY <1>1, <2>1, DivSum, DivBound
  <2>3. A + T <= Burst + (L - s) \div Rate
    BY <1>0, <1>2 DEF BucketPays
  <2> HIDE DEF A, T, r, L
  <2>4. t <= T + r
    BY DEF T, r, L
  <2> QED
    BY <1>0, <1>1, <2>2, <2>3, <2>4, RateConstants DEF A
<1>3. CASE ~(s <= L)
  <2>1. s \in (L + 1)..now
    BY <1>0, <1>3
  <2>2. A + T < Burst /\ (L + Rate <= s => A = 0)
    BY <1>0, <2>1 DEF BucketPays
  <2>3. CASE L + Rate <= s
    <3> HIDE DEF A, T, r, L
    <3> QED
      BY <1>0, <1>1, <2>2, <2>3, RateConstants DEF A
  <2>4. CASE ~(L + Rate <= s)
    <3>1. now - L < (now - s) + Rate
      BY <1>0, <2>4, RateConstants
    <3>2. r <= ((now - s) \div Rate) + 1
      BY <1>1, <3>1, DivLess
    <3>3. t <= T + r
      OBVIOUS
    <3> HIDE DEF A, T, r, L
    <3> QED
      BY <1>0, <1>1, <2>2, <3>2, <3>3, RateConstants DEF A
  <2> QED
    BY <2>3, <2>4
<1> QED
  BY <1>2, <1>3

\* A request let in, from a new bucket, one that is refilled and one that is not.
LEMMA PaysForNew ==
    ASSUME RateIndInv, NEW k \in Keys, LetIn(k), UNCHANGED now, ~visitors[k].known,
           visitors'[k] = [known |-> TRUE, tokens |-> Burst - 1, lastSeen |-> now]
    PROVE  BucketPays(k)'
<1>n. PICK L \in Nat : L = now
  BY SinceFacts
<1>0. /\ BucketPays(k) /\ now' = L
      /\ \A s \in 0..L : LetInSince(k, s)' = LetInSince(k, s) + 1 /\ LetInSince(k, s) \in Nat
  BY <1>n, LetInKeeps, SinceFacts DEF RateIndInv
<1>1. \A s \in 0..L : LetInSince(k, s) <= (L - s) \div Rate
  BY <1>n, <1>0 DEF BucketPays
<1>2. visitors'[k].known /\ visitors'[k].tokens = Burst - 1 /\ visitors'[k].lastSeen = L
  BY <1>n
<1>3. ASSUME NEW s \in 0..L
      PROVE  LetInSince(k, s)' + (Burst - 1) <= Burst + (L - s) \div Rate
  <2>1. L - s \in Nat
    OBVIOUS
  <2>2. (L - s) \div Rate \in Nat
    BY <2>1, DivBound
  <2> QED
    BY <1>0, <1>1, <2>2, RateConstants
<1>4. L \in 0..L /\ LetInSince(k, L)' > 0 /\ Burst - 1 < Burst /\ (L + 1)..L = {}
  BY <1>0, RateConstants
<1> QED
  BY <1>0, <1>2, <1>3, <1>4 DEF BucketPays

LEMMA PaysForRefilled ==
    ASSUME RateIndInv, NEW k \in Keys, LetIn(k), UNCHANGED now, visitors[k].known,
           (now - visitors[k].lastSeen) \div Rate > 0, NEW t \in Nat, t <= Burst, t > 0,
           t <= visitors[k].tokens + (now - visitors[k].lastSeen) \div Rate,
           visitors'[k].known, visitors'[k].tokens = t - 1, visitors'[k].lastSeen = now
    PROVE  BucketPays(k)'
<1>n. PICK L \in Nat : L = now
  BY SinceFacts
<1>0. /\ now' = L
      /\ \A s \in 0..L : LetInSince(k, s)' = LetInSince(k, s) + 1 /\ LetInSince(k, s) \in Nat
  BY <1>n, LetInKeeps, SinceFacts
<1>1. \A s \in 0..L : LetInSince(k, s) + t <= Burst + (L - s) \div Rate
  BY <1>n, RefillPaid
<1>2. visitors'[k].tokens = t - 1 /\ visitors'[k].lastSeen = L /\ t - 1 \in Nat
  BY <1>n
<1>3. ASSUME NEW s \in 0..L
      PROVE  LetInSince(k, s)' + (t - 1) <= Burst + (L - s) \div Rate
  <2>1. L - s \in Nat
    OBVIOUS
  <2>2. (L - s) \div Rate \in Nat
    BY <2>1, DivBound
  <2> QED
    BY <1>0, <1>1, <2>2, RateConstants
<1>4. L \in 0..L /\ LetInSince(k, L)' > 0 /\ t - 1 < Burst /\ (L + 1)..L = {}
  BY <1>0, RateConstants
<1> QED
  BY <1>0, <1>2, <1>3, <1>4 DEF BucketPays

LEMMA PaysForUsed ==
    ASSUME RateIndInv, NEW k \in Keys, LetIn(k), UNCHANGED now, visitors[k].known,
           ~((now - visitors[k].lastSeen) \div Rate > 0), visitors[k].tokens > 0,
           visitors'[k].known, visitors'[k].tokens = visitors[k].tokens - 1,
           visitors'[k].lastSeen = visitors[k].lastSeen
    PROVE  BucketPays(k)'
<1>l. PICK L \in Nat : L = visitors[k].lastSeen
  BY SinceFacts
<1>t. PICK T \in Nat : T = visitors[k].tokens
  BY SinceFacts
<1>n. PICK N \in Nat : N = now
  BY SinceFacts
<1>0. /\ now' = N
      /\ \A s \in 0..N : LetInSince(k, s)' = LetInSince(k, s) + 1 /\ LetInSince(k, s) \in Nat
  BY <1>n, LetInKeeps, SinceFacts
<1>1. /\ T < Burst /\ L <= N /\ LetInSince(k, L) > 0
      /\ \A s \in 0..L : LetInSince(k, s) + T <= Burst + (L - s) \div Rate
      /\ \A s \in (L + 1)..N : LetInSince(k, s) + T < Burst
  BY <1>l, <1>t, <1>n DEF RateIndInv, BucketPays
<1>2. visitors'[k].tokens = T - 1 /\ visitors'[k].lastSeen = L /\ T > 0 /\ T - 1 \in Nat
  BY <1>l, <1>t
<1>3. N < L + Rate
  <2>1. N - L \in Nat /\ ~((N - L) \div Rate >= 1)
    <3>1. N - L \in Nat
      BY <1>1
    <3>2. (N - L) \div Rate \in Nat
      BY <3>1, DivBound
    <3> QED
      BY <1>l, <1>n, <3>1, <3>2
  <2>2. ~(Rate * 1 <= N - L)
    BY <2>1, DivBound
  <2> QED
    BY <2>1, <2>2, RateConstants
<1>4. ASSUME NEW s \in 0..L
      PROVE  LetInSince(k, s)' + (T - 1) <= Burst + (L - s) \div Rate
  <2>1. s \in 0..N /\ L - s \in Nat
    BY <1>1
  <2>2. (L - s) \div Rate \in Nat
    BY <2>1, DivBound
  <2> QED
    BY <1>0, <1>1, <2>1, <2>2, RateConstants
<1>5. ASSUME NEW s \in (L + 1)..N
      PROVE  LetInSince(k, s)' + (T - 1) < Burst /\ ~(L + Rate <= s)
  <2>1. s \in 0..N
    OBVIOUS
  <2> QED
    BY <1>0, <1>1, <1>3, <2>1, RateConstants
<1>6. L \in 0..N /\ LetInSince(k, L)' > 0 /\ T - 1 < Burst
  BY <1>0, <1>1, RateConstants
<1> QED
  BY <1>0, <1>1, <1>2, <1>4, <1>5, <1>6 DEF BucketPays

Bucket == [known: BOOLEAN, tokens: 0..Burst, lastSeen: Time]

\* A request let in touches its own key only.
LEMMA LetInStep ==
    ASSUME RateIndInv, NEW k \in Keys, LetIn(k), UNCHANGED now, NEW b \in Bucket,
           visitors' = [visitors EXCEPT ![k] = b], BucketPays(k)'
    PROVE  RateIndInv'
<1>1. /\ now \in Time /\ visitors \in [Keys -> Bucket] /\ denied \in [Keys -> [Time -> 0..MaxDenied]]
      /\ \A j \in Keys : BucketPays(j)
  BY DEF RateIndInv, RateTypeOK, Bucket
<1>2. /\ allowed' \in [Keys -> [Time -> Nat]]
      /\ \A j \in Keys : HistoryOk(j)'
      /\ \A j \in Keys \ {k} : \A s \in 0..now : LetInSince(j, s)' = LetInSince(j, s)
      /\ RefusedOnlyAfterAllowed'
  BY LetInKeeps
<1>3. denied' = denied
  BY DEF LetIn
<1>4. visitors' \in [Keys -> Bucket] /\ \A j \in Keys \ {k} : visitors'[j] = visitors[j]
  BY <1>1
<1>5. RateTypeOK'
  BY <1>1, <1>2, <1>3, <1>4 DEF RateTypeOK, Bucket
<1>6. ASSUME NEW j \in Keys PROVE BucketPays(j)'
  <2>1. CASE j # k
    <3>1. now \in Nat /\ visitors[j].lastSeen \in Nat
      BY SinceFacts
    <3>2. visitors'[j] = visitors[j] /\ \A s \in 0..now : LetInSince(j, s)' = LetInSince(j, s)
      BY <1>2, <1>4, <2>1
    <3> QED
      BY <1>1, <3>1, <3>2, SamePays
  <2> QED
    BY <2>1
<1> QED
  BY <1>2, <1>5, <1>6 DEF RateIndInv

\* A refused request: the bucket is empty and was refilled less than a rate ago.
LEMMA RefusedStep ==
    ASSUME RateIndInv, NEW k \in Keys, UNCHANGED <<now, visitors, allowed>>,
           visitors[k].known, now - visitors[k].lastSeen < Rate, denied[k][now] < MaxDenied,
           denied' = [denied EXCEPT ![k][now] = @ + 1]
    PROVE  RateIndInv'
<1>1. /\ now \in Time /\ denied \in [Keys -> [Time -> 0..MaxDenied]]
      /\ visitors \in [Keys -> Bucket] /\ allowed \in [Keys -> [Time -> Nat]]
      /\ \A j \in Keys : BucketPays(j) /\ HistoryOk(j)
  BY DEF RateIndInv, RateTypeOK, Bucket
<1>2. denied[k][now] + 1 \in 0..MaxDenied
  BY <1>1, RateConstants
<1>3. /\ denied' \in [Keys -> [Time -> 0..MaxDenied]]
      /\ \A j \in Keys : \A t \in Time : denied'[j][t] # denied[j][t] => j = k /\ t = now
  BY <1>1, <1>2
<1>4. RateTypeOK'
  BY <1>1, <1>3 DEF RateTypeOK, Bucket
<1>5. ASSUME NEW j \in Keys PROVE BucketPays(j)'
  <2>1. now \in Nat /\ visitors[j].lastSeen \in Nat
    BY SinceFacts
  <2>2. visitors'[j] = visitors[j] /\ \A s \in 0..now : LetInSince(j, s)' = LetInSince(j, s)
    BY DEF LetInSince, LetInBetween
  <2> QED
    BY <1>1, <2>1, <2>2, SamePays
<1>6. ASSUME NEW j \in Keys PROVE HistoryOk(j)'
  <2>1. now \in Nat
    BY SinceFacts
  <2>2. \A t \in Time : now < t => denied'[j][t] = 0
    BY <1>1, <1>3, <2>1 DEF HistoryOk, Time
  <2>3. HistoryOk(j)
    BY <1>1
  <2> QED
    BY <2>2, <2>3 DEF HistoryOk
<1>7. RefusedOnlyAfterAllowed'
  <2> SUFFICES ASSUME NEW j \in Keys, NEW t \in 0..now, denied'[j][t] > 0
               PROVE  \E s \in 0..t : t - s < Rate /\ LetInBetween(j, s, t) > 0
    BY DEF RefusedOnlyAfterAllowed, LetInBetween
  <2>1. CASE j = k /\ t = now
    <3>1. /\ visitors[k].lastSeen <= now /\ LetInSince(k, visitors[k].lastSeen) > 0
          /\ visitors[k].lastSeen \in Nat /\ now \in Nat
      BY <1>1, SinceFacts DEF BucketPays
    <3>2. visitors[k].lastSeen \in 0..t
      BY <2>1, <3>1
    <3> QED
      BY <2>1, <3>1, <3>2 DEF LetInSince
  <2>2. CASE ~(j = k /\ t = now)
    <3>1. t \in Time
      BY <1>1, RateConstants DEF Time
    <3>2. denied[j][t] > 0
      BY <1>3, <2>2, <3>1
    <3> QED
      BY <3>2 DEF RateIndInv, RefusedOnlyAfterAllowed
  <2> QED
    BY <2>1, <2>2
<1> QED
  BY <1>4, <1>5, <1>6, <1>7 DEF RateIndInv

LEMMA AllowStep ==
    ASSUME RateIndInv, NEW k \in Keys, Allow(k)
    PROVE  RateIndInv'
<1>l. PICK L \in Nat : L = visitors[k].lastSeen
  BY SinceFacts
<1>t. PICK T \in Nat : T = visitors[k].tokens
  BY SinceFacts
<1>n. PICK N \in Nat : N = now
  BY SinceFacts
<1>0. /\ visitors \in [Keys -> Bucket] /\ visitors[k] \in Bucket /\ N \in Time /\ T <= Burst
      /\ now' = now /\ T \in 0..Burst
  BY <1>n, <1>t, RateConstants DEF RateIndInv, RateTypeOK, Bucket, Allow
<1>1. CASE ~visitors[k].known
  <2>1. visitors' = [visitors EXCEPT ![k] = [known |-> TRUE, tokens |-> Burst - 1, lastSeen |-> N]]
        /\ LetIn(k)
    BY <1>1, <1>n DEF Allow
  <2>2. [known |-> TRUE, tokens |-> Burst - 1, lastSeen |-> N] \in Bucket
    BY <1>0, RateConstants DEF Bucket
  <2>3. visitors'[k] = [known |-> TRUE, tokens |-> Burst - 1, lastSeen |-> now]
    BY <1>0, <1>n, <2>1
  <2>4. BucketPays(k)'
    BY <1>0, <1>1, <2>1, <2>3, PaysForNew
  <2> QED
    BY <1>0, <2>1, <2>2, <2>4, LetInStep
<1>2. CASE visitors[k].known
  <2> DEFINE r == (N - L) \div Rate
             R == Refilled(visitors[k])
  <2>0. L <= N /\ N - L \in Nat /\ r \in Nat
    <3>1. L <= N
      BY <1>l, <1>n, <1>2 DEF RateIndInv, BucketPays
    <3>2. N - L \in Nat
      BY <3>1
    <3> QED
      BY <3>1, <3>2, DivBound
  <2>a. \/ /\ R.tokens > 0
           /\ visitors' = [visitors EXCEPT ![k] = [R EXCEPT !.tokens = @ - 1]]
           /\ LetIn(k)
        \/ /\ R.tokens = 0
           /\ denied[k][now] < MaxDenied
           /\ visitors' = [visitors EXCEPT ![k] = R]
           /\ denied' = [denied EXCEPT ![k][now] = @ + 1]
           /\ UNCHANGED allowed
    BY <1>2 DEF Allow
  <2>1. CASE r > 0
    <3> DEFINE m == IF T + r > Burst THEN Burst ELSE T + r
    <3>1. m \in Nat /\ m > 0 /\ m <= Burst /\ m <= T + r
      <4> HIDE DEF r
      <4> QED
        BY <2>0, <2>1, RateConstants
    <3>2. R = [visitors[k] EXCEPT !.tokens = m, !.lastSeen = N]
      BY <1>l, <1>t, <1>n, <2>1 DEF Refilled
    <3>3. R \in Bucket /\ R.known /\ R.tokens = m /\ R.lastSeen = N
      <4> HIDE DEF m, R
      <4>1. m \in 0..Burst
        BY <3>1, RateConstants
      <4> QED
        BY <1>0, <1>2, <3>2, <4>1 DEF Bucket
    <3> HIDE DEF m, R
    <3>4. /\ visitors' = [visitors EXCEPT ![k] = [R EXCEPT !.tokens = @ - 1]]
          /\ LetIn(k)
      BY <2>a, <3>1, <3>3
    <3> DEFINE B == [R EXCEPT !.tokens = @ - 1]
    <3>5. B \in Bucket /\ B.known /\ B.tokens = m - 1 /\ B.lastSeen = N
      <4>1. m - 1 \in 0..Burst
        BY <3>1, RateConstants
      <4> QED
        BY <3>3, <4>1 DEF Bucket
    <3>6. visitors' = [visitors EXCEPT ![k] = B]
      BY <3>4
    <3> HIDE DEF B
    <3>7. visitors'[k].known /\ visitors'[k].tokens = m - 1 /\ visitors'[k].lastSeen = now
      BY <1>0, <1>n, <3>5, <3>6
    <3>8. /\ (now - visitors[k].lastSeen) \div Rate > 0
          /\ m <= visitors[k].tokens + (now - visitors[k].lastSeen) \div Rate
      BY <1>l, <1>t, <1>n, <2>1, <3>1
    <3>9. BucketPays(k)'
      BY <1>0, <1>2, <3>1, <3>4, <3>7, <3>8, PaysForRefilled
    <3> QED
      BY <1>0, <3>4, <3>5, <3>6, <3>9, LetInStep
  <2>2. CASE ~(r > 0)
    <3>1. R = visitors[k]
      BY <1>l, <1>n, <2>2 DEF Refilled
    <3>2. CASE T > 0
      <4>1. /\ visitors' = [visitors EXCEPT ![k] = [visitors[k] EXCEPT !.tokens = @ - 1]]
            /\ LetIn(k)
        <5> HIDE DEF R
        <5> QED
          BY <1>t, <2>a, <3>1, <3>2
      <4> DEFINE B == [visitors[k] EXCEPT !.tokens = @ - 1]
      <4>2. B \in Bucket /\ B.known /\ B.tokens = T - 1 /\ B.lastSeen = L
        <5>1. T - 1 \in 0..Burst
          BY <1>0, <3>2, RateConstants
        <5> QED
          BY <1>0, <1>2, <1>l, <1>t, <5>1 DEF Bucket
      <4>3. visitors' = [visitors EXCEPT ![k] = B]
        BY <4>1
      <4> HIDE DEF B
      <4>4. /\ visitors'[k].known /\ visitors'[k].tokens = visitors[k].tokens - 1
            /\ visitors'[k].lastSeen = visitors[k].lastSeen
        BY <1>0, <1>l, <1>t, <4>2, <4>3
      <4>5. ~((now - visitors[k].lastSeen) \div Rate > 0) /\ visitors[k].tokens > 0
        BY <1>l, <1>n, <1>t, <2>2, <3>2
      <4>6. BucketPays(k)'
        BY <1>0, <1>2, <4>1, <4>4, <4>5, PaysForUsed
      <4> QED
        BY <1>0, <4>1, <4>2, <4>3, <4>6, LetInStep
    <3>3. CASE ~(T > 0)
      <4>1. /\ denied[k][now] < MaxDenied
            /\ visitors' = [visitors EXCEPT ![k] = visitors[k]]
            /\ denied' = [denied EXCEPT ![k][now] = @ + 1]
            /\ UNCHANGED allowed
        <5> HIDE DEF R
        <5> QED
          BY <1>t, <2>a, <3>1, <3>3
      <4>2. visitors' = visitors
        BY <1>0, <4>1
      <4>3. N - L < Rate
        <5>1. ~(Rate * 1 <= N - L)
          <6>1. ~(1 <= r)
            <7> HIDE DEF r
            <7> QED
              BY <2>0, <2>2
          <6> QED
            BY <2>0, <6>1, DivBound
        <5> QED
          BY <2>0, <5>1, RateConstants
      <4> QED
        BY <1>0, <1>2, <1>l, <1>n, <4>1, <4>2, <4>3, RefusedStep
    <3> QED
      BY <3>2, <3>3
  <2> QED
    BY <2>1, <2>2
<1> QED
  BY <1>1, <1>2

\* A bucket is forgotten only when it would be full again.
LEMMA ForgottenWasFull ==
    ASSUME RateIndInv, NEW k \in Keys, visitors[k].known,
           now - visitors[k].lastSeen > Idle, NEW s \in 0..now
    PROVE  LetInSince(k, s) <= (now - s) \div Rate
<1>l. PICK L \in Nat : L = visitors[k].lastSeen
  BY SinceFacts
<1>t. PICK T \in Nat : T = visitors[k].tokens
  BY SinceFacts
<1>n. PICK N \in Nat : N = now
  BY SinceFacts
<1>a. PICK A \in Nat : A = LetInSince(k, s)
  BY SinceFacts
<1>0. s \in Nat /\ s <= N /\ L <= N /\ N - s \in Nat /\ N - L \in Nat /\ Rate * Burst <= N - L
      /\ BucketPays(k) /\ (N - s) \div Rate \in Nat
  <2>1. BucketPays(k) /\ L <= N /\ s \in Nat /\ s <= N
    BY <1>l, <1>n DEF RateIndInv, BucketPays
  <2>2. N - s \in Nat /\ N - L \in Nat
    BY <2>1
  <2>3. N - L > Idle
    BY <1>l, <1>n
  <2> QED
    BY <2>1, <2>2, <2>3, DivBound, RateConstants
<1> SUFFICES A <= (N - s) \div Rate
  BY <1>a, <1>n
<1>1. CASE s <= L
  <2>1. L - s \in Nat /\ (L - s) + (N - L) = N - s
    BY <1>0, <1>1
  <2>2. Burst <= (N - L) \div Rate /\ (N - L) \div Rate \in Nat
    BY <1>0, DivBound, RateConstants
  <2>3. ((L - s) \div Rate) + ((N - L) \div Rate) <= (N - s) \div Rate /\ (L - s) \div Rate \in Nat
    BY <1>0, <2>1, DivSum, DivBound
  <2>4. s \in 0..L
    BY <1>0, <1>1
  <2>5. A + T <= Burst + (L - s) \div Rate
    BY <1>0, <1>a, <1>l, <1>t, <2>4 DEF BucketPays
  <2> QED
    BY <1>0, <2>2, <2>3, <2>5, RateConstants
<1>2. CASE ~(s <= L)
  <2>1. s \in (L + 1)..N
    BY <1>0, <1>2
  <2>2. A + T < Burst /\ (L + Rate <= s => A = 0)
    BY <1>0, <1>a, <1>l, <1>t, <1>n, <2>1 DEF BucketPays
  <2>3. CASE L + Rate <= s
    BY <1>0, <2>2, <2>3
  <2>4. CASE ~(L + Rate <= s)
    <3>1. N - L < (N - s) + Rate
      BY <1>0, <2>4, RateConstants
    <3>2. (N - L) \div Rate <= ((N - s) \div Rate) + 1
      BY <1>0, <3>1, DivLess
    <3>3. Burst <= (N - L) \div Rate /\ (N - L) \div Rate \in Nat
      BY <1>0, DivBound, RateConstants
    <3> QED
      BY <1>0, <2>2, <3>2, <3>3, RateConstants
  <2> QED
    BY <2>3, <2>4
<1> QED
  BY <1>1, <1>2

LEMMA CleanupStep ==
    ASSUME RateIndInv, Cleanup
    PROVE  RateIndInv'
<1>1. /\ visitors' = [k \in Keys |-> IF k \in Forgotten THEN NoBucket ELSE visitors[k]]
      /\ UNCHANGED <<now, allowed, denied>>
  BY DEF Cleanup
<1>2. /\ now \in Time /\ visitors \in [Keys -> Bucket]
      /\ allowed \in [Keys -> [Time -> Nat]] /\ denied \in [Keys -> [Time -> 0..MaxDenied]]
      /\ \A k \in Keys : HistoryOk(k) /\ BucketPays(k)
  BY DEF RateIndInv, RateTypeOK, Bucket
<1>3. NoBucket \in Bucket
  BY RateConstants DEF NoBucket, Bucket, Time
<1>4. RateTypeOK'
  BY <1>1, <1>2, <1>3 DEF RateTypeOK, Bucket
<1>5. ASSUME NEW k \in Keys PROVE HistoryOk(k)' /\ BucketPays(k)'
  <2>1. HistoryOk(k)'
    BY <1>1, <1>2 DEF HistoryOk
  <2>2. \A s \in 0..now : LetInSince(k, s)' = LetInSince(k, s)
    BY <1>1 DEF LetInSince, LetInBetween
  <2>3. CASE k \in Forgotten
    <3>1. visitors[k].known /\ now - visitors[k].lastSeen > Idle
      BY <2>3 DEF Forgotten
    <3>2. \A s \in 0..now : LetInSince(k, s) <= (now - s) \div Rate
      BY <3>1, ForgottenWasFull
    <3>n. PICK N \in Nat : N = now
      BY SinceFacts
    <3>3. ~visitors'[k].known
      BY <1>1, <2>3 DEF NoBucket
    <3>4. now' = N /\ \A s \in 0..N : LetInSince(k, s)' <= (N - s) \div Rate
      BY <1>1, <2>2, <3>2, <3>n
    <3> QED
      BY <2>1, <3>3, <3>4 DEF BucketPays
  <2>4. CASE k \notin Forgotten
    <3>1. visitors'[k] = visitors[k] /\ now \in Nat /\ visitors[k].lastSeen \in Nat
      BY <1>1, <2>4, SinceFacts
    <3> QED
      BY <1>1, <1>2, <2>1, <2>2, <3>1, SamePays
  <2> QED
    BY <2>3, <2>4
<1>6. RefusedOnlyAfterAllowed'
  BY <1>1 DEF RateIndInv, RefusedOnlyAfterAllowed, LetInBetween
<1> QED
  BY <1>4, <1>5, <1>6 DEF RateIndInv

LEMMA RateStutter ==
    ASSUME RateIndInv, UNCHANGED rateVars
    PROVE  RateIndInv'
<1>1. \A k \in Keys : HistoryOk(k)' /\ BucketPays(k)'
  <2> SUFFICES ASSUME NEW k \in Keys PROVE HistoryOk(k)' /\ BucketPays(k)'
    OBVIOUS
  <2>1. HistoryOk(k) /\ BucketPays(k)
    BY DEF RateIndInv
  <2>2. HistoryOk(k)'
    BY <2>1 DEF HistoryOk, rateVars
  <2>3. /\ visitors'[k] = visitors[k] /\ now \in Nat /\ visitors[k].lastSeen \in Nat
        /\ now' = now /\ \A s \in 0..now : LetInSince(k, s)' = LetInSince(k, s)
    BY SinceFacts DEF rateVars, LetInSince, LetInBetween
  <2> QED
    BY <2>1, <2>2, <2>3, SamePays
<1> QED
  BY <1>1 DEF RateIndInv, RateTypeOK, RefusedOnlyAfterAllowed, LetInBetween, rateVars

\* In every stretch of time the throttle lets a client in at most its burst and
\* once for each rate elapsed, whatever cleanup forgot in between, and refuses
\* a client only when it was let in less than a rate ago (allow, cleanup).
THEOREM RequestsAreThrottled == RateSpec => []RateInv
<1>1. RateIndInv /\ [RateNext]_rateVars => RateIndInv'
  <2> SUFFICES ASSUME RateIndInv, [RateNext]_rateVars PROVE RateIndInv'
    OBVIOUS
  <2>1. CASE Tick
    BY <2>1, TickStep
  <2>2. CASE Cleanup
    BY <2>2, CleanupStep
  <2>3. ASSUME NEW k \in Keys, Allow(k) PROVE RateIndInv'
    BY <2>3, AllowStep
  <2>4. CASE UNCHANGED rateVars
    BY <2>4, RateStutter
  <2> QED
    BY <2>1, <2>2, <2>3, <2>4 DEF RateNext
<1> QED
  BY <1>1, RateIndInit, RateIndImplies, PTL DEF RateSpec

-----------------------------------------------------------------------------
(* The chunker.  Pieces tile the characters placed so far, chunks cover them *)
(* in order; the buffer continues where the pieces, or the chunks, end.      *)

TextRanges == [first: Int, last: Int, len: Nat]

\* The last character of a sequence of pieces or chunks.
EndOf(s) == IF s = <<>> THEN 0 ELSE s[Len(s)].last

Tiles(s) ==
    /\ \A i \in 1..Len(s) : s[i].len \in 1..MaxChars /\ s[i].first <= s[i].last
    /\ s # <<>> => s[1].first = 1
    /\ \A i \in 1..(Len(s) - 1) : s[i + 1].first = s[i].last + 1

Covers(s) ==
    /\ \A i \in 1..Len(s) : s[i].len <= MaxChars + OverlapChars + 1
    /\ s # <<>> => s[1].first = 1
    /\ \A i \in 1..(Len(s) - 1) : s[i].last < s[i + 1].last /\ s[i + 1].first <= s[i].last + 1

ChunkTypes ==
    /\ chunkStep \in {"input", "split", "gather", "end"}
    /\ paragraphs \in Seq(Paragraphs) /\ sentences \in Seq(1..MaxSentence)
    /\ position \in Nat /\ pieceAt \in 1..(Len(pieces) + 1)
    /\ pieces \in Seq(TextRanges) /\ chunkOut \in Seq(TextRanges)
    /\ pieceBuf \in TextRanges /\ chunkBuf \in TextRanges

\* What splitOversized has placed.
PiecesInv ==
    /\ Tiles(pieces)
    /\ IF pieceBuf.len = 0
       THEN EndOf(pieces) = position /\ pieceBuf = NoText
       ELSE /\ pieceBuf.len <= MaxChars /\ pieceBuf.first <= pieceBuf.last
            /\ pieceBuf.last = position /\ pieceBuf.first = EndOf(pieces) + 1
    /\ sentences = <<>> => pieceBuf.len = 0

\* What is in chunks, or in the buffer, once pieces before pieceAt are gathered.
GatherInv ==
    /\ Covers(chunkOut)
    /\ chunkStep \in {"input", "split"} => pieceAt = 1
    /\ chunkStep = "split" => paragraphs # <<>> \/ sentences # <<>> \/ pieces # <<>>
    /\ chunkStep \in {"gather", "end"} => sentences = <<>> /\ pieces # <<>>
    /\ chunkStep # "end" =>
          IF pieceAt = 1 THEN chunkBuf = NoText /\ chunkOut = <<>>
          ELSE /\ chunkBuf.len \in 1..(MaxChars + OverlapChars + 1)
               /\ chunkBuf.first <= chunkBuf.last + 1
               /\ chunkBuf.last = pieces[pieceAt - 1].last
               /\ EndOf(chunkOut) < chunkBuf.last /\ chunkBuf.first <= EndOf(chunkOut) + 1
               /\ chunkOut = <<>> => chunkBuf.first = 1
    /\ chunkStep = "end" => chunkBuf = NoText /\ chunkOut # <<>> /\ EndOf(chunkOut) = position

\* ChunkInv made inductive.
ChunkIndInv == ChunkTypes /\ PiecesInv /\ GatherInv

LEMMA ChunkConstants ==
    /\ MaxChars \in Nat /\ MaxChars >= 1 /\ OverlapChars \in Nat /\ OverlapChars < MaxChars
    /\ MaxSentence \in Nat /\ MaxSentences \in Nat /\ MaxParagraphs \in Nat
    /\ SentenceLengths \subseteq 1..MaxSentence
BY ChunkerAssumption

LEMMA SeqFacts ==
    ASSUME NEW S, NEW s \in Seq(S)
    PROVE  /\ \A i \in DOMAIN s : s[i] \in S
           /\ s # <<>> => Head(s) \in S /\ Head(s) = s[1] /\ Tail(s) \in Seq(S)
OBVIOUS

LEMMA ARange ==
    ASSUME NEW f \in Int, NEW l \in Int, NEW n \in Nat
    PROVE  /\ TextRange(f, l, n) \in TextRanges
           /\ TextRange(f, l, n).first = f /\ TextRange(f, l, n).last = l
           /\ TextRange(f, l, n).len = n
BY DEF TextRange, TextRanges

LEMMA TheNoText ==
    NoText \in TextRanges /\ NoText.first = 0 /\ NoText.last = 0 /\ NoText.len = 0
BY DEF NoText, TextRanges

LEMMA RangeFields ==
    ASSUME NEW r \in TextRanges
    PROVE  r.first \in Int /\ r.last \in Int /\ r.len \in Nat
BY DEF TextRanges

LEMMA Longer ==
    ASSUME NEW s \in Seq(TextRanges), NEW r \in TextRanges
    PROVE  /\ Append(s, r) \in Seq(TextRanges) /\ Len(s) \in Nat
           /\ Append(s, r) # <<>> /\ Len(Append(s, r)) = Len(s) + 1
           /\ Append(s, r)[Len(s) + 1] = r /\ \A i \in 1..Len(s) : Append(s, r)[i] = s[i]
           /\ EndOf(Append(s, r)) = r.last
           /\ s = <<>> <=> Len(s) = 0
           /\ \A i \in 1..Len(s) : s[i] \in TextRanges
<1>1. /\ Append(s, r) \in Seq(TextRanges) /\ Len(s) \in Nat
      /\ Append(s, r) # <<>> /\ Len(Append(s, r)) = Len(s) + 1
      /\ Append(s, r)[Len(s) + 1] = r /\ \A i \in 1..Len(s) : Append(s, r)[i] = s[i]
      /\ s = <<>> <=> Len(s) = 0
      /\ \A i \in 1..Len(s) : s[i] \in TextRanges
  OBVIOUS
<1> QED
  BY <1>1 DEF EndOf

LEMMA EndIsInt ==
    ASSUME NEW s \in Seq(TextRanges)
    PROVE  EndOf(s) \in Int
<1>1. CASE s = <<>>
  BY <1>1 DEF EndOf
<1>2. CASE s # <<>>
  <2>1. s[Len(s)] \in TextRanges
    BY <1>2
  <2> QED
    BY <1>2, <2>1, RangeFields DEF EndOf
<1> QED
  BY <1>1, <1>2

LEMMA TilesOn ==
    ASSUME NEW s \in Seq(TextRanges), NEW r \in TextRanges, Tiles(s),
           r.first = EndOf(s) + 1, r.first <= r.last, r.len \in 1..MaxChars
    PROVE  Tiles(Append(s, r))
<1> DEFINE a == Append(s, r)
<1>1. /\ Len(s) \in Nat /\ Len(a) = Len(s) + 1 /\ a[Len(s) + 1] = r /\ a # <<>>
      /\ \A i \in 1..Len(s) : a[i] = s[i]
      /\ s = <<>> <=> Len(s) = 0
  BY Longer
<1> HIDE DEF a
<1>2. ASSUME NEW i \in 1..Len(a) PROVE a[i].len \in 1..MaxChars /\ a[i].first <= a[i].last
  <2>1. CASE i = Len(s) + 1
    BY <1>1, <2>1
  <2>2. CASE i # Len(s) + 1
    <3>1. i \in 1..Len(s)
      BY <1>1, <2>2
    <3> QED
      BY <1>1, <3>1 DEF Tiles
  <2> QED
    BY <2>1, <2>2
<1>3. a[1].first = 1
  <2>1. CASE s = <<>>
    <3>1. a[1] = r
      BY <1>1, <2>1
    <3> QED
      BY <2>1, <3>1 DEF EndOf
  <2>2. CASE s # <<>>
    <3>1. 1 \in 1..Len(s)
      BY <1>1, <2>2
    <3> QED
      BY <1>1, <2>2, <3>1 DEF Tiles
  <2> QED
    BY <2>1, <2>2
<1>4. ASSUME NEW i \in 1..(Len(a) - 1) PROVE a[i + 1].first = a[i].last + 1
  <2>1. i \in 1..Len(s) /\ a[i] = s[i]
    BY <1>1
  <2>2. CASE i = Len(s)
    <3>1. s # <<>> /\ a[i + 1] = r
      BY <1>1, <2>1, <2>2
    <3> QED
      BY <2>1, <2>2, <3>1 DEF EndOf
  <2>3. CASE i # Len(s)
    <3>1. i \in 1..(Len(s) - 1) /\ i + 1 \in 1..Len(s)
      BY <1>1, <2>1, <2>3
    <3> QED
      BY <1>1, <2>1, <3>1 DEF Tiles
  <2> QED
    BY <2>2, <2>3
<1> QED
  BY <1>2, <1>3, <1>4 DEF Tiles, a

LEMMA CoversOn ==
    ASSUME NEW s \in Seq(TextRanges), NEW r \in TextRanges, Covers(s),
           EndOf(s) < r.last, r.first <= EndOf(s) + 1, s = <<>> => r.first = 1,
           r.len <= MaxChars + OverlapChars + 1
    PROVE  Covers(Append(s, r))
<1> DEFINE a == Append(s, r)
<1>1. /\ Len(s) \in Nat /\ Len(a) = Len(s) + 1 /\ a[Len(s) + 1] = r /\ a # <<>>
      /\ \A i \in 1..Len(s) : a[i] = s[i]
      /\ s = <<>> <=> Len(s) = 0
  BY Longer
<1> HIDE DEF a
<1>2. ASSUME NEW i \in 1..Len(a) PROVE a[i].len <= MaxChars + OverlapChars + 1
  <2>1. CASE i = Len(s) + 1
    BY <1>1, <2>1
  <2>2. CASE i # Len(s) + 1
    <3>1. i \in 1..Len(s)
      BY <1>1, <2>2
    <3> QED
      BY <1>1, <3>1 DEF Covers
  <2> QED
    BY <2>1, <2>2
<1>3. a[1].first = 1
  <2>1. CASE s = <<>>
    BY <1>1, <2>1
  <2>2. CASE s # <<>>
    <3>1. 1 \in 1..Len(s)
      BY <1>1, <2>2
    <3> QED
      BY <1>1, <2>2, <3>1 DEF Covers
  <2> QED
    BY <2>1, <2>2
<1>4. ASSUME NEW i \in 1..(Len(a) - 1)
      PROVE  a[i].last < a[i + 1].last /\ a[i + 1].first <= a[i].last + 1
  <2>1. i \in 1..Len(s) /\ a[i] = s[i]
    BY <1>1
  <2>2. CASE i = Len(s)
    <3>1. s # <<>> /\ a[i + 1] = r
      BY <1>1, <2>1, <2>2
    <3> QED
      BY <2>1, <2>2, <3>1 DEF EndOf
  <2>3. CASE i # Len(s)
    <3>1. i \in 1..(Len(s) - 1) /\ i + 1 \in 1..Len(s)
      BY <1>1, <2>1, <2>3
    <3> QED
      BY <1>1, <2>1, <3>1 DEF Covers
  <2> QED
    BY <2>2, <2>3
<1> QED
  BY <1>2, <1>3, <1>4 DEF Covers, a

LEMMA ChunkIndImplies == ChunkIndInv => ChunkInv
<1> SUFFICES ASSUME ChunkIndInv PROVE ChunkInv
  OBVIOUS
<1>1. /\ pieces \in Seq(TextRanges) /\ chunkOut \in Seq(TextRanges) /\ Len(pieces) \in Nat
      /\ Len(chunkOut) \in Nat /\ Tiles(pieces) /\ Covers(chunkOut)
      /\ DOMAIN pieces = 1..Len(pieces) /\ DOMAIN chunkOut = 1..Len(chunkOut)
      /\ pieceBuf \in TextRanges /\ chunkBuf \in TextRanges
  BY DEF ChunkIndInv, ChunkTypes, PiecesInv, GatherInv
<1>2. PiecesFit
  BY <1>1 DEF PiecesFit, Tiles
<1>3. ChunksFit
  BY <1>1 DEF ChunksFit, Covers
<1>4. ChunksCoverText
  BY <1>1 DEF ChunksCoverText, Covers, EndOf, ChunkIndInv, GatherInv
<1>5. ChunkTypeOK
  <2>1. pieceBuf.len \in Nat /\ pieceBuf.first <= pieceBuf.last + 1
    <3>1. pieceBuf.first \in Int /\ pieceBuf.last \in Int /\ pieceBuf.len \in Nat
      BY <1>1, RangeFields
    <3>2. pieceBuf = NoText \/ pieceBuf.first <= pieceBuf.last
      BY DEF ChunkIndInv, PiecesInv
    <3> QED
      BY <3>1, <3>2, TheNoText
  <2>2. chunkBuf.len \in Nat /\ chunkBuf.first <= chunkBuf.last + 1
    <3>1. chunkBuf.len \in Nat
      BY <1>1, RangeFields
    <3>2. chunkBuf = NoText \/ chunkBuf.first <= chunkBuf.last + 1
      BY DEF ChunkIndInv, GatherInv
    <3> QED
      BY <3>1, <3>2, TheNoText
  <2>3. /\ chunkStep \in {"input", "split", "gather", "end"}
        /\ \A i \in DOMAIN sentences : sentences[i] \in 1..MaxSentence
        /\ position \in Nat /\ pieceAt \in 1..(Len(pieces) + 1)
    <3>1. sentences \in Seq(1..MaxSentence)
      BY DEF ChunkIndInv, ChunkTypes
    <3>2. \A i \in DOMAIN sentences : sentences[i] \in 1..MaxSentence
      BY <3>1, SeqFacts
    <3> QED
      BY <3>2 DEF ChunkIndInv, ChunkTypes
  <2> QED
    BY <2>1, <2>2, <2>3 DEF ChunkTypeOK
<1> QED
  BY <1>2, <1>3, <1>4, <1>5 DEF ChunkInv

LEMMA ChunkIndInit == ChunkInit => ChunkIndInv
<1> SUFFICES ASSUME ChunkInit PROVE ChunkIndInv
  OBVIOUS
<1>1. ChunkTypes
  BY TheNoText DEF ChunkInit, ChunkTypes
<1>2. PiecesInv
  BY TheNoText DEF ChunkInit, PiecesInv, Tiles, EndOf
<1>3. GatherInv
  BY TheNoText DEF ChunkInit, GatherInv, Covers
<1> QED
  BY <1>1, <1>2, <1>3 DEF ChunkIndInv

\* What does not depend on the pieces being placed.
LEMMA GatherKeeps ==
    ASSUME ChunkIndInv, chunkStep = "split", UNCHANGED <<chunkStep, chunkBuf, pieceAt, chunkOut>>,
           paragraphs' # <<>> \/ sentences' # <<>> \/ pieces' # <<>>
    PROVE  GatherInv'
BY DEF ChunkIndInv, GatherInv, Covers, EndOf

LEMMA AParagraph ==
    ASSUME NEW p \in Paragraphs
    PROVE  /\ Len(p) \in Nat /\ Len(p) >= 1 /\ p[Len(p)] \in Nat /\ p[Len(p)] >= 1
           /\ \A i \in 1..Len(p) : SentenceLength(p, i) \in 1..MaxSentence
<1>1. PICK n \in 1..MaxSentences :
         /\ p \in [1..n -> 1..(n * MaxSentence)]
         /\ \A i \in 1..n : SentenceLength(p, i) \in 1..MaxSentence
  BY ChunkConstants DEF Paragraphs
<1>2. n \in Nat /\ n >= 1 /\ n * MaxSentence \in Nat
  BY ChunkConstants
<1> DEFINE m == n * MaxSentence
<1> HIDE DEF m
<1>3. p \in [1..n -> 1..m] /\ m \in Nat
  BY <1>1, <1>2 DEF m
<1>4. Len(p) = n
  BY <1>2, <1>3
<1>5. p[n] \in 1..m
  BY <1>2, <1>3
<1> QED
  BY <1>1, <1>2, <1>3, <1>4, <1>5

LEMMA InputStep ==
    ASSUME ChunkIndInv, ChunkInput
    PROVE  ChunkIndInv'
<1>1. PICK n \in 1..MaxParagraphs : paragraphs' \in [1..n -> Paragraphs]
  BY DEF ChunkInput, Texts
<1>2. n \in Nat /\ n >= 1
  BY ChunkConstants
<1>3. paragraphs' \in Seq(Paragraphs) /\ paragraphs' # <<>>
  BY <1>1, <1>2
<1>4. ChunkTypes'
  BY <1>3 DEF ChunkIndInv, ChunkTypes, ChunkInput
<1>5. PiecesInv'
  BY DEF ChunkIndInv, PiecesInv, ChunkInput, Tiles, EndOf
<1>6. GatherInv'
  BY <1>3 DEF ChunkIndInv, GatherInv, ChunkInput, Covers, EndOf
<1> QED
  BY <1>4, <1>5, <1>6 DEF ChunkIndInv

LEMMA WholeStep ==
    ASSUME ChunkIndInv, WholeParagraph
    PROVE  ChunkIndInv'
<1> DEFINE p == Head(paragraphs)
           n == p[Len(p)]
           piece == TextRange(position + 1, position + n, ParagraphLength(p))
<1>1. /\ chunkStep = "split" /\ sentences = <<>> /\ paragraphs # <<>>
      /\ ParagraphLength(p) <= MaxChars /\ position' = position + n
      /\ pieces' = Append(pieces, piece) /\ paragraphs' = Tail(paragraphs)
      /\ UNCHANGED <<chunkStep, sentences, pieceBuf, chunkBuf, pieceAt, chunkOut>>
  BY DEF WholeParagraph
<1>2. /\ paragraphs \in Seq(Paragraphs) /\ position \in Nat /\ pieces \in Seq(TextRanges)
      /\ Tiles(pieces) /\ EndOf(pieces) = position /\ pieceBuf = NoText
      /\ pieceAt = 1
  BY <1>1 DEF ChunkIndInv, ChunkTypes, PiecesInv, GatherInv
<1>3. p \in Paragraphs /\ paragraphs' \in Seq(Paragraphs)
  BY <1>1, <1>2
<1>4. n \in Nat /\ n >= 1 /\ ParagraphLength(p) \in Nat /\ ParagraphLength(p) >= 1
  BY <1>3, AParagraph DEF ParagraphLength
<1> HIDE DEF p, n
<1>5. /\ piece \in TextRanges /\ piece.first = position + 1 /\ piece.last = position + n
      /\ piece.len = ParagraphLength(p)
  <2>1. position + 1 \in Int /\ position + n \in Int
    BY <1>2, <1>4
  <2> QED
    BY <1>4, <2>1, ARange
<1> HIDE DEF piece
<1>6. Tiles(pieces') /\ pieces' \in Seq(TextRanges) /\ EndOf(pieces') = position'
      /\ pieces' # <<>> /\ Len(pieces') \in Nat
  BY <1>1, <1>2, <1>4, <1>5, TilesOn, Longer, ChunkConstants
<1>7. position' \in Nat /\ pieceAt' \in 1..(Len(pieces') + 1)
  BY <1>1, <1>2, <1>4, <1>6
<1>8. ChunkTypes'
  BY <1>1, <1>3, <1>6, <1>7 DEF ChunkIndInv, ChunkTypes
<1>9. PiecesInv'
  <2>1. pieceBuf' = NoText /\ EndOf(pieces)' = position' /\ Tiles(pieces)'
    BY <1>1, <1>2, <1>6 DEF EndOf, Tiles
  <2> QED
    BY <2>1, TheNoText DEF PiecesInv
<1>10. GatherInv'
  BY <1>1, <1>6, GatherKeeps
<1> QED
  BY <1>8, <1>9, <1>10 DEF ChunkIndInv

LEMMA OversizedStep ==
    ASSUME ChunkIndInv, OversizedParagraph
    PROVE  ChunkIndInv'
<1> DEFINE p == Head(paragraphs)
<1>1. /\ chunkStep = "split" /\ sentences = <<>> /\ paragraphs # <<>>
      /\ sentences' = [i \in 1..Len(p) |-> SentenceLength(p, i)]
      /\ paragraphs' = Tail(paragraphs)
      /\ UNCHANGED <<chunkStep, position, pieceBuf, pieces, chunkBuf, pieceAt, chunkOut>>
  BY DEF OversizedParagraph
<1>2. p \in Paragraphs /\ paragraphs' \in Seq(Paragraphs)
  BY <1>1 DEF ChunkIndInv, ChunkTypes
<1>3. Len(p) \in Nat /\ Len(p) >= 1 /\ \A i \in 1..Len(p) : SentenceLength(p, i) \in 1..MaxSentence
  BY <1>2, AParagraph
<1> HIDE DEF p
<1>4. sentences' \in Seq(1..MaxSentence) /\ sentences' # <<>>
  BY <1>1, <1>3
<1>5. ChunkTypes'
  BY <1>1, <1>2, <1>4 DEF ChunkIndInv, ChunkTypes
<1>6. PiecesInv'
  BY <1>1, <1>4 DEF ChunkIndInv, PiecesInv, Tiles, EndOf
<1>7. GatherInv'
  BY <1>1, <1>4, GatherKeeps
<1> QED
  BY <1>5, <1>6, <1>7 DEF ChunkIndInv

\* flush of splitOversized.
LEMMA FlushedFacts ==
    ASSUME ChunkIndInv
    PROVE  /\ Flushed \in Seq(TextRanges) /\ Tiles(Flushed) /\ EndOf(Flushed) = position
           /\ Len(Flushed) \in Nat
<1>1. /\ pieces \in Seq(TextRanges) /\ pieceBuf \in TextRanges /\ position \in Nat
      /\ Tiles(pieces)
      /\ IF pieceBuf.len = 0
         THEN EndOf(pieces) = position
         ELSE /\ pieceBuf.len <= MaxChars /\ pieceBuf.first <= pieceBuf.last
              /\ pieceBuf.last = position /\ pieceBuf.first = EndOf(pieces) + 1
  BY DEF ChunkIndInv, ChunkTypes, PiecesInv
<1>2. CASE pieceBuf.len = 0
  BY <1>1, <1>2 DEF Flushed
<1>3. CASE pieceBuf.len # 0
  <2>1. pieceBuf.len \in 1..MaxChars
    BY <1>1, <1>3, RangeFields, ChunkConstants
  <2>2. Flushed = Append(pieces, pieceBuf)
    BY <1>3 DEF Flushed
  <2>3. Tiles(Append(pieces, pieceBuf))
    BY <1>1, <1>3, <2>1, TilesOn
  <2>4. Append(pieces, pieceBuf) \in Seq(TextRanges) /\ EndOf(Append(pieces, pieceBuf)) = pieceBuf.last
    BY <1>1, Longer
  <2> QED
    BY <1>1, <1>3, <2>2, <2>3, <2>4
<1> QED
  BY <1>2, <1>3

LEMMA HardSplitStep ==
    ASSUME ChunkIndInv, HardSplit
    PROVE  ChunkIndInv'
<1> DEFINE n == sentences[1]
           F == Flushed
           piece == TextRange(position + 1, position + MaxChars, MaxChars)
<1>1. /\ chunkStep = "split" /\ sentences # <<>> /\ n > MaxChars
      /\ pieces' = Append(F, piece) /\ position' = position + MaxChars
      /\ sentences' = [sentences EXCEPT ![1] = n - MaxChars] /\ pieceBuf' = NoText
      /\ UNCHANGED <<chunkStep, paragraphs, chunkBuf, pieceAt, chunkOut>>
  BY DEF HardSplit, TooLong
<1>2. /\ sentences \in Seq(1..MaxSentence) /\ position \in Nat /\ pieceAt = 1
  BY <1>1 DEF ChunkIndInv, ChunkTypes, GatherInv
<1>3. F \in Seq(TextRanges) /\ Tiles(F) /\ EndOf(F) = position
  BY FlushedFacts
<1> HIDE DEF F
<1>4. n \in 1..MaxSentence /\ n - MaxChars \in 1..MaxSentence
  <2>1. n \in 1..MaxSentence
    BY <1>1, <1>2, SeqFacts
  <2> HIDE DEF n
  <2> QED
    BY <1>1, <2>1, ChunkConstants
<1> HIDE DEF n
<1>5. sentences' \in Seq(1..MaxSentence) /\ sentences' # <<>>
  BY <1>1, <1>2, <1>4
<1>6. /\ piece \in TextRanges /\ piece.first = position + 1 /\ piece.last = position + MaxChars
      /\ piece.len = MaxChars
  <2>1. position + 1 \in Int /\ position + MaxChars \in Int /\ MaxChars \in Nat
    BY <1>2, ChunkConstants
  <2> QED
    BY <2>1, ARange
<1> HIDE DEF piece
<1>7. Tiles(pieces') /\ pieces' \in Seq(TextRanges) /\ EndOf(pieces') = position'
      /\ pieces' # <<>> /\ Len(pieces') \in Nat
  <2>1. piece.first <= piece.last /\ piece.len \in 1..MaxChars /\ piece.first = EndOf(F) + 1
    BY <1>2, <1>3, <1>6, ChunkConstants
  <2>2. Tiles(Append(F, piece))
    BY <1>3, <1>6, <2>1, TilesOn
  <2> QED
    BY <1>1, <1>3, <1>6, <2>2, Longer
<1>8. position' \in Nat /\ pieceAt' \in 1..(Len(pieces') + 1)
  BY <1>1, <1>2, <1>7, ChunkConstants
<1>9. ChunkTypes'
  BY <1>1, <1>5, <1>7, <1>8, TheNoText DEF ChunkIndInv, ChunkTypes
<1>10. PiecesInv'
  <2>1. pieceBuf' = NoText /\ EndOf(pieces)' = position' /\ Tiles(pieces)'
    BY <1>1, <1>7 DEF EndOf, Tiles
  <2> QED
    BY <2>1, TheNoText DEF PiecesInv
<1>11. GatherInv'
  BY <1>1, <1>7, GatherKeeps
<1> QED
  BY <1>9, <1>10, <1>11 DEF ChunkIndInv

\* The buffer with the next sentence in it, and the pieces before it.
LEMMA BufferGrows ==
    ASSUME ChunkIndInv, NEW n \in Nat, n >= 1, n <= MaxChars,
           NEW buf, buf = WithSentence(IF Fits(n) THEN pieceBuf ELSE NoText, n),
           NEW kept, kept = PiecesBefore(n)
    PROVE  /\ kept \in Seq(TextRanges) /\ Tiles(kept) /\ Len(kept) \in Nat
           /\ buf \in TextRanges /\ buf.first = EndOf(kept) + 1 /\ buf.first <= buf.last
           /\ buf.last = position + n /\ buf.len \in 1..MaxChars
<1>1. /\ pieces \in Seq(TextRanges) /\ pieceBuf \in TextRanges /\ position \in Nat
      /\ Tiles(pieces)
      /\ IF pieceBuf.len = 0
         THEN EndOf(pieces) = position
         ELSE /\ pieceBuf.len <= MaxChars /\ pieceBuf.first <= pieceBuf.last
              /\ pieceBuf.last = position /\ pieceBuf.first = EndOf(pieces) + 1
  BY DEF ChunkIndInv, ChunkTypes, PiecesInv
<1>2. pieceBuf.len \in Nat /\ pieceBuf.first \in Int /\ pieceBuf.last \in Int /\ EndOf(pieces) \in Int
  BY <1>1, RangeFields, EndIsInt
<1>n. position + 1 \in Int /\ position + n \in Int
  BY <1>1
<1>3. CASE ~Fits(n) \/ pieceBuf.len = 0
  <2>1. kept \in Seq(TextRanges) /\ Tiles(kept) /\ EndOf(kept) = position
    <3>1. CASE Fits(n)
      <4>1. pieceBuf.len = 0 /\ kept = pieces
        BY <1>3, <3>1 DEF PiecesBefore
      <4> QED
        BY <1>1, <4>1
    <3>2. CASE ~Fits(n)
      <4>1. kept = Flushed
        BY <3>2 DEF PiecesBefore
      <4> QED
        BY <4>1, FlushedFacts
    <3> QED
      BY <3>1, <3>2
  <2>2. buf = TextRange(position + 1, position + n, n)
    BY <1>3, TheNoText DEF WithSentence
  <2>3. /\ buf \in TextRanges /\ buf.first = position + 1 /\ buf.last = position + n
        /\ buf.len = n
    BY <1>n, <2>2, ARange
  <2> QED
    BY <1>1, <2>1, <2>3, ChunkConstants
<1>4. CASE Fits(n) /\ pieceBuf.len # 0
  <2>1. kept = pieces
    BY <1>4 DEF PiecesBefore
  <2>l. PICK l \in Nat : l = pieceBuf.len
    BY <1>2
  <2>f. PICK f \in Int : f = pieceBuf.first
    BY <1>2
  <2>e. PICK e \in Int : e = position + n
    BY <1>n
  <2>k. PICK k \in Nat : k = l + 1 + n
    OBVIOUS
  <2>2. buf = TextRange(f, e, k)
    BY <1>4, <2>l, <2>f, <2>e, <2>k DEF WithSentence
  <2>3. k + 1 <= MaxChars
    <3>1. Fits(n) /\ l # 0
      BY <1>4, <2>l
    <3>2. l + 1 + n + 1 <= MaxChars
      BY <2>l, <3>1 DEF BufLen, Fits
    <3> QED
      BY <2>k, <3>2
  <2>4. buf \in TextRanges /\ buf.first = f /\ buf.last = e /\ buf.len = k
    BY <2>2, ARange
  <2>5. f <= position /\ f = EndOf(pieces) + 1
    BY <1>1, <1>4, <2>f
  <2>6. k \in 1..MaxChars /\ f <= e
    BY <1>1, <2>e, <2>k, <2>3, <2>5, ChunkConstants
  <2> QED
    BY <1>1, <2>1, <2>e, <2>4, <2>5, <2>6
<1> QED
  BY <1>3, <1>4

LEMMA AddStep ==
    ASSUME ChunkIndInv, AddSentence
    PROVE  ChunkIndInv'
<1> DEFINE n == Head(sentences)
           buf == WithSentence(IF Fits(n) THEN pieceBuf ELSE NoText, n)
           kept == PiecesBefore(n)
           last == Tail(sentences) = <<>>
<1>1. /\ chunkStep = "split" /\ sentences # <<>> /\ ~(n > MaxChars)
      /\ position' = position + n
      /\ pieces' = IF last THEN Append(kept, buf) ELSE kept
      /\ pieceBuf' = IF last THEN NoText ELSE buf
      /\ sentences' = Tail(sentences)
      /\ UNCHANGED <<chunkStep, paragraphs, chunkBuf, pieceAt, chunkOut>>
  BY DEF AddSentence, TooLong
<1>2. /\ sentences \in Seq(1..MaxSentence) /\ position \in Nat /\ pieceAt = 1
  BY <1>1 DEF ChunkIndInv, ChunkTypes, GatherInv
<1>3. n \in 1..MaxSentence /\ sentences' \in Seq(1..MaxSentence)
  BY <1>1, <1>2, SeqFacts
<1>4. n \in Nat /\ n >= 1 /\ n <= MaxChars
  <2> HIDE DEF n
  <2> QED
    BY <1>1, <1>3, ChunkConstants
<1>5. /\ kept \in Seq(TextRanges) /\ Tiles(kept) /\ Len(kept) \in Nat
      /\ buf \in TextRanges /\ buf.first = EndOf(kept) + 1 /\ buf.first <= buf.last
      /\ buf.last = position + n /\ buf.len \in 1..MaxChars
  <2> HIDE DEF n
  <2> QED
    BY <1>4, BufferGrows
<1> HIDE DEF n, buf, kept
<1>6. position' \in Nat
  BY <1>1, <1>2, <1>4
<1>7. CASE last
  <2>1. pieces' = Append(kept, buf) /\ pieceBuf' = NoText
    BY <1>1, <1>7
  <2>2. Tiles(pieces') /\ pieces' \in Seq(TextRanges) /\ EndOf(pieces') = position'
        /\ pieces' # <<>> /\ Len(pieces') \in Nat
    <3>1. Tiles(Append(kept, buf))
      BY <1>5, TilesOn
    <3> QED
      BY <1>1, <1>5, <2>1, <3>1, Longer
  <2>3. pieceAt' \in 1..(Len(pieces') + 1)
    BY <1>1, <1>2, <2>2
  <2>4. ChunkTypes'
    BY <1>1, <1>3, <1>6, <2>1, <2>2, <2>3, TheNoText DEF ChunkIndInv, ChunkTypes
  <2>5. PiecesInv'
    <3>1. pieceBuf' = NoText /\ EndOf(pieces)' = position' /\ Tiles(pieces)'
      BY <2>1, <2>2 DEF EndOf, Tiles
    <3> QED
      BY <3>1, TheNoText DEF PiecesInv
  <2>6. GatherInv'
    BY <1>1, <2>2, GatherKeeps
  <2> QED
    BY <2>4, <2>5, <2>6 DEF ChunkIndInv
<1>8. CASE ~last
  <2>1. pieces' = kept /\ pieceBuf' = buf /\ sentences' # <<>>
    BY <1>1, <1>8
  <2>2. pieceAt' \in 1..(Len(pieces') + 1)
    BY <1>1, <1>2, <1>5, <2>1
  <2>3. ChunkTypes'
    BY <1>1, <1>3, <1>5, <1>6, <2>1, <2>2 DEF ChunkIndInv, ChunkTypes
  <2>4. PiecesInv'
    <3>1. /\ Tiles(pieces)' /\ pieceBuf'.len # 0 /\ pieceBuf'.len <= MaxChars
          /\ pieceBuf'.first <= pieceBuf'.last /\ pieceBuf'.last = position'
          /\ pieceBuf'.first = EndOf(pieces)' + 1
      <4>1. Tiles(pieces)' /\ EndOf(pieces)' = EndOf(kept)
        BY <1>5, <2>1 DEF EndOf, Tiles
      <4>2. position' = position + n
        BY <1>1
      <4> QED
        BY <1>5, <2>1, <4>1, <4>2, ChunkConstants
    <3> QED
      BY <2>1, <3>1 DEF PiecesInv
  <2>5. GatherInv'
    BY <1>1, <2>1, GatherKeeps
  <2> QED
    BY <2>3, <2>4, <2>5 DEF ChunkIndInv
<1> QED
  BY <1>7, <1>8

LEMMA SplitDoneStep ==
    ASSUME ChunkIndInv, SplitDone
    PROVE  ChunkIndInv'
<1>1. ChunkTypes'
  BY DEF ChunkIndInv, ChunkTypes, SplitDone
<1>2. PiecesInv'
  BY DEF ChunkIndInv, PiecesInv, SplitDone, Tiles, EndOf
<1>3. GatherInv'
  BY DEF ChunkIndInv, GatherInv, SplitDone, Covers, EndOf
<1> QED
  BY <1>1, <1>2, <1>3 DEF ChunkIndInv

\* flush of ChunkText keeps a tail of the chunk, or nothing.
LEMMA TailFits ==
    ASSUME NEW c \in TextRanges, NEW p \in TextRanges, p.len \in 1..MaxChars,
           p.first = c.last + 1, p.first <= p.last,
           NEW b, b = Joined(CarriedTail(c), p, 1)
    PROVE  /\ b \in TextRanges /\ b.len \in 1..(MaxChars + OverlapChars + 1)
           /\ b.last = p.last /\ b.first <= c.last + 1 /\ b.first <= b.last + 1
<1>1. /\ c.first \in Int /\ c.last \in Int /\ c.len \in Nat
      /\ p.first \in Int /\ p.last \in Int /\ p.len \in Nat
  BY RangeFields
<1>2. CASE OverlapChars > 0 /\ c.len > OverlapChars
  <2> DEFINE l == CarriedTail(c)
  <2>f. PICK f \in Int : f = c.last + 1 - OverlapChars
    BY <1>1, ChunkConstants
  <2>k. PICK k \in Nat : k = OverlapChars + 1 + p.len
    BY <1>1, ChunkConstants
  <2>c. PICK cl \in Int : cl = c.last
    BY <1>1
  <2>o. PICK o \in Nat : o = OverlapChars
    BY ChunkConstants
  <2>e. PICK e \in Int : e = p.last
    BY <1>1
  <2>1. l = TextRange(f, cl, o)
    BY <1>2, <2>f, <2>c, <2>o DEF CarriedTail
  <2>2. l.first = f /\ l.len = OverlapChars
    BY <2>1, <2>o, ARange
  <2> HIDE DEF l
  <2>3. l.len # 0
    BY <1>2, <2>2, ChunkConstants
  <2>4. b = TextRange(f, e, k)
    BY <2>2, <2>3, <2>k, <2>e DEF Joined, l
  <2>5. b \in TextRanges /\ b.first = f /\ b.last = p.last /\ b.len = k
    BY <2>4, <2>e, ARange
  <2> QED
    BY <1>1, <1>2, <2>f, <2>k, <2>5, ChunkConstants
<1>3. CASE ~(OverlapChars > 0 /\ c.len > OverlapChars)
  <2>1. b = p
    BY <1>3, TheNoText DEF CarriedTail, Joined
  <2> QED
    BY <1>1, <2>1, ChunkConstants
<1> QED
  BY <1>2, <1>3

LEMMA GatherStep ==
    ASSUME ChunkIndInv, GatherPiece
    PROVE  ChunkIndInv'
<1> DEFINE p == pieces[pieceAt]
           N == Len(pieces)
<1>1. /\ chunkStep = "gather" /\ pieceAt <= N /\ pieceAt' = pieceAt + 1
      /\ UNCHANGED <<chunkStep, paragraphs, sentences, position, pieceBuf, pieces>>
  BY DEF GatherPiece
<1>2. /\ pieces \in Seq(TextRanges) /\ chunkOut \in Seq(TextRanges) /\ N \in Nat
      /\ chunkBuf \in TextRanges /\ pieceAt \in Nat /\ pieceAt >= 1
      /\ Tiles(pieces) /\ Covers(chunkOut) /\ sentences = <<>> /\ pieces # <<>>
  BY <1>1 DEF ChunkIndInv, ChunkTypes, PiecesInv, GatherInv
<1>b. PICK i \in 1..N : i = pieceAt
  BY <1>1, <1>2
<1>3. /\ p \in TextRanges /\ p.len \in 1..MaxChars /\ p.first <= p.last
      /\ p.first \in Int /\ p.last \in Int /\ p = pieces[i]
  BY <1>2, <1>b, RangeFields DEF Tiles
<1> HIDE DEF p
<1>4. chunkBuf.len \in Nat /\ chunkBuf.first \in Int /\ chunkBuf.last \in Int
      /\ EndOf(chunkOut) \in Int
  BY <1>2, RangeFields, EndIsInt
<1>5. SUFFICES /\ chunkOut' \in Seq(TextRanges) /\ Covers(chunkOut')
               /\ chunkBuf' \in TextRanges
               /\ chunkBuf'.len \in 1..(MaxChars + OverlapChars + 1)
               /\ chunkBuf'.first <= chunkBuf'.last + 1 /\ chunkBuf'.last = p.last
               /\ EndOf(chunkOut') < p.last /\ chunkBuf'.first <= EndOf(chunkOut') + 1
               /\ chunkOut' = <<>> => chunkBuf'.first = 1
  <2>1. pieceAt' \in 1..(N + 1) /\ pieceAt' # 1 /\ pieceAt' - 1 = i
    BY <1>1, <1>2, <1>b
  <2>2. ChunkTypes'
    BY <1>1, <1>5, <2>1 DEF ChunkIndInv, ChunkTypes
  <2>3. PiecesInv'
    BY <1>1 DEF ChunkIndInv, PiecesInv, Tiles, EndOf
  <2>4. GatherInv'
    <3>1. Covers(chunkOut)' /\ EndOf(chunkOut)' = EndOf(chunkOut')
      BY <1>5 DEF Covers, EndOf
    <3>2. chunkBuf'.last = pieces'[pieceAt' - 1].last
      BY <1>1, <1>3, <1>5, <2>1
    <3>3. chunkStep' = "gather" /\ sentences' = <<>> /\ pieces' # <<>>
      BY <1>1, <1>2
    <3> QED
      BY <1>5, <2>1, <3>1, <3>2, <3>3 DEF GatherInv
  <2> QED
    BY <2>2, <2>3, <2>4 DEF ChunkIndInv
<1>6. \/ /\ chunkBuf.len > 0 /\ ChunkBufLen + p.len + 1 > MaxChars
         /\ chunkOut' = Append(chunkOut, chunkBuf)
         /\ chunkBuf' = Joined(CarriedTail(chunkBuf), p, 1)
      \/ /\ ~(chunkBuf.len > 0 /\ ChunkBufLen + p.len + 1 > MaxChars)
         /\ chunkBuf' = Joined(chunkBuf, p, 2)
         /\ chunkOut' = chunkOut
  BY DEF GatherPiece, p
<1>7. CASE i = 1
  <2>1. chunkBuf = NoText /\ chunkOut = <<>> /\ p.first = 1
    <3>1. chunkBuf = NoText /\ chunkOut = <<>>
      BY <1>1, <1>7, <1>b DEF ChunkIndInv, GatherInv
    <3> QED
      BY <1>2, <1>3, <1>7, <3>1 DEF Tiles
  <2>2. chunkBuf' = p /\ chunkOut' = <<>>
    BY <1>6, <2>1, TheNoText DEF Joined
  <2> QED
    BY <1>2, <1>3, <2>1, <2>2, ChunkConstants DEF EndOf
<1>8. CASE i # 1
  <2>1. /\ chunkBuf.len \in 1..(MaxChars + OverlapChars + 1)
        /\ chunkBuf.first <= chunkBuf.last + 1
        /\ chunkBuf.last = pieces[i - 1].last
        /\ EndOf(chunkOut) < chunkBuf.last /\ chunkBuf.first <= EndOf(chunkOut) + 1
        /\ chunkOut = <<>> => chunkBuf.first = 1
    BY <1>1, <1>8, <1>b DEF ChunkIndInv, GatherInv
  <2>2. p.first = chunkBuf.last + 1
    <3>1. i - 1 \in 1..(N - 1) /\ (i - 1) + 1 = i
      BY <1>2, <1>8
    <3>2. pieces[(i - 1) + 1].first = pieces[i - 1].last + 1
      BY <1>2, <3>1 DEF Tiles
    <3> QED
      BY <1>3, <2>1, <3>1, <3>2
  <2>3. CASE /\ chunkOut' = Append(chunkOut, chunkBuf)
             /\ chunkBuf' = Joined(CarriedTail(chunkBuf), p, 1)
    <3>1. /\ chunkBuf' \in TextRanges /\ chunkBuf'.len \in 1..(MaxChars + OverlapChars + 1)
          /\ chunkBuf'.last = p.last /\ chunkBuf'.first <= chunkBuf.last + 1
          /\ chunkBuf'.first <= chunkBuf'.last + 1
      BY <1>2, <1>3, <2>2, <2>3, TailFits
    <3>2. Covers(Append(chunkOut, chunkBuf))
      <4>1. chunkBuf.len <= MaxChars + OverlapChars + 1
        BY <2>1, ChunkConstants
      <4> QED
        BY <1>2, <2>1, <4>1, CoversOn
    <3>3. /\ chunkOut' \in Seq(TextRanges) /\ chunkOut' # <<>>
          /\ EndOf(chunkOut') = chunkBuf.last
      BY <1>2, <2>3, Longer
    <3>4. chunkBuf.last < p.last
      BY <1>3, <1>4, <2>2
    <3> QED
      BY <2>3, <3>1, <3>2, <3>3, <3>4
  <2>4. CASE /\ ~(chunkBuf.len > 0 /\ ChunkBufLen + p.len + 1 > MaxChars)
             /\ chunkBuf' = Joined(chunkBuf, p, 2)
             /\ chunkOut' = chunkOut
    <3>l. PICK l \in Nat : l = chunkBuf.len
      BY <1>4
    <3>q. PICK q \in Nat : q = p.len
      BY <1>3, ChunkConstants
    <3>k. PICK k \in Nat : k = l + 2 + q
      OBVIOUS
    <3>1. l >= 1 /\ q >= 1
      BY <1>3, <2>1, <3>l, <3>q, ChunkConstants
    <3>2. l + 2 + q + 1 <= MaxChars
      <4>1. ChunkBufLen = l + 2
        BY <3>l, <3>1 DEF ChunkBufLen
      <4> QED
        BY <2>4, <3>l, <3>q, <3>1, <4>1, ChunkConstants
    <3>f. PICK f \in Int : f = chunkBuf.first
      BY <1>4
    <3>e. PICK e \in Int : e = p.last
      BY <1>3
    <3>3. chunkBuf' = TextRange(f, e, k)
      BY <2>4, <3>l, <3>q, <3>k, <3>f, <3>e, <3>1 DEF Joined
    <3>4. /\ chunkBuf' \in TextRanges /\ chunkBuf'.first = chunkBuf.first
          /\ chunkBuf'.last = p.last /\ chunkBuf'.len = k
      BY <3>3, <3>f, <3>e, ARange
    <3>5. k \in 1..(MaxChars + OverlapChars + 1)
      BY <3>k, <3>2, ChunkConstants
    <3>6. chunkBuf.last < p.last /\ chunkBuf.first <= p.last + 1 /\ EndOf(chunkOut) < p.last
      BY <1>3, <1>4, <2>1, <2>2
    <3> QED
      BY <1>2, <2>1, <2>4, <3>4, <3>5, <3>6
  <2> QED
    BY <1>6, <2>3, <2>4
<1> QED
  BY <1>7, <1>8

LEMMA LastStep ==
    ASSUME ChunkIndInv, LastFlush
    PROVE  ChunkIndInv'
<1>1. /\ chunkStep = "gather" /\ pieceAt > Len(pieces) /\ chunkStep' = "end"
      /\ chunkBuf' = NoText
      /\ chunkOut' = IF chunkBuf.len = 0 THEN chunkOut ELSE Append(chunkOut, chunkBuf)
      /\ UNCHANGED <<paragraphs, sentences, position, pieceBuf, pieces, pieceAt>>
  BY DEF LastFlush
<1>2. /\ pieces \in Seq(TextRanges) /\ chunkOut \in Seq(TextRanges) /\ Len(pieces) \in Nat
      /\ chunkBuf \in TextRanges /\ pieceAt \in 1..(Len(pieces) + 1)
      /\ Covers(chunkOut) /\ sentences = <<>> /\ pieces # <<>>
      /\ EndOf(pieces) = position /\ Len(pieces) # 0
  <2>1. sentences = <<>> /\ pieces # <<>>
    BY <1>1 DEF ChunkIndInv, GatherInv
  <2>2. pieceBuf.len = 0 /\ EndOf(pieces) = position
    BY <2>1 DEF ChunkIndInv, PiecesInv
  <2> QED
    BY <2>1, <2>2 DEF ChunkIndInv, ChunkTypes, GatherInv
<1>3. pieceAt # 1 /\ pieceAt - 1 = Len(pieces)
  BY <1>1, <1>2
<1>4. /\ chunkBuf.len \in 1..(MaxChars + OverlapChars + 1)
      /\ chunkBuf.last = pieces[pieceAt - 1].last
      /\ EndOf(chunkOut) < chunkBuf.last /\ chunkBuf.first <= EndOf(chunkOut) + 1
      /\ chunkOut = <<>> => chunkBuf.first = 1
  BY <1>1, <1>3 DEF ChunkIndInv, GatherInv
<1>5. chunkBuf.last = position
  BY <1>2, <1>3, <1>4 DEF EndOf
<1>6. chunkBuf.len # 0 /\ chunkBuf.len <= MaxChars + OverlapChars + 1
  BY <1>4, ChunkConstants
<1>7. chunkOut' = Append(chunkOut, chunkBuf)
  BY <1>1, <1>6
<1>8. /\ Covers(chunkOut') /\ chunkOut' \in Seq(TextRanges) /\ chunkOut' # <<>>
      /\ EndOf(chunkOut') = position
  BY <1>2, <1>4, <1>5, <1>6, <1>7, CoversOn, Longer
<1>9. ChunkTypes'
  BY <1>1, <1>8, TheNoText DEF ChunkIndInv, ChunkTypes
<1>10. PiecesInv'
  BY <1>1 DEF ChunkIndInv, PiecesInv, Tiles, EndOf
<1>11. GatherInv'
  <2>1. Covers(chunkOut)' /\ EndOf(chunkOut)' = position'
    BY <1>1, <1>8 DEF Covers, EndOf
  <2> QED
    BY <1>1, <1>2, <1>8, <2>1 DEF GatherInv
<1> QED
  BY <1>9, <1>10, <1>11 DEF ChunkIndInv

\* However paragraphs and sentences fall, no piece is longer than the limit and
\* no chunk than the limit and its overlap, and the chunks hold every character
\* of the text, in order and without a gap (ChunkText, splitOversized).
THEOREM ChunksHoldTheText == ChunkSpec => []ChunkInv
<1>1. ChunkIndInv /\ [ChunkNext]_chunkVars => ChunkIndInv'
  <2> SUFFICES ASSUME ChunkIndInv, [ChunkNext]_chunkVars PROVE ChunkIndInv'
    OBVIOUS
  <2>1. CASE ChunkInput
    BY <2>1, InputStep
  <2>2. CASE WholeParagraph
    BY <2>2, WholeStep
  <2>3. CASE OversizedParagraph
    BY <2>3, OversizedStep
  <2>4. CASE HardSplit
    BY <2>4, HardSplitStep
  <2>5. CASE AddSentence
    BY <2>5, AddStep
  <2>6. CASE SplitDone
    BY <2>6, SplitDoneStep
  <2>7. CASE GatherPiece
    BY <2>7, GatherStep
  <2>8. CASE LastFlush
    BY <2>8, LastStep
  <2>9. CASE UNCHANGED chunkVars
    BY <2>9 DEF chunkVars, ChunkIndInv, ChunkTypes, PiecesInv, GatherInv, Tiles, Covers, EndOf
  <2> QED
    BY <2>1, <2>2, <2>3, <2>4, <2>5, <2>6, <2>7, <2>8, <2>9 DEF ChunkNext
<1> QED
  BY <1>1, ChunkIndInit, ChunkIndImplies, PTL DEF ChunkSpec
=============================================================================
