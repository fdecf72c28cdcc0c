----------------------------- MODULE EventsProofs -----------------------------
(***************************************************************************)
(* Proofs about what subscribers are told of a call: the dispatcher of     *)
(* outgoing webhooks (module OutWebhook) and the producer of its events    *)
(* (module CallOutcome).                                                   *)
(***************************************************************************)
EXTENDS CallOutcome, OutWebhook, Functions, TLAPS

-----------------------------------------------------------------------------
(* Queues *)

LEMMA RangeAppend ==
    ASSUME NEW S, NEW s \in Seq(S), NEW e \in S
    PROVE  /\ Append(s, e) \in Seq(S) /\ Len(Append(s, e)) = Len(s) + 1 /\ Len(s) \in Nat
           /\ Range(Append(s, e)) = Range(s) \cup {e}
           /\ IsInjective(s) /\ e \notin Range(s) => IsInjective(Append(s, e))
<1>1. /\ Append(s, e) \in Seq(S) /\ Len(Append(s, e)) = Len(s) + 1 /\ Len(s) \in Nat
      /\ DOMAIN s = 1..Len(s) /\ DOMAIN Append(s, e) = 1..(Len(s) + 1)
      /\ \A i \in 1..Len(s) : Append(s, e)[i] = s[i]
      /\ Append(s, e)[Len(s) + 1] = e
  OBVIOUS
<1>2. 1..(Len(s) + 1) = 1..Len(s) \cup {Len(s) + 1}
  BY <1>1
<1>3. Range(Append(s, e)) = Range(s) \cup {e}
  BY <1>1, <1>2 DEF Range
<1>4. ASSUME IsInjective(s), e \notin Range(s),
             NEW i \in 1..(Len(s) + 1), NEW j \in 1..(Len(s) + 1),
             Append(s, e)[i] = Append(s, e)[j]
      PROVE  i = j
  BY <1>1, <1>2, <1>4 DEF IsInjective, Range
<1> QED
  BY <1>1, <1>3, <1>4 DEF IsInjective

LEMMA RangeTail ==
    ASSUME NEW S, NEW s \in Seq(S), s # <<>>
    PROVE  /\ Tail(s) \in Seq(S) /\ Len(Tail(s)) = Len(s) - 1 /\ Head(s) \in S
           /\ Len(s) \in Nat
           /\ Range(s) = {Head(s)} \cup Range(Tail(s))
           /\ IsInjective(s) => IsInjective(Tail(s)) /\ Head(s) \notin Range(Tail(s))
<1>1. /\ Tail(s) \in Seq(S) /\ Len(Tail(s)) = Len(s) - 1 /\ Head(s) \in S
      /\ Len(s) \in Nat \ {0} /\ Head(s) = s[1]
      /\ DOMAIN s = 1..Len(s) /\ DOMAIN Tail(s) = 1..(Len(s) - 1)
      /\ \A i \in 1..(Len(s) - 1) : Tail(s)[i] = s[i + 1]
  OBVIOUS
<1>2. \A i \in 1..Len(s) : i = 1 \/ (i - 1 \in 1..(Len(s) - 1) /\ (i - 1) + 1 = i)
  BY <1>1
<1>3. \A i \in 1..(Len(s) - 1) : i + 1 \in 1..Len(s) /\ i + 1 # 1
  BY <1>1
<1>4. Range(s) \subseteq {Head(s)} \cup Range(Tail(s))
  <2>1. ASSUME NEW i \in 1..Len(s), i # 1 PROVE s[i] \in Range(Tail(s))
    <3>1. i - 1 \in 1..(Len(s) - 1) /\ (i - 1) + 1 = i
      BY <1>2, <2>1
    <3>2. Tail(s)[i - 1] = s[i]
      BY <1>1, <3>1
    <3> QED
      BY <1>1, <3>1, <3>2 DEF Range
  <2> QED
    BY <1>1, <2>1 DEF Range
<1>5. {Head(s)} \cup Range(Tail(s)) \subseteq Range(s)
  <2>1. Range(Tail(s)) \subseteq Range(s)
    BY <1>1, <1>3 DEF Range
  <2>2. Head(s) \in Range(s)
    <3>1. 1 \in DOMAIN s
      BY <1>1
    <3> QED
      BY <1>1, <3>1 DEF Range
  <2> QED
    BY <2>1, <2>2
<1>6. ASSUME IsInjective(s) PROVE IsInjective(Tail(s)) /\ Head(s) \notin Range(Tail(s))
  <2>1. ASSUME NEW i \in 1..(Len(s) - 1), NEW j \in 1..(Len(s) - 1), Tail(s)[i] = Tail(s)[j]
        PROVE  i = j
    <3>1. i + 1 = j + 1
      BY <1>1, <1>3, <1>6, <2>1 DEF IsInjective
    <3> QED
      BY <3>1
  <2>2. ASSUME NEW i \in 1..(Len(s) - 1), Tail(s)[i] = Head(s) PROVE FALSE
    <3>1. i + 1 = 1 /\ 1 \in 1..Len(s)
      BY <1>1, <1>3, <1>6, <2>2 DEF IsInjective
    <3> QED
      BY <1>3, <3>1
  <2> QED
    BY <1>1, <2>1, <2>2 DEF IsInjective, Range
<1> QED
  BY <1>1, <1>4, <1>5, <1>6

-----------------------------------------------------------------------------
(* The dispatcher of outgoing webhooks *)

WorkerType == [step: {"idle", "list", "post"}, todo: SUBSET Endpoints,
               event: {{}} \cup {{ev} : ev \in Hooks}, left: 0..HandleTimeout]

\* The first delivery of a pair is still to come.
Fresh(p) ==
    \/ p[1] \notin produced
    \/ p[1] \in Range(queue)
    \/ \E w \in Workers :
          p[1] \in worker[w].event /\ (worker[w].step = "list" \/ p[2] \in worker[w].todo)

\* A pair is tried once by a worker and once more by a retry that follows it.
PairOk(p) ==
    /\ attempts[p] \in {0, 1, 2}
    /\ Fresh(p) => attempts[p] = 0
    /\ attempts[p] = 0 => p \notin acked \cup unbuilt \cup retrying
    /\ p \in retrying => attempts[p] = 1 /\ p \notin acked \cup unbuilt
    /\ attempts[p] = 2 => <<p, 2>> \in logged \cup unlogged

\* An event is in one place only: in the queue once, or with one worker.
OnePlace ==
    /\ IsInjective(queue) /\ Range(queue) \subseteq produced
    /\ \A w \in Workers :
          /\ worker[w].event \subseteq produced \ Range(queue)
          /\ worker[w].step = "idle" => worker[w].event = {} /\ worker[w].todo = {}
    /\ \A v, w \in Workers : v # w => worker[v].event \cap worker[w].event = {}

WebhookIndInv == WebhookTypeOK /\ OnePlace /\ \A p \in Pairs : PairOk(p)

LEMMA IdleWorkerType ==
    /\ IdleWorker \in WorkerType /\ IdleWorker.step = "idle"
    /\ IdleWorker.event = {} /\ IdleWorker.todo = {}
BY OutWebhookAssumption DEF IdleWorker, WorkerType

LEMMA WebhookIndInit == WebhookInit => WebhookIndInv
<1> SUFFICES ASSUME WebhookInit PROVE WebhookIndInv
  OBVIOUS
<1>1. /\ queue = <<>> /\ Range(queue) = {} /\ IsInjective(queue) /\ Len(queue) = 0
      /\ queue \in Seq(Hooks)
  BY DEF WebhookInit, Range, IsInjective
<1>2. worker \in [Workers -> WorkerType] /\ \A w \in Workers : worker[w] = IdleWorker
  BY IdleWorkerType DEF WebhookInit
<1>3. attempts \in [Pairs -> Nat] /\ \A p \in Pairs : attempts[p] = 0
  BY DEF WebhookInit
<1>4. endpoint \in [Endpoints -> [there: BOOLEAN, active: BOOLEAN, events: SUBSET EventTypes]]
  BY DEF WebhookInit, NoEndpoint
<1>5. Len(queue) <= QueueSize
  BY <1>1, OutWebhookAssumption
<1>6. WebhookTypeOK
  BY <1>1, <1>2, <1>3, <1>4, <1>5, OutWebhookAssumption
     DEF WebhookInit, WebhookTypeOK, WorkerType
<1>7. OnePlace
  BY <1>1, <1>2, IdleWorkerType DEF OnePlace
<1>8. ASSUME NEW p \in Pairs PROVE PairOk(p)
  BY <1>3 DEF WebhookInit, PairOk
<1> QED
  BY <1>6, <1>7, <1>8 DEF WebhookIndInv

\* A pair nothing is delivered to.
LEMMA PairKeeps ==
    ASSUME NEW p \in Pairs, PairOk(p), attempts'[p] = attempts[p],
           p \in acked' <=> p \in acked, p \in unbuilt' <=> p \in unbuilt,
           p \in retrying' => p \in retrying,
           logged \subseteq logged', unlogged \subseteq unlogged',
           Fresh(p)' => Fresh(p)
    PROVE  PairOk(p)'
BY DEF PairOk

\* One worker's step.
LEMMA WorkerFrame ==
    ASSUME worker \in [Workers -> WorkerType], NEW w \in Workers, NEW new \in WorkerType,
           worker' = [worker EXCEPT ![w] = new]
    PROVE  /\ worker' \in [Workers -> WorkerType]
           /\ \A v \in Workers : worker'[v] = IF v = w THEN new ELSE worker[v]
OBVIOUS

\* The event of a worker that has one.
LEMMA WorkerEvent ==
    ASSUME worker \in [Workers -> WorkerType], NEW w \in Workers, NEW ev \in worker[w].event
    PROVE  ev \in Hooks /\ worker[w].event = {ev} /\ worker[w] \in WorkerType
           /\ worker[w].left \in 0..HandleTimeout
BY DEF WorkerType

\* What deliver and its log do, whatever the answer.
LEMMA DeliverEffect ==
    ASSUME WebhookTypeOK, NEW p \in Pairs, NEW n \in {1, 2}, NEW left \in 0..HandleTimeout,
           NEW how \in Outcomes(left), NEW others \in SUBSET Pairs,
           Deliver(p, n, left, how, others)
    PROVE  /\ attempts' \in [Pairs -> Nat]
           /\ \A q \in Pairs : attempts'[q] = IF q = p THEN attempts[p] + 1 ELSE attempts[q]
           /\ acked' \subseteq Pairs /\ unbuilt' \subseteq Pairs /\ retrying' \subseteq Pairs
           /\ logged' \subseteq Pairs \X {1, 2} /\ unlogged' \subseteq Pairs \X {1, 2}
           /\ hookFaults' \in 0..MaxHookFaults
           /\ LeftAfter(how, left) \in 0..HandleTimeout
           /\ logged \subseteq logged' /\ unlogged \subseteq unlogged'
           /\ LeftAfter(how, left) # 0 => <<p, n>> \in logged' \cup unlogged'
           /\ \A q \in Pairs \ {p} :
                 /\ q \in acked' <=> q \in acked
                 /\ q \in unbuilt' <=> q \in unbuilt
                 /\ q \in retrying' <=> q \in others
           /\ p \in retrying' =>
                 \/ p \in others
                 \/ n = 1 /\ (p \in acked' => p \in acked) /\ (p \in unbuilt' => p \in unbuilt)
<1>0. /\ attempts \in [Pairs -> Nat] /\ acked \subseteq Pairs /\ unbuilt \subseteq Pairs
      /\ logged \subseteq Pairs \X {1, 2} /\ unlogged \subseteq Pairs \X {1, 2}
      /\ hookFaults \in 0..MaxHookFaults
      /\ PostTimeout \in Nat /\ HandleTimeout \in Nat /\ MaxHookFaults \in Nat
  BY OutWebhookAssumption DEF WebhookTypeOK
<1>1. LeftAfter(how, left) \in 0..HandleTimeout
  BY <1>0 DEF LeftAfter, Least
<1>2. /\ attempts' \in [Pairs -> Nat]
      /\ \A q \in Pairs : attempts'[q] = IF q = p THEN attempts[p] + 1 ELSE attempts[q]
  BY <1>0 DEF Deliver
<1>3. <<p, n>> \in Pairs \X {1, 2}
  OBVIOUS
<1>4. /\ logged' \subseteq Pairs \X {1, 2} /\ unlogged' \subseteq Pairs \X {1, 2}
      /\ logged \subseteq logged' /\ unlogged \subseteq unlogged'
      /\ LeftAfter(how, left) # 0 => <<p, n>> \in logged' \cup unlogged'
  <2>1. LogWebhookDelivery(p, n, LeftAfter(how, left))
    BY DEF Deliver
  <2> QED
    BY <1>0, <1>1, <1>3, <2>1 DEF LogWebhookDelivery
<1>5. hookFaults' \in 0..MaxHookFaults
  BY <1>0 DEF Deliver, LogWebhookDelivery, HookFault
<1>6. /\ acked' = IF how = "ok" THEN acked \cup {p} ELSE acked
      /\ unbuilt' = IF how = "unbuilt" THEN unbuilt \cup {p} ELSE unbuilt
      /\ retrying' = others \/ (retrying' = others \cup {p} /\ n = 1
                                /\ how \in {"refused", "timeout"})
  BY DEF Deliver, NeedsRetry, MayRetry
<1> QED
  BY <1>0, <1>1, <1>2, <1>4, <1>5, <1>6

LEMMA WebhookIndStep == WebhookIndInv /\ [WebhookNext]_webhookVars => WebhookIndInv'
<1> SUFFICES ASSUME WebhookIndInv, [WebhookNext]_webhookVars PROVE WebhookIndInv'
  OBVIOUS
<1>0. /\ WebhookTypeOK /\ OnePlace /\ \A p \in Pairs : PairOk(p)
      /\ worker \in [Workers -> WorkerType] /\ queue \in Seq(Hooks)
      /\ hookFaults \in 0..MaxHookFaults /\ MaxHookFaults \in Nat
      /\ HandleTimeout \in Nat /\ QueueSize \in Nat /\ Len(queue) <= QueueSize
      /\ produced \subseteq Hooks /\ lost \subseteq produced /\ retrying \subseteq Pairs
      /\ listed \subseteq Pairs
  BY OutWebhookAssumption DEF WebhookIndInv, WebhookTypeOK, WorkerType
\* A step that delivers nothing and keeps the fresh pairs fresh.
<1>keep. ASSUME UNCHANGED <<attempts, acked, unbuilt, logged, unlogged>>,
                retrying' \subseteq retrying, \A p \in Pairs : Fresh(p)' => Fresh(p)
         PROVE  \A p \in Pairs : PairOk(p)'
  <2>1. ASSUME NEW p \in Pairs PROVE PairOk(p)'
    <3>1. PairOk(p) /\ (Fresh(p)' => Fresh(p))
      BY <1>0, <1>keep
    <3> QED
      BY <1>keep, <3>1 DEF PairOk
  <2> QED
    BY <2>1
<1>1. CASE WebhookOperator
  <2>1. UNCHANGED deliveryVars /\ edits' \in 0..MaxEdits
    <3>1. Edit
      BY <1>1 DEF WebhookOperator, CreateWebhookEndpoint, UpdateWebhookEndpoint,
         DeleteWebhookEndpoint
    <3>2. edits \in 0..MaxEdits /\ MaxEdits \in Nat
      BY <1>0, OutWebhookAssumption DEF WebhookTypeOK
    <3>3. edits < MaxEdits /\ edits' = edits + 1 /\ UNCHANGED deliveryVars
      BY <3>1 DEF Edit
    <3>4. edits' \in 0..MaxEdits
      BY <3>2, <3>3
    <3> QED
      BY <3>3, <3>4
  <2>2. endpoint' \in [Endpoints -> [there: BOOLEAN, active: BOOLEAN, events: SUBSET EventTypes]]
    <3>0. endpoint \in [Endpoints -> [there: BOOLEAN, active: BOOLEAN, events: SUBSET EventTypes]]
      BY <1>0 DEF WebhookTypeOK
    <3>1. ASSUME NEW e \in Endpoints, NEW types \in SUBSET EventTypes, NEW active \in BOOLEAN,
                 CreateWebhookEndpoint(e, active, types)
          PROVE  endpoint' \in [Endpoints -> [there: BOOLEAN, active: BOOLEAN,
                                              events: SUBSET EventTypes]]
      BY <3>0, <3>1 DEF CreateWebhookEndpoint
    <3>2. ASSUME NEW e \in Endpoints, NEW types \in SUBSET EventTypes, NEW active \in BOOLEAN,
                 UpdateWebhookEndpoint(e, active, types)
          PROVE  endpoint' \in [Endpoints -> [there: BOOLEAN, active: BOOLEAN,
                                              events: SUBSET EventTypes]]
      BY <3>0, <3>2 DEF UpdateWebhookEndpoint
    <3>3. ASSUME NEW e \in Endpoints, DeleteWebhookEndpoint(e)
          PROVE  endpoint' \in [Endpoints -> [there: BOOLEAN, active: BOOLEAN,
                                              events: SUBSET EventTypes]]
      BY <3>0, <3>3 DEF DeleteWebhookEndpoint, NoEndpoint
    <3> QED
      BY <1>1, <3>1, <3>2, <3>3 DEF WebhookOperator
  <2>3. WebhookTypeOK'
    BY <1>0, <2>1, <2>2 DEF WebhookTypeOK, deliveryVars
  <2>4. OnePlace'
    BY <1>0, <2>1 DEF OnePlace, deliveryVars
  <2>5. \A p \in Pairs : Fresh(p)' => Fresh(p)
    BY <2>1 DEF Fresh, deliveryVars
  <2> QED
    BY <1>keep, <2>1, <2>3, <2>4, <2>5 DEF WebhookIndInv, deliveryVars
<1>2. ASSUME NEW ev \in Hooks, Dispatch(ev) PROVE WebhookIndInv'
  <2>1. /\ ev \notin produced /\ produced' = produced \cup {ev}
        /\ UNCHANGED <<endpointVars, worker, retrying, attempts, acked, unbuilt, listed, logged,
                       unlogged, hookFaults>>
        /\ \/ Len(queue) < QueueSize /\ queue' = Append(queue, ev) /\ UNCHANGED lost
           \/ lost' = lost \cup {ev} /\ UNCHANGED queue
    BY <1>2 DEF Dispatch
  <2>2. /\ queue' \in Seq(Hooks) /\ Len(queue') <= QueueSize
        /\ Range(queue') \subseteq Range(queue) \cup {ev} /\ IsInjective(queue')
    <3>1. IsInjective(queue) /\ ev \notin Range(queue) /\ Len(queue) \in Nat
      BY <1>0, <2>1 DEF OnePlace
    <3>2. CASE queue' = queue
      BY <1>0, <3>1, <3>2
    <3>3. CASE queue' = Append(queue, ev) /\ Len(queue) < QueueSize
      <4>1. Len(queue) + 1 <= QueueSize
        BY <1>0, <3>1, <3>3
      <4> QED
        BY <1>0, <3>1, <3>3, <4>1, RangeAppend
    <3> QED
      BY <2>1, <3>2, <3>3
  <2>3. WebhookTypeOK'
    BY <1>0, <2>1, <2>2 DEF WebhookTypeOK, endpointVars
  <2>4. OnePlace'
    BY <1>0, <2>1, <2>2 DEF OnePlace
  <2>5. \A p \in Pairs : Fresh(p)' => Fresh(p)
    BY <2>1, <2>2 DEF Fresh
  <2> QED
    BY <1>keep, <2>1, <2>3, <2>4, <2>5 DEF WebhookIndInv
<1>3. ASSUME NEW w \in Workers, TakeEvent(w) PROVE WebhookIndInv'
  <2> DEFINE ev == Head(queue)
             new == [step |-> "list", event |-> {ev}, todo |-> {}, left |-> HandleTimeout]
  <2>1. /\ worker[w].step = "idle" /\ queue # <<>> /\ worker' = [worker EXCEPT ![w] = new]
        /\ queue' = Tail(queue)
        /\ UNCHANGED <<endpointVars, produced, retrying, attempts, acked, unbuilt, listed, logged,
                       lost, unlogged, hookFaults>>
    BY <1>3 DEF TakeEvent
  <2>2. /\ queue' \in Seq(Hooks) /\ Len(queue') <= QueueSize /\ ev \in Hooks
        /\ Range(queue) = {ev} \cup Range(queue') /\ IsInjective(queue')
        /\ ev \notin Range(queue')
    <3>1. IsInjective(queue)
      BY <1>0 DEF OnePlace
    <3>2. Len(queue) \in Nat /\ Len(Tail(queue)) = Len(queue) - 1
      BY <1>0, <2>1, RangeTail
    <3> QED
      BY <1>0, <2>1, <3>1, <3>2, RangeTail
  <2>3. new \in WorkerType /\ new.event = {ev} /\ new.todo = {} /\ new.step = "list"
    BY <1>0, <2>2 DEF WorkerType
  <2> HIDE DEF new, ev
  <2>4. /\ worker' \in [Workers -> WorkerType]
        /\ \A v \in Workers : worker'[v] = IF v = w THEN new ELSE worker[v]
    BY <1>0, <2>1, <2>3, WorkerFrame
  <2>5. WebhookTypeOK'
    BY <1>0, <2>1, <2>2, <2>4 DEF WebhookTypeOK, endpointVars, WorkerType
  <2>6. OnePlace'
    BY <1>0, <2>1, <2>2, <2>3, <2>4 DEF OnePlace
  <2>7. \A p \in Pairs : Fresh(p)' => Fresh(p)
    BY <2>1, <2>2, <2>3, <2>4 DEF Fresh
  <2> QED
    BY <1>keep, <2>1, <2>5, <2>6, <2>7 DEF WebhookIndInv
<1>4. ASSUME NEW w \in Workers, ListWebhookEndpointsForEvent(w) PROVE WebhookIndInv'
  <2>1. PICK ev \in worker[w].event :
          \/ /\ worker' = [worker EXCEPT ![w].step = "post", ![w].todo = Subscribed(ev.type)]
             /\ listed' = listed \cup ({ev} \X Subscribed(ev.type))
             /\ UNCHANGED <<lost, hookFaults>>
          \/ /\ HookFault
             /\ worker' = [worker EXCEPT ![w] = IdleWorker]
             /\ lost' = lost \cup {ev}
             /\ UNCHANGED listed
    BY <1>4 DEF ListWebhookEndpointsForEvent
  <2>2. /\ worker[w].step = "list"
        /\ UNCHANGED <<endpointVars, produced, queue, retrying, attempts, acked, unbuilt, logged,
                       unlogged>>
    BY <1>4 DEF ListWebhookEndpointsForEvent
  <2>3. ev \in Hooks /\ worker[w].event = {ev} /\ worker[w] \in WorkerType /\ ev \in produced
    BY <1>0, WorkerEvent DEF OnePlace
  <2>4. Subscribed(ev.type) \in SUBSET Endpoints
    BY DEF Subscribed
  <2>5. \E new \in WorkerType :
           /\ worker' = [worker EXCEPT ![w] = new]
           /\ \/ new.event = {ev} /\ new.step = "post"
              \/ new.event = {} /\ new.step = "idle" /\ new.todo = {}
    <3>1. CASE worker' = [worker EXCEPT ![w] = IdleWorker]
      BY <3>1, IdleWorkerType
    <3>2. CASE worker' = [worker EXCEPT ![w].step = "post", ![w].todo = Subscribed(ev.type)]
      <4> DEFINE new == [worker[w] EXCEPT !.step = "post", !.todo = Subscribed(ev.type)]
      <4>1. worker' = [worker EXCEPT ![w] = new]
        BY <3>2
      <4>2. new \in WorkerType /\ new.event = {ev} /\ new.step = "post"
        BY <2>3, <2>4 DEF WorkerType
      <4> HIDE DEF new
      <4> QED
        BY <4>1, <4>2
    <3> QED
      BY <2>1, <3>1, <3>2
  <2>6. PICK new \in WorkerType :
           /\ worker' = [worker EXCEPT ![w] = new]
           /\ \/ new.event = {ev} /\ new.step = "post"
              \/ new.event = {} /\ new.step = "idle" /\ new.todo = {}
    BY <2>5
  <2>7. /\ worker' \in [Workers -> WorkerType]
        /\ \A v \in Workers : worker'[v] = IF v = w THEN new ELSE worker[v]
    BY <1>0, <2>6, WorkerFrame
  <2>8. /\ listed' \subseteq Pairs /\ lost' \subseteq produced
        /\ hookFaults' \in 0..MaxHookFaults
    BY <1>0, <2>1, <2>3, <2>4 DEF HookFault, Pairs
  <2>9. WebhookTypeOK'
    BY <1>0, <2>2, <2>7, <2>8 DEF WebhookTypeOK, endpointVars, WorkerType
  <2>10. OnePlace'
    BY <1>0, <2>2, <2>3, <2>6, <2>7 DEF OnePlace
  <2>11. \A p \in Pairs : Fresh(p)' => Fresh(p)
    BY <2>2, <2>3, <2>6, <2>7 DEF Fresh
  <2> QED
    BY <1>keep, <2>2, <2>9, <2>10, <2>11 DEF WebhookIndInv
<1>5. ASSUME NEW w \in Workers, HandleReturns(w) PROVE WebhookIndInv'
  <2>1. /\ worker' = [worker EXCEPT ![w] = IdleWorker]
        /\ UNCHANGED <<endpointVars, produced, queue, retrying, attempts, acked, unbuilt, listed,
                       logged, lost, unlogged, hookFaults>>
    BY <1>5 DEF HandleReturns
  <2>2. /\ worker' \in [Workers -> WorkerType]
        /\ \A v \in Workers : worker'[v] = IF v = w THEN IdleWorker ELSE worker[v]
    BY <1>0, <2>1, IdleWorkerType, WorkerFrame
  <2>3. WebhookTypeOK'
    BY <1>0, <2>1, <2>2 DEF WebhookTypeOK, endpointVars, WorkerType
  <2>4. OnePlace'
    BY <1>0, <2>1, <2>2, IdleWorkerType DEF OnePlace
  <2>5. \A p \in Pairs : Fresh(p)' => Fresh(p)
    BY <2>1, <2>2, IdleWorkerType DEF Fresh
  <2> QED
    BY <1>keep, <2>1, <2>3, <2>4, <2>5 DEF WebhookIndInv
<1>6. ASSUME NEW w \in Workers, NEW e \in Endpoints, DeliverFirst(w, e) PROVE WebhookIndInv'
  <2>1. PICK ev \in worker[w].event, how \in Outcomes(worker[w].left) :
           /\ Deliver(<<ev, e>>, 1, worker[w].left, how, retrying)
           /\ worker' = [worker EXCEPT ![w].todo = @ \ {e}, ![w].left = LeftAfter(how, @)]
    BY <1>6 DEF DeliverFirst
  <2> DEFINE p == <<ev, e>>
             left == worker[w].left
             new == [worker[w] EXCEPT !.todo = @ \ {e}, !.left = LeftAfter(how, left)]
  <2>2. /\ worker[w].step = "post" /\ e \in worker[w].todo
        /\ UNCHANGED <<endpointVars, produced, queue, listed, lost>>
    BY <1>6 DEF DeliverFirst
  <2>3. /\ ev \in Hooks /\ worker[w].event = {ev} /\ worker[w] \in WorkerType
        /\ left \in 0..HandleTimeout /\ ev \in produced /\ ev \notin Range(queue)
        /\ \A v \in Workers \ {w} : ev \notin worker[v].event
    BY <1>0, WorkerEvent DEF OnePlace
  <2>4. p \in Pairs
    BY <2>3 DEF Pairs
  <2>5. attempts[p] = 0 /\ p \notin acked \cup unbuilt \cup retrying
    <3>1. Fresh(p)
      BY <2>2, <2>3 DEF Fresh
    <3> QED
      BY <1>0, <2>4, <3>1 DEF PairOk
  <2>6. worker' = [worker EXCEPT ![w] = new]
    BY <2>1
  <2>7. /\ attempts' \in [Pairs -> Nat]
        /\ \A q \in Pairs : attempts'[q] = IF q = p THEN attempts[p] + 1 ELSE attempts[q]
        /\ acked' \subseteq Pairs /\ unbuilt' \subseteq Pairs /\ retrying' \subseteq Pairs
        /\ logged' \subseteq Pairs \X {1, 2} /\ unlogged' \subseteq Pairs \X {1, 2}
        /\ hookFaults' \in 0..MaxHookFaults
        /\ LeftAfter(how, left) \in 0..HandleTimeout
        /\ logged \subseteq logged' /\ unlogged \subseteq unlogged'
        /\ \A q \in Pairs \ {p} :
              /\ q \in acked' <=> q \in acked
              /\ q \in unbuilt' <=> q \in unbuilt
              /\ q \in retrying' <=> q \in retrying
        /\ p \in retrying' => p \notin acked' \cup unbuilt'
    <3>1. /\ Deliver(p, 1, left, how, retrying) /\ how \in Outcomes(left)
          /\ retrying \in SUBSET Pairs /\ WebhookTypeOK
      BY <1>0, <2>1
    <3> HIDE DEF p, left
    <3>2. /\ p \in retrying' =>
                \/ p \in retrying
                \/ (p \in acked' => p \in acked) /\ (p \in unbuilt' => p \in unbuilt)
      BY <2>3, <2>4, <3>1, DeliverEffect
    <3>3. p \in retrying' => p \notin acked' \cup unbuilt'
      BY <2>5, <3>2
    <3> QED
      BY <2>3, <2>4, <3>1, <3>3, DeliverEffect
  <2>8. /\ new \in WorkerType /\ new.event = {ev} /\ new.step = "post"
        /\ new.todo = worker[w].todo \ {e}
    BY <2>2, <2>3, <2>7 DEF WorkerType
  <2> HIDE DEF new, left, p
  <2>9. /\ worker' \in [Workers -> WorkerType]
        /\ \A v \in Workers : worker'[v] = IF v = w THEN new ELSE worker[v]
    BY <1>0, <2>6, <2>8, WorkerFrame
  <2>10. WebhookTypeOK'
    BY <1>0, <2>2, <2>7, <2>9 DEF WebhookTypeOK, endpointVars, WorkerType
  <2>11. OnePlace'
    BY <1>0, <2>2, <2>3, <2>8, <2>9 DEF OnePlace
  <2>12. ASSUME NEW q \in Pairs PROVE (Fresh(q)' => Fresh(q)) /\ (q = p => ~Fresh(q)')
    <3>1. Fresh(q)' => Fresh(q)
      BY <2>2, <2>3, <2>8, <2>9 DEF Fresh
    <3>2. ~Fresh(p)'
      BY <2>2, <2>3, <2>8, <2>9 DEF Fresh, p
    <3> QED
      BY <3>1, <3>2
  <2>13. ASSUME NEW q \in Pairs PROVE PairOk(q)'
    <3>1. CASE q = p
      BY <2>5, <2>7, <2>12, <3>1 DEF PairOk
    <3>2. CASE q # p
      BY <1>0, <2>7, <2>12, <3>2, PairKeeps
    <3> QED
      BY <3>1, <3>2
  <2> QED
    BY <2>10, <2>11, <2>13 DEF WebhookIndInv
<1>7. ASSUME NEW p \in Pairs, DeliverAgain(p) PROVE WebhookIndInv'
  <2>1. PICK how \in Outcomes(RetryContext) :
           Deliver(p, 2, RetryContext, how, retrying \ {p})
    BY <1>7 DEF DeliverAgain
  <2>2. p \in retrying /\ UNCHANGED <<endpointVars, produced, queue, worker, listed, lost>>
    BY <1>7 DEF DeliverAgain
  <2>3. attempts[p] = 1
    BY <1>0, <2>2 DEF PairOk
  <2>4. RetryContext \in 0..HandleTimeout /\ LeftAfter(how, RetryContext) # 0
    BY OutWebhookAssumption DEF RetryContext, LeftAfter, Least
  <2>5. /\ attempts' \in [Pairs -> Nat]
        /\ \A q \in Pairs : attempts'[q] = IF q = p THEN attempts[p] + 1 ELSE attempts[q]
        /\ acked' \subseteq Pairs /\ unbuilt' \subseteq Pairs /\ retrying' \subseteq Pairs
        /\ logged' \subseteq Pairs \X {1, 2} /\ unlogged' \subseteq Pairs \X {1, 2}
        /\ hookFaults' \in 0..MaxHookFaults
        /\ logged \subseteq logged' /\ unlogged \subseteq unlogged'
        /\ <<p, 2>> \in logged' \cup unlogged'
        /\ \A q \in Pairs \ {p} :
              /\ q \in acked' <=> q \in acked
              /\ q \in unbuilt' <=> q \in unbuilt
              /\ q \in retrying' <=> q \in retrying \ {p}
        /\ p \notin retrying'
    <3> DEFINE others == retrying \ {p}
               left == RetryContext
    <3>1. /\ others \in SUBSET Pairs /\ p \notin others /\ left \in 0..HandleTimeout
          /\ how \in Outcomes(left) /\ Deliver(p, 2, left, how, others)
          /\ LeftAfter(how, left) # 0 /\ WebhookTypeOK
      BY <1>0, <2>1, <2>4
    <3>2. \A q \in Pairs \ {p} : q \in others <=> q \in retrying \ {p}
      OBVIOUS
    <3> HIDE DEF others, left
    <3>3. \A q \in Pairs \ {p} :
              /\ q \in acked' <=> q \in acked
              /\ q \in unbuilt' <=> q \in unbuilt
              /\ q \in retrying' <=> q \in others
      BY <3>1, DeliverEffect
    <3>4. p \notin retrying' /\ <<p, 2>> \in logged' \cup unlogged'
      <4>1. p \in retrying' => p \in others \/ 2 = 1
        BY <3>1, DeliverEffect
      <4>2. LeftAfter(how, left) # 0 => <<p, 2>> \in logged' \cup unlogged'
        BY <3>1, DeliverEffect
      <4> QED
        BY <3>1, <4>1, <4>2
    <3> QED
      BY <3>1, <3>2, <3>3, <3>4, DeliverEffect
  <2>6. WebhookTypeOK'
    BY <1>0, <2>2, <2>5 DEF WebhookTypeOK, endpointVars
  <2>7. OnePlace'
    BY <1>0, <2>2 DEF OnePlace
  <2>8. \A q \in Pairs : Fresh(q)' <=> Fresh(q)
    BY <2>2 DEF Fresh
  <2>9. ASSUME NEW q \in Pairs PROVE PairOk(q)'
    <3>1. CASE q = p
      <4>1. ~Fresh(p) /\ attempts'[p] = 2
        BY <1>0, <2>3, <2>5 DEF PairOk
      <4> QED
        BY <2>5, <2>8, <3>1, <4>1 DEF PairOk
    <3>2. CASE q # p
      BY <1>0, <2>5, <2>8, <3>2, PairKeeps
    <3> QED
      BY <3>1, <3>2
  <2> QED
    BY <2>6, <2>7, <2>9 DEF WebhookIndInv
<1>8. CASE RestartDispatcher
  <2>1. /\ queue' = <<>> /\ worker' = [w \in Workers |-> IdleWorker] /\ retrying' = {}
        /\ UNCHANGED <<endpointVars, produced, attempts, acked, unbuilt, listed, logged, unlogged>>
        /\ lost' = lost \cup {queue[i] : i \in DOMAIN queue}
                        \cup (UNION {worker[w].event : w \in Workers})
                        \cup {q[1] : q \in retrying}
        /\ hookFaults' \in 0..MaxHookFaults
    BY <1>0, <1>8 DEF RestartDispatcher, HookFault
  <2>2. /\ queue' \in Seq(Hooks) /\ Len(queue') = 0 /\ Range(queue') = {} /\ IsInjective(queue')
    BY <2>1 DEF Range, IsInjective
  <2>3. worker' \in [Workers -> WorkerType] /\ \A w \in Workers : worker'[w] = IdleWorker
    BY <2>1, IdleWorkerType
  <2>4. lost' \subseteq produced
    <3>1. {queue[i] : i \in DOMAIN queue} \subseteq produced
      BY <1>0 DEF OnePlace, Range
    <3>2. UNION {worker[w].event : w \in Workers} \subseteq produced
      BY <1>0 DEF OnePlace
    <3>3. ASSUME NEW q \in retrying PROVE q[1] \in produced
      <4>1. q \in Pairs /\ PairOk(q)
        BY <1>0, <3>3
      <4>2. attempts[q] = 1 /\ ~ Fresh(q)
        <5>1. attempts[q] = 1 /\ (Fresh(q) => attempts[q] = 0)
          BY <3>3, <4>1 DEF PairOk
        <5> QED
          BY <5>1
      <4> QED
        BY <4>2 DEF Fresh
    <3>4. {q[1] : q \in retrying} \subseteq produced
      BY <3>3
    <3>5. /\ lost \subseteq produced /\ produced' = produced
          /\ lost' = lost \cup {queue[i] : i \in DOMAIN queue}
                          \cup (UNION {worker[w].event : w \in Workers})
                          \cup {q[1] : q \in retrying}
      BY <1>0, <2>1
    <3> DEFINE inQueue == {queue[i] : i \in DOMAIN queue}
               inWork == UNION {worker[w].event : w \in Workers}
               inRetry == {q[1] : q \in retrying}
    <3>6. lost' = lost \cup inQueue \cup inWork \cup inRetry
      BY <3>5, Zenon
    <3>7. inQueue \subseteq produced
      BY <3>1
    <3>8. inWork \subseteq produced
      BY <3>2
    <3>9. inRetry \subseteq produced
      BY <3>4
    <3> HIDE DEF inQueue, inWork, inRetry
    <3> QED
      BY <3>5, <3>6, <3>7, <3>8, <3>9
  <2>5. WebhookTypeOK'
    BY <1>0, <2>1, <2>2, <2>3, <2>4 DEF WebhookTypeOK, endpointVars, WorkerType
  <2>6. OnePlace'
    BY <1>0, <2>1, <2>2, <2>3, IdleWorkerType DEF OnePlace
  <2>7. \A p \in Pairs : Fresh(p)' => Fresh(p)
    BY <2>1, <2>2, <2>3, IdleWorkerType DEF Fresh
  <2> QED
    BY <1>keep, <2>1, <2>5, <2>6, <2>7 DEF WebhookIndInv
<1>9. CASE UNCHANGED webhookVars
  <2>1. \A p \in Pairs : Fresh(p)' => Fresh(p)
    BY <1>9 DEF Fresh, webhookVars, endpointVars, deliveryVars
  <2> QED
    BY <1>0, <1>9, <1>keep, <2>1 DEF webhookVars, endpointVars, deliveryVars, WebhookIndInv,
       WebhookTypeOK, OnePlace
<1> QED
  BY <1>1, <1>2, <1>3, <1>4, <1>5, <1>6, <1>7, <1>8, <1>9 DEF WebhookNext, WorkerProceeds

\* An endpoint is sent an event at most twice and never again once it answered,
\* and what failed twice is on record or its record was kept out by a fault or a
\* deletion: whatever order workers, retries, edits and restarts come in, and
\* whatever the first attempt left of the event's time (deliver, maybeRetry,
\* LogWebhookDelivery).
THEOREM WebhooksAreSafe == WebhookSpec => []WebhookInv
<1>1. WebhookIndInv => WebhookInv
  <2> SUFFICES ASSUME WebhookIndInv PROVE WebhookInv
    OBVIOUS
  <2>1. ASSUME NEW p \in Pairs PROVE attempts[p] <= 2
    <3>1. attempts[p] \in {0, 1, 2}
      BY DEF WebhookIndInv, PairOk
    <3> QED
      BY <3>1
  <2>2. retrying \cap (acked \cup unbuilt) = {}
    BY DEF WebhookIndInv, PairOk, WebhookTypeOK
  <2>3. FailedTwiceIsLogged
    BY DEF WebhookIndInv, PairOk, FailedTwiceIsLogged
  <2> QED
    BY <2>1, <2>2, <2>3 DEF WebhookIndInv, WebhookInv, AtMostOneRetry
<1> QED
  BY <1>1, WebhookIndInit, WebhookIndStep, PTL DEF WebhookSpec

-----------------------------------------------------------------------------
(* What subscribers are told of a call *)

RowType == [status: {"dialing", "answered", "completed", "failed"}, outcome: AllOutcomes]
MarksType == [action: Actions \cup {Keep}, lead: {Keep, "contacted", "callback"},
              call: AllOutcomes]

\* The parts of the row and the history that one call relates.  A call that was
\* not answered has no marks, so only such a call can be given a cause; the hook
\* starts when the row is final and reads it once.
CallOk(c) ==
    /\ row[c].status = "dialing" => tool[c] = NoTool /\ marked[c] = Keep
    /\ ari[c] = "up" => row[c].status \in {"dialing", "answered"}
    /\ ari[c] \in Causes => row[c].status = "dialing"
    /\ marked[c] # Keep => row[c].outcome = marked[c]
    /\ c \notin unfinished =>
          /\ hook[c] = "none" <=> ari[c] # "idle"
          /\ told[c] = NotTold <=> hook[c] \in {"none", "due"}
          /\ hook[c] = "qualified" => told[c] = "qualified"
          /\ hook[c] = "done" /\ told[c] = "qualified" => Qualified(c) \in offered
          /\ told[c] # NotTold /\ c \notin late => row[c].outcome = told[c]

CallIndInv == CallTypeOK /\ \A c \in Calls : CallOk(c)

LEMMA NoToolType == NoTool \in MarksType /\ NoTool.lead = Keep /\ NoTool.call = Keep
BY DEF NoTool, MarksType, AllOutcomes

LEMMA CallTyping ==
    CallTypeOK <=>
        /\ row \in [Calls -> RowType] /\ lead \in [Calls -> {"new", "contacted", "callback"}]
        /\ enabled \subseteq Actions /\ tool \in [Calls -> MarksType]
        /\ tools \in [Calls -> 0..MaxTools]
        /\ ari \in [Calls -> {"up", "idle"} \cup Causes \cup {Keep}]
        /\ hook \in [Calls -> {"none", "due", "qualified", "done"}]
        /\ told \in [Calls -> AllOutcomes \cup {NotTold}] /\ marked \in [Calls -> AllOutcomes]
        /\ late \subseteq Calls /\ unfinished \subseteq Calls
        /\ outbox \in Seq(CallEvents) /\ Len(outbox) <= OutboxSize
        /\ offered \subseteq CallEvents
        /\ switches \in 0..MaxSwitches /\ callFaults \in 0..MaxCallFaults
BY DEF CallTypeOK, RowType, MarksType

LEMMA CallIndInit == CallInit => CallIndInv
<1> SUFFICES ASSUME CallInit PROVE CallIndInv
  OBVIOUS
<1>1. /\ row \in [Calls -> RowType] /\ tool \in [Calls -> MarksType]
      /\ lead \in [Calls -> {"new", "contacted", "callback"}]
  BY NoToolType DEF CallInit, RowType, AllOutcomes
<1>2. /\ tools \in [Calls -> 0..MaxTools] /\ switches \in 0..MaxSwitches
      /\ callFaults \in 0..MaxCallFaults
  BY CallOutcomeAssumption DEF CallInit
<1>3. /\ ari \in [Calls -> {"up", "idle"} \cup Causes \cup {Keep}]
      /\ hook \in [Calls -> {"none", "due", "qualified", "done"}]
      /\ told \in [Calls -> AllOutcomes \cup {NotTold}] /\ marked \in [Calls -> AllOutcomes]
  BY DEF CallInit, AllOutcomes
<1>4. /\ outbox \in Seq(CallEvents) /\ Len(outbox) <= OutboxSize /\ offered \subseteq CallEvents
      /\ late \subseteq Calls /\ unfinished \subseteq Calls /\ enabled \subseteq Actions
  BY CallOutcomeAssumption DEF CallInit
<1>5. CallTypeOK
  BY <1>1, <1>2, <1>3, <1>4, CallTyping
<1>6. ASSUME NEW c \in Calls PROVE CallOk(c)
  BY DEF CallInit, CallOk, Causes, Keep, NotTold
<1> QED
  BY <1>5, <1>6 DEF CallIndInv

\* A call nothing happens to.
LEMMA CallKeeps ==
    ASSUME NEW c \in Calls, CallOk(c), row'[c] = row[c], tool'[c] = tool[c], ari'[c] = ari[c],
           hook'[c] = hook[c], told'[c] = told[c], marked'[c] = marked[c],
           c \in late' <=> c \in late, c \in unfinished' <=> c \in unfinished,
           offered \subseteq offered'
    PROVE  CallOk(c)'
BY DEF CallOk

LEMMA DispatchEventEffect ==
    ASSUME CallTypeOK, NEW ev \in CallEvents, DispatchEvent(ev)
    PROVE  /\ outbox' \in Seq(CallEvents) /\ Len(outbox') <= OutboxSize
           /\ offered' = offered \cup {ev} /\ offered' \subseteq CallEvents
<1>1. /\ outbox \in Seq(CallEvents) /\ Len(outbox) <= OutboxSize /\ offered \subseteq CallEvents
      /\ OutboxSize \in Nat
  BY CallOutcomeAssumption DEF CallTypeOK
<1>2. /\ Append(outbox, ev) \in Seq(CallEvents) /\ Len(outbox) \in Nat
      /\ Len(Append(outbox, ev)) = Len(outbox) + 1
  BY <1>1, RangeAppend
<1>3. Len(outbox) < OutboxSize => Len(outbox) + 1 <= OutboxSize
  BY <1>1, <1>2
<1> QED
  BY <1>1, <1>2, <1>3 DEF DispatchEvent

LEMMA CallFaultType ==
    ASSUME CallTypeOK, CallFault \/ UNCHANGED callFaults
    PROVE  callFaults' \in 0..MaxCallFaults
<1>1. callFaults \in 0..MaxCallFaults /\ MaxCallFaults \in Nat
  BY CallOutcomeAssumption DEF CallTypeOK
<1> QED
  BY <1>1 DEF CallFault

LEMMA CallIndStep == CallIndInv /\ [CallNext]_callVars => CallIndInv'
<1> SUFFICES ASSUME CallIndInv, [CallNext]_callVars PROVE CallIndInv'
  OBVIOUS
<1>0. /\ CallTypeOK /\ \A c \in Calls : CallOk(c)
      /\ row \in [Calls -> RowType] /\ lead \in [Calls -> {"new", "contacted", "callback"}]
      /\ enabled \subseteq Actions /\ tool \in [Calls -> MarksType]
      /\ tools \in [Calls -> 0..MaxTools]
      /\ ari \in [Calls -> {"up", "idle"} \cup Causes \cup {Keep}]
      /\ hook \in [Calls -> {"none", "due", "qualified", "done"}]
      /\ told \in [Calls -> AllOutcomes \cup {NotTold}] /\ marked \in [Calls -> AllOutcomes]
      /\ late \subseteq Calls /\ unfinished \subseteq Calls
      /\ outbox \in Seq(CallEvents) /\ Len(outbox) <= OutboxSize /\ offered \subseteq CallEvents
      /\ switches \in 0..MaxSwitches /\ callFaults \in 0..MaxCallFaults
  BY CallTyping DEF CallIndInv
\* One call's step: the other calls keep their parts.
<1>one. ASSUME NEW c \in Calls, CallTypeOK', CallOk(c)', offered \subseteq offered',
               \A d \in Calls \ {c} :
                  /\ row'[d] = row[d] /\ tool'[d] = tool[d] /\ ari'[d] = ari[d]
                  /\ hook'[d] = hook[d] /\ told'[d] = told[d] /\ marked'[d] = marked[d]
                  /\ d \in late' <=> d \in late
                  /\ d \in unfinished' <=> d \in unfinished
        PROVE  CallIndInv'
  <2>1. ASSUME NEW d \in Calls PROVE CallOk(d)'
    <3>1. CASE d = c
      BY <1>one, <3>1
    <3>2. CASE d # c
      BY <1>0, <1>one, <3>2, CallKeeps
    <3> QED
      BY <3>1, <3>2
  <2> QED
    BY <1>one, <2>1 DEF CallIndInv
<1>1. ASSUME NEW a \in Actions, SwitchTool(a) PROVE CallIndInv'
  <2>1. /\ UNCHANGED <<row, lead, tool, tools, ari, hook, told, marked, late, unfinished,
                       outbox, offered, callFaults>>
        /\ switches < MaxSwitches /\ switches' = switches + 1
    BY <1>1 DEF SwitchTool
  <2>2. switches' \in 0..MaxSwitches
    BY <1>0, <2>1, CallOutcomeAssumption
  <2>3. enabled' \subseteq Actions
    BY <1>0, <1>1 DEF SwitchTool
  <2>4. CallTypeOK'
    BY <1>0, <2>1, <2>2, <2>3 DEF CallTypeOK
  <2>5. ASSUME NEW c \in Calls PROVE CallOk(c)'
    BY <1>0, <2>1, CallKeeps
  <2> QED
    BY <2>4, <2>5 DEF CallIndInv
<1>2. ASSUME NEW c \in Calls, CallAnswered(c) PROVE CallIndInv'
  <2> DEFINE new == [row[c] EXCEPT !.status = "answered"]
  <2>1. /\ ari[c] = "up" /\ row' = [row EXCEPT ![c] = new]
        /\ UNCHANGED <<lead, enabled, tool, tools, ari, hook, told, marked, late, unfinished,
                       outbox, offered, switches, callFaults>>
    BY <1>2 DEF CallAnswered
  <2>2. new \in RowType /\ new.status = "answered" /\ new.outcome = row[c].outcome
    BY <1>0 DEF RowType
  <2> HIDE DEF new
  <2>3. /\ row' \in [Calls -> RowType] /\ row'[c] = new
        /\ \A d \in Calls \ {c} : row'[d] = row[d]
    BY <1>0, <2>1, <2>2
  <2>4. CallTypeOK'
    BY <1>0, <2>1, <2>3 DEF CallTypeOK, RowType
  <2>5. CallOk(c)'
    BY <1>0, <2>1, <2>2, <2>3 DEF CallOk, Causes
  <2> QED
    BY <1>one, <2>1, <2>3, <2>4, <2>5
<1>3. ASSUME NEW c \in Calls, NEW a \in Actions, ToolInvoke(c, a) PROVE CallIndInv'
  <2>1. PICK m \in Marks(c, a) : tool' = [tool EXCEPT ![c] = m]
    BY <1>3 DEF ToolInvoke
  <2>2. /\ row[c].status # "dialing" /\ tools[c] < MaxTools
        /\ tools' = [tools EXCEPT ![c] = @ + 1]
        /\ UNCHANGED <<row, lead, enabled, ari, hook, told, marked, late, unfinished,
                       outbox, offered, switches, callFaults>>
    BY <1>3 DEF ToolInvoke
  <2>3. m \in MarksType
    BY <2>1 DEF Marks, MarksType, ToolOutcomes, AllOutcomes, Actions
  <2>4. tool' \in [Calls -> MarksType] /\ \A d \in Calls \ {c} : tool'[d] = tool[d]
    BY <1>0, <2>1, <2>3
  <2>5. tools' \in [Calls -> 0..MaxTools]
    <3>1. tools[c] + 1 \in 0..MaxTools
      BY <1>0, <2>2, CallOutcomeAssumption
    <3> QED
      BY <1>0, <2>2, <3>1
  <2>6. CallTypeOK'
    BY <1>0, <2>2, <2>4, <2>5 DEF CallTypeOK, MarksType
  <2>7. CallOk(c)'
    BY <1>0, <2>2 DEF CallOk
  <2> QED
    BY <1>one, <2>2, <2>4, <2>6, <2>7
<1>4. ASSUME NEW c \in Calls, UpdateLeadStatus(c) PROVE CallIndInv'
  <2> DEFINE new == IF tool[c].call = Keep THEN NoTool ELSE [tool[c] EXCEPT !.lead = Keep]
  <2>1. /\ tool[c].lead # Keep /\ tool' = [tool EXCEPT ![c] = new]
        /\ UNCHANGED <<row, enabled, tools, ari, hook, told, marked, late, unfinished,
                       outbox, offered, switches>>
    BY <1>4 DEF UpdateLeadStatus
  <2>2. new \in MarksType
    BY <1>0, NoToolType DEF MarksType
  <2> HIDE DEF new
  <2>3. tool' \in [Calls -> MarksType] /\ \A d \in Calls \ {c} : tool'[d] = tool[d]
    BY <1>0, <2>1, <2>2
  <2>4. lead' \in [Calls -> {"new", "contacted", "callback"}]
    <3>1. tool[c].lead \in {"contacted", "callback"}
      BY <1>0, <2>1 DEF MarksType
    <3> QED
      BY <1>0, <1>4, <3>1 DEF UpdateLeadStatus
  <2>5. callFaults' \in 0..MaxCallFaults
    BY <1>0, <1>4, CallFaultType DEF UpdateLeadStatus
  <2>6. CallTypeOK'
    BY <1>0, <2>1, <2>3, <2>4, <2>5 DEF CallTypeOK, MarksType
  <2>7. row[c].status # "dialing"
    BY <1>0, <2>1, NoToolType DEF CallOk
  <2>8. CallOk(c)'
    BY <1>0, <2>1, <2>7 DEF CallOk
  <2> QED
    BY <1>one, <2>1, <2>3, <2>6, <2>8
<1>5. ASSUME NEW c \in Calls, UpdateCallOutcome(c) PROVE CallIndInv'
  <2> DEFINE v == tool[c].call
             new == [row[c] EXCEPT !.outcome = v]
  <2>1. /\ v # Keep /\ tool' = [tool EXCEPT ![c] = NoTool]
        /\ UNCHANGED <<lead, enabled, tools, ari, hook, told, unfinished, outbox, offered,
                       switches>>
        /\ \/ /\ row' = [row EXCEPT ![c] = new] /\ marked' = [marked EXCEPT ![c] = v]
              /\ late' = IF told[c] # NotTold THEN late \cup {c} ELSE late
           \/ UNCHANGED <<row, marked, late>>
    BY <1>5 DEF UpdateCallOutcome
  <2>2. new \in RowType /\ new.status = row[c].status /\ new.outcome = v /\ v \in AllOutcomes
    <3>1. row[c] \in RowType /\ v \in AllOutcomes
      BY <1>0 DEF MarksType
    <3> HIDE DEF v
    <3> QED
      BY <3>1 DEF RowType
  <2>3. row[c].status # "dialing"
    BY <1>0, <2>1, NoToolType DEF CallOk
  <2> HIDE DEF v, new
  <2>4. tool' \in [Calls -> MarksType] /\ \A d \in Calls \ {c} : tool'[d] = tool[d]
    BY <1>0, <2>1, NoToolType
  <2>5. callFaults' \in 0..MaxCallFaults
    BY <1>0, <1>5, CallFaultType DEF UpdateCallOutcome
  <2>6. CASE /\ row' = [row EXCEPT ![c] = new] /\ marked' = [marked EXCEPT ![c] = v]
             /\ late' = IF told[c] # NotTold THEN late \cup {c} ELSE late
    <3>1. /\ row' \in [Calls -> RowType] /\ marked' \in [Calls -> AllOutcomes]
          /\ late' \subseteq Calls /\ row'[c] = new /\ marked'[c] = v
          /\ told[c] # NotTold => c \in late'
          /\ \A d \in Calls \ {c} :
                row'[d] = row[d] /\ marked'[d] = marked[d] /\ (d \in late' <=> d \in late)
      BY <1>0, <2>2, <2>6
    <3>2. CallTypeOK'
      BY <1>0, <2>1, <2>4, <2>5, <3>1 DEF CallTypeOK, RowType, MarksType
    <3>3. CallOk(c)'
      BY <1>0, <2>1, <2>2, <2>3, <3>1 DEF CallOk
    <3> QED
      BY <1>one, <2>1, <2>4, <3>1, <3>2, <3>3
  <2>7. CASE UNCHANGED <<row, marked, late>>
    <3>2. CallTypeOK'
      BY <1>0, <2>1, <2>4, <2>5, <2>7 DEF CallTypeOK, MarksType
    <3>3. CallOk(c)'
      BY <1>0, <2>1, <2>3, <2>7 DEF CallOk
    <3> QED
      BY <1>one, <2>1, <2>4, <2>7, <3>2, <3>3
  <2> QED
    BY <2>1, <2>6, <2>7
<1>6. ASSUME NEW c \in Calls, NEW cause \in Causes \cup {Keep}, ChannelDestroyed(c, cause)
      PROVE  CallIndInv'
  <2>1. /\ ari[c] = "up" /\ (row[c].status = "answered" => cause = Keep)
        /\ ari' = [ari EXCEPT ![c] = cause]
        /\ \/ UNCHANGED <<hook, unfinished>>
           \/ hook' = [hook EXCEPT ![c] = "done"] /\ unfinished' = unfinished \cup {c}
        /\ UNCHANGED <<row, lead, enabled, tool, tools, told, marked, late, outbox, offered,
                       switches>>
    BY <1>6 DEF ChannelDestroyed, DestroyedCause
  <2>2. callFaults' \in 0..MaxCallFaults
    BY <1>0, <1>6, CallFaultType DEF ChannelDestroyed
  <2>3. /\ ari' \in [Calls -> {"up", "idle"} \cup Causes \cup {Keep}] /\ ari'[c] = cause
        /\ \A d \in Calls \ {c} : ari'[d] = ari[d]
        /\ cause # "idle" /\ cause # "up"
    BY <1>0, <2>1 DEF Causes, Keep
  <2>4. /\ hook' \in [Calls -> {"none", "due", "qualified", "done"}] /\ unfinished' \subseteq Calls
        /\ \A d \in Calls \ {c} :
              hook'[d] = hook[d] /\ (d \in unfinished' <=> d \in unfinished)
        /\ c \notin unfinished' => hook'[c] = hook[c] /\ c \notin unfinished
    BY <1>0, <2>1
  <2>5. CallTypeOK'
    BY <1>0, <2>1, <2>2, <2>3, <2>4 DEF CallTypeOK
  <2>6. cause \in Causes => row[c].status = "dialing"
    <3>1. row[c].status = "dialing" \/ row[c].status = "answered"
      BY <1>0, <2>1 DEF CallOk
    <3> QED
      BY <2>1, <3>1 DEF Causes, Keep
  <2>7. CallOk(c)'
    BY <1>0, <2>1, <2>3, <2>4, <2>6 DEF CallOk
  <2> QED
    BY <1>one, <2>1, <2>3, <2>4, <2>5, <2>7

<1>7. ASSUME NEW c \in Calls, FinishCall(c) PROVE CallIndInv'
  <2> DEFINE new == [status |-> IF ari[c] = "unreachable" THEN "failed" ELSE "completed",
                     outcome |-> FinalOutcome(row[c].outcome, ari[c])]
  <2>1. /\ ari[c] \in Causes \cup {Keep} /\ ari' = [ari EXCEPT ![c] = "idle"]
        /\ hook' = [hook EXCEPT ![c] = IF @ = "none" THEN "due" ELSE @]
        /\ \/ row' = [row EXCEPT ![c] = new] /\ UNCHANGED unfinished
           \/ unfinished' = unfinished \cup {c} /\ UNCHANGED row
        /\ UNCHANGED <<lead, enabled, tool, tools, told, marked, late, outbox, offered, switches>>
    BY <1>7 DEF FinishCall, DueAfter
  <2>2. callFaults' \in 0..MaxCallFaults
    BY <1>0, <1>7, CallFaultType DEF FinishCall
  <2>3. /\ new \in RowType /\ new.status \notin {"dialing", "answered"}
        /\ marked[c] # Keep => new.outcome = marked[c]
    <3>1. row[c].outcome \in AllOutcomes /\ ari[c] \in AllOutcomes
      BY <1>0, <2>1 DEF RowType, AllOutcomes
    <3>2. marked[c] # Keep => ari[c] = Keep /\ row[c].outcome = marked[c]
      BY <1>0, <2>1 DEF CallOk
    <3> QED
      BY <3>1, <3>2 DEF RowType, FinalOutcome
  <2> HIDE DEF new
  <2>4. /\ ari' \in [Calls -> {"up", "idle"} \cup Causes \cup {Keep}] /\ ari'[c] = "idle"
        /\ \A d \in Calls \ {c} : ari'[d] = ari[d]
    BY <1>0, <2>1
  <2>5. /\ hook' \in [Calls -> {"none", "due", "qualified", "done"}] /\ hook'[c] # "none"
        /\ hook[c] = "none" => hook'[c] = "due"
        /\ \A d \in Calls \ {c} : hook'[d] = hook[d]
    BY <1>0, <2>1
  <2>6. /\ row' \in [Calls -> RowType] /\ unfinished' \subseteq Calls
        /\ row'[c] = new \/ (row'[c] = row[c] /\ c \in unfinished')
        /\ c \in unfinished => c \in unfinished'
        /\ \A d \in Calls \ {c} : row'[d] = row[d] /\ (d \in unfinished' <=> d \in unfinished)
    BY <1>0, <2>1, <2>3
  <2>7. CallTypeOK'
    BY <1>0, <2>1, <2>2, <2>4, <2>5, <2>6 DEF CallTypeOK, RowType
  <2>8. ari[c] # "idle"
    BY <2>1 DEF Causes, Keep
  <2>9. CallOk(c)'
    <3>1. /\ row'[c].status = "dialing" => tool'[c] = NoTool /\ marked'[c] = Keep
          /\ marked'[c] # Keep => row'[c].outcome = marked'[c]
      BY <1>0, <2>1, <2>3, <2>6 DEF CallOk
    <3>2. ASSUME c \notin unfinished'
          PROVE  hook'[c] = "due" /\ told'[c] = NotTold
      BY <1>0, <2>1, <2>5, <2>6, <2>8, <3>2 DEF CallOk
    <3> QED
      BY <2>4, <3>1, <3>2 DEF CallOk, Causes
  <2> QED
    BY <1>one, <2>1, <2>4, <2>5, <2>6, <2>7, <2>9
<1>8. ASSUME NEW c \in Calls, OnCallFinished(c) PROVE CallIndInv'
  <2> DEFINE v == row[c].outcome
             next == IF v = "qualified" THEN "qualified" ELSE "done"
  <2>1. /\ hook[c] = "due"
        /\ UNCHANGED <<row, lead, enabled, tool, tools, ari, marked, late, switches>>
    BY <1>8 DEF OnCallFinished
  <2>2. callFaults' \in 0..MaxCallFaults
    BY <1>0, <1>8, CallFaultType DEF OnCallFinished
  <2>3. CASE /\ told' = [told EXCEPT ![c] = v] /\ DispatchEvent(Completed(c))
             /\ hook' = [hook EXCEPT ![c] = next] /\ UNCHANGED unfinished
    <3>1. v \in AllOutcomes /\ v # NotTold
      BY <1>0 DEF RowType, AllOutcomes, ToolOutcomes, Causes, Keep, NotTold
    <3>2. Completed(c) \in CallEvents
      BY DEF Completed, CallEvents
    <3>3. /\ outbox' \in Seq(CallEvents) /\ Len(outbox') <= OutboxSize
          /\ offered \subseteq offered' /\ offered' \subseteq CallEvents
      BY <1>0, <2>3, <3>2, DispatchEventEffect
    <3>4. next \in {"qualified", "done"} /\ (next = "qualified" <=> v = "qualified")
      OBVIOUS
    <3> HIDE DEF v, next
    <3>5. /\ told' \in [Calls -> AllOutcomes \cup {NotTold}] /\ told'[c] = v
          /\ hook' \in [Calls -> {"none", "due", "qualified", "done"}] /\ hook'[c] = next
          /\ \A d \in Calls \ {c} : told'[d] = told[d] /\ hook'[d] = hook[d]
      BY <1>0, <2>3, <3>1, <3>4
    <3>6. CallTypeOK'
      BY <1>0, <2>1, <2>2, <2>3, <3>3, <3>5 DEF CallTypeOK, RowType, MarksType
    <3>7. row'[c].outcome = v
      BY <2>1 DEF v
    <3>8. CallOk(c)'
      BY <1>0, <2>1, <2>3, <3>1, <3>4, <3>5, <3>7 DEF CallOk
    <3> QED
      BY <1>one, <2>1, <2>3, <3>3, <3>5, <3>6, <3>8
  <2>4. CASE /\ hook' = [hook EXCEPT ![c] = "done"] /\ unfinished' = unfinished \cup {c}
             /\ UNCHANGED <<told, outbox, offered>>
    <3>1. /\ hook' \in [Calls -> {"none", "due", "qualified", "done"}]
          /\ unfinished' \subseteq Calls /\ c \in unfinished'
          /\ \A d \in Calls \ {c} :
                hook'[d] = hook[d] /\ (d \in unfinished' <=> d \in unfinished)
      BY <1>0, <2>4
    <3>2. CallTypeOK'
      BY <1>0, <2>1, <2>2, <2>4, <3>1 DEF CallTypeOK
    <3>3. CallOk(c)'
      BY <1>0, <2>1, <2>4, <3>1 DEF CallOk
    <3> QED
      BY <1>one, <2>1, <2>4, <3>1, <3>2, <3>3
  <2> QED
    BY <1>8, <2>3, <2>4 DEF OnCallFinished
<1>9. ASSUME NEW c \in Calls, DispatchQualified(c) PROVE CallIndInv'
  <2>1. /\ hook[c] = "qualified" /\ DispatchEvent(Qualified(c))
        /\ hook' = [hook EXCEPT ![c] = "done"]
        /\ UNCHANGED <<row, lead, enabled, tool, tools, ari, told, marked, late, unfinished,
                       switches, callFaults>>
    BY <1>9 DEF DispatchQualified
  <2>2. Qualified(c) \in CallEvents
    BY DEF Qualified, CallEvents
  <2>3. /\ outbox' \in Seq(CallEvents) /\ Len(outbox') <= OutboxSize
        /\ offered \subseteq offered' /\ offered' \subseteq CallEvents
        /\ Qualified(c) \in offered'
    BY <1>0, <2>1, <2>2, DispatchEventEffect
  <2>4. /\ hook' \in [Calls -> {"none", "due", "qualified", "done"}] /\ hook'[c] = "done"
        /\ \A d \in Calls \ {c} : hook'[d] = hook[d]
    BY <1>0, <2>1
  <2>5. CallTypeOK'
    BY <1>0, <2>1, <2>3, <2>4 DEF CallTypeOK
  <2>6. CallOk(c)'
    BY <1>0, <2>1, <2>3, <2>4 DEF CallOk
  <2> QED
    BY <1>one, <2>1, <2>3, <2>4, <2>5, <2>6
<1>10. CASE WorkerTakes
  <2>1. /\ outbox # <<>> /\ outbox' = Tail(outbox)
        /\ UNCHANGED <<row, lead, enabled, tool, tools, ari, hook, told, marked, late, unfinished,
                       offered, switches, callFaults>>
    BY <1>10 DEF WorkerTakes
  <2>2. outbox' \in Seq(CallEvents) /\ Len(outbox') <= OutboxSize
    <3>1. /\ Tail(outbox) \in Seq(CallEvents) /\ Len(Tail(outbox)) = Len(outbox) - 1
          /\ Len(outbox) \in Nat
      BY <1>0, <2>1, RangeTail
    <3> QED
      BY <1>0, <2>1, <3>1, CallOutcomeAssumption
  <2>3. CallTypeOK'
    BY <1>0, <2>1, <2>2 DEF CallTypeOK
  <2>4. ASSUME NEW c \in Calls PROVE CallOk(c)'
    BY <1>0, <2>1, CallKeeps
  <2> QED
    BY <2>3, <2>4 DEF CallIndInv
<1>11. CASE UNCHANGED callVars
  <2>1. ASSUME NEW c \in Calls PROVE CallOk(c)'
    BY <1>0, <1>11, CallKeeps DEF callVars
  <2>2. CallTypeOK'
    BY <1>0, <1>11 DEF callVars, CallTypeOK
  <2> QED
    BY <2>1, <2>2 DEF CallIndInv
<1> QED
  BY <1>1, <1>2, <1>3, <1>4, <1>5, <1>6, <1>7, <1>8, <1>9, <1>10, <1>11
     DEF CallNext, CallProceeds

\* What subscribers are told of a call is the outcome its row keeps, and a call
\* that a tool marked qualified is told, and offered to the dispatcher, as
\* qualified: in whatever order tool requests, the end of the channel and the
\* hook interleave (FinishCall, OnCallFinished, executeToolAction).
THEOREM OutcomesAreTold == CallSpec => []OutcomeInv
<1>1. CallIndInv => OutcomeInv
  <2> SUFFICES ASSUME CallIndInv PROVE OutcomeInv
    OBVIOUS
  <2>1. CallTypeOK /\ \A c \in Calls : CallOk(c)
    BY DEF CallIndInv
  <2>2. ToldIsWhatTheRowSays
    BY <2>1 DEF ToldIsWhatTheRowSays, CallOk
  <2>3. ASSUME NEW c \in Calls, hook[c] = "done", marked[c] = "qualified",
               c \notin late \cup unfinished
        PROVE  told[c] = "qualified" /\ Qualified(c) \in offered
    <3>1. told[c] # NotTold
      BY <2>1, <2>3 DEF CallOk
    <3>2. row[c].outcome = told[c] /\ row[c].outcome = "qualified"
      BY <2>1, <2>3, <3>1 DEF CallOk, Keep
    <3> QED
      BY <2>1, <2>3, <3>2 DEF CallOk
  <2> QED
    BY <2>1, <2>2, <2>3 DEF OutcomeInv, QualifiedIsReported
<1> QED
  BY <1>1, CallIndInit, CallIndStep, PTL DEF CallSpec
=============================================================================
