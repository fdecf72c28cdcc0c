------------------------------ MODULE OutWebhook ------------------------------
(***************************************************************************)
(* The dispatcher of outgoing webhooks (outwebhook.go), the endpoints a    *)
(* tenant configures (webhooks.go, handlers_webhooks.go) and the log of    *)
(* deliveries: the bounded queue, the workers, the one retry in a          *)
(* goroutine of its own, and the two timeouts, one for each POST and one   *)
(* for all the POSTs of an event.                                          *)
(*                                                                         *)
(* One tenant.  The receivers are external: a POST is answered well, is    *)
(* refused, or times out.  Payloads, signatures, secrets and URLs are left *)
(* out.  The producer of the events is in module CallOutcome.              *)
(***************************************************************************)
EXTENDS Integers, Sequences, FiniteSets

CONSTANTS
    Hooks,          \* the events that may be dispatched: records with a type
    EventTypes,     \* event types an endpoint can subscribe to
    Endpoints,      \* webhook_endpoints ids
    FirstEndpoints, \* the ones there at first, active and subscribed to everything
    Workers,        \* goroutines of the dispatcher (4)
    QueueSize,      \* capacity of Dispatcher.ch (1024)
    PostTimeout,    \* http.Client.Timeout (8 s)
    HandleTimeout,  \* timeout of the context of an event, or of a retry (20 s)
    MaxEdits,       \* bound: changes of the endpoints
    MaxHookFaults   \* bound: failed statements and restarts

ASSUME OutWebhookAssumption ==
    /\ \A ev \in Hooks : ev.type \in EventTypes
    /\ FirstEndpoints \subseteq Endpoints
    /\ {PostTimeout, HandleTimeout, QueueSize} \subseteq Nat \ {0}
    /\ PostTimeout < HandleTimeout
    /\ {MaxEdits, MaxHookFaults} \subseteq Nat

VARIABLES
    endpoint,    \* webhook_endpoints
    queue,       \* Dispatcher.ch
    worker,      \* each worker's event, endpoints to do and time left
    retrying,    \* goroutines of maybeRetry, by event and endpoint
    attempts,    \* history: calls of deliver, by event and endpoint
    acked,       \* history: deliveries answered with 2xx
    unbuilt,     \* history: deliveries whose request could not be built
    listed,      \* history: endpoints an event was to be delivered to
    logged,      \* webhook_deliveries: event, endpoint, attempt
    produced,    \* history: events dispatched so far
    lost,        \* history: events the dispatcher lost: full queue, fault, restart
    unlogged,    \* history: deliveries a failed INSERT or a deletion kept out
    edits, hookFaults

endpointVars == <<endpoint, edits>>
deliveryVars == <<queue, worker, retrying, attempts, acked, unbuilt, listed, logged, produced,
                  lost, unlogged, hookFaults>>
webhookVars == <<endpointVars, deliveryVars>>

Pairs == Hooks \X Endpoints
NoEndpoint == [there |-> FALSE, active |-> FALSE, events |-> {}]
IdleWorker == [step |-> "idle", event |-> {}, todo |-> {}, left |-> 0]

WebhookTypeOK ==
    /\ endpoint \in [Endpoints -> [there: BOOLEAN, active: BOOLEAN, events: SUBSET EventTypes]]
    /\ queue \in Seq(Hooks) /\ Len(queue) <= QueueSize
    /\ worker \in [Workers -> [step: {"idle", "list", "post"}, todo: SUBSET Endpoints,
                               event: {{}} \cup {{ev} : ev \in Hooks}, left: 0..HandleTimeout]]
    /\ retrying \subseteq Pairs
    /\ attempts \in [Pairs -> Nat]
    /\ acked \subseteq Pairs /\ unbuilt \subseteq Pairs /\ listed \subseteq Pairs
    /\ logged \subseteq Pairs \X {1, 2} /\ unlogged \subseteq Pairs \X {1, 2}
    /\ produced \subseteq Hooks /\ lost \subseteq produced
    /\ edits \in 0..MaxEdits /\ hookFaults \in 0..MaxHookFaults

WebhookInit ==
    /\ endpoint = [e \in Endpoints |->
                     IF e \in FirstEndpoints
                     THEN [there |-> TRUE, active |-> TRUE, events |-> EventTypes]
                     ELSE NoEndpoint]
    /\ queue = <<>>
    /\ worker = [w \in Workers |-> IdleWorker]
    /\ retrying = {} /\ acked = {} /\ unbuilt = {} /\ listed = {} /\ logged = {}
    /\ produced = {} /\ lost = {} /\ unlogged = {}
    /\ attempts = [p \in Pairs |-> 0]
    /\ edits = 0 /\ hookFaults = 0

----------------------------------------------------------------------------
(* The operator.                                                            *)

Edit ==
    /\ edits < MaxEdits
    /\ edits' = edits + 1
    /\ UNCHANGED deliveryVars

CreateWebhookEndpoint(e, active, types) ==
    /\ Edit
    /\ ~ endpoint[e].there
    /\ endpoint' = [endpoint EXCEPT ![e] = [there |-> TRUE, active |-> active, events |-> types]]

\* handleUpdateWebhook keeps `active` when the request leaves it out; since a
\* request may ask for either value, reading it first adds no behaviour.
UpdateWebhookEndpoint(e, active, types) ==
    /\ Edit
    /\ endpoint[e].there
    /\ endpoint' = [endpoint EXCEPT ![e].active = active, ![e].events = types]

DeleteWebhookEndpoint(e) ==
    /\ Edit
    /\ endpoint[e].there
    /\ endpoint' = [endpoint EXCEPT ![e] = NoEndpoint]

----------------------------------------------------------------------------
(* Dispatch and the workers.                                                *)

\* The non-blocking send.  The tenant and the type are never empty here.
Dispatch(ev) ==
    /\ ev \notin produced
    /\ produced' = produced \cup {ev}
    /\ IF Len(queue) < QueueSize
       THEN /\ queue' = Append(queue, ev)
            /\ UNCHANGED lost
       ELSE /\ lost' = lost \cup {ev}
            /\ UNCHANGED queue
    /\ UNCHANGED <<endpointVars, worker, retrying, attempts, acked, unbuilt, listed, logged,
                   unlogged, hookFaults>>

TakeEvent(w) ==
    /\ worker[w].step = "idle" /\ queue # <<>>
    /\ worker' = [worker EXCEPT ![w] = [step |-> "list", event |-> {Head(queue)}, todo |-> {},
                                        left |-> HandleTimeout]]
    /\ queue' = Tail(queue)
    /\ UNCHANGED <<endpointVars, produced, retrying, attempts, acked, unbuilt, listed, logged, lost,
                   unlogged, hookFaults>>

HookFault ==
    /\ hookFaults < MaxHookFaults
    /\ hookFaults' = hookFaults + 1

Subscribed(type) ==
    {e \in Endpoints : endpoint[e].there /\ endpoint[e].active /\ type \in endpoint[e].events}

ListWebhookEndpointsForEvent(w) ==
    /\ worker[w].step = "list"
    /\ \E ev \in worker[w].event :
          \/ /\ worker' = [worker EXCEPT ![w].step = "post", ![w].todo = Subscribed(ev.type)]
             /\ listed' = listed \cup ({ev} \X Subscribed(ev.type))
             /\ UNCHANGED <<lost, hookFaults>>
          \/ /\ HookFault
             /\ worker' = [worker EXCEPT ![w] = IdleWorker]
             /\ lost' = lost \cup {ev}
             /\ UNCHANGED listed
    /\ UNCHANGED <<endpointVars, produced, queue, retrying, attempts, acked, unbuilt, logged, unlogged>>

----------------------------------------------------------------------------
(* deliver.                                                                 *)

Least(x, y) == IF x < y THEN x ELSE y

\* A POST that times out takes its own timeout or what is left of the context.
LeftAfter(how, left) == IF how = "timeout" THEN left - Least(PostTimeout, left) ELSE left

\* With the context over, http.Client.Do fails before it sends.
Outcomes(left) == IF left = 0 THEN {"refused"} ELSE {"ok", "refused", "timeout", "unbuilt"}

\* LogWebhookDelivery with the context of the delivery; endpoint_id is a
\* foreign key; the error is ignored.
LogWebhookDelivery(p, n, left) ==
    \/ /\ left > 0 /\ endpoint[p[2]].there
       /\ logged' = logged \cup {<<p, n>>}
       /\ UNCHANGED <<unlogged, hookFaults>>
    \/ /\ left = 0
       /\ UNCHANGED <<logged, unlogged, hookFaults>>
    \/ /\ left > 0 /\ ~ endpoint[p[2]].there
       /\ unlogged' = unlogged \cup {<<p, n>>}
       /\ UNCHANGED <<logged, hookFaults>>
    \/ /\ left > 0 /\ HookFault
       /\ unlogged' = unlogged \cup {<<p, n>>}
       /\ UNCHANGED logged

\* Bugs to look for: a retry whatever the answer was; none after a timeout.
RetryAnyway(n, how) == n < 2
RetryRefused(n, how) == how = "refused" /\ n < 2

MayRetry(n) == n < 2

NeedsRetry(n, how) == how \in {"refused", "timeout"} /\ MayRetry(n)

\* One call of deliver, attempt n for the pair p with `left` of its context;
\* `others` are the goroutines of maybeRetry besides this one.
Deliver(p, n, left, how, others) ==
    /\ attempts' = [attempts EXCEPT ![p] = @ + 1]
    /\ acked' = IF how = "ok" THEN acked \cup {p} ELSE acked
    /\ unbuilt' = IF how = "unbuilt" THEN unbuilt \cup {p} ELSE unbuilt
    /\ LogWebhookDelivery(p, n, LeftAfter(how, left))
    /\ retrying' = IF NeedsRetry(n, how) THEN others \cup {p} ELSE others

DeliverFirst(w, e) ==
    /\ worker[w].step = "post" /\ e \in worker[w].todo
    /\ \E ev \in worker[w].event, how \in Outcomes(worker[w].left) :
          /\ Deliver(<<ev, e>>, 1, worker[w].left, how, retrying)
          /\ worker' = [worker EXCEPT ![w].todo = @ \ {e},
                                      ![w].left = LeftAfter(how, @)]
    /\ UNCHANGED <<endpointVars, produced, queue, listed, lost>>

HandleReturns(w) ==
    /\ worker[w].step = "post" /\ worker[w].todo = {}
    /\ worker' = [worker EXCEPT ![w] = IdleWorker]
    /\ UNCHANGED <<endpointVars, produced, queue, retrying, attempts, acked, unbuilt, listed, logged,
                   lost, unlogged, hookFaults>>

\* A bug to look for: the retry inherits a context that is over.
RetryInherits == 0

RetryContext == HandleTimeout

\* 30 seconds later, with the endpoint as it was listed and a new context.
DeliverAgain(p) ==
    /\ p \in retrying
    /\ \E how \in Outcomes(RetryContext) :
          Deliver(p, 2, RetryContext, how, retrying \ {p})
    /\ UNCHANGED <<endpointVars, produced, queue, worker, listed, lost>>

\* The process ends: queue, workers and retries are only in memory.
RestartDispatcher ==
    /\ HookFault
    /\ lost' = lost \cup {queue[i] : i \in DOMAIN queue}
                    \cup (UNION {worker[w].event : w \in Workers})
                    \cup {p[1] : p \in retrying}
    /\ queue' = <<>>
    /\ worker' = [w \in Workers |-> IdleWorker]
    /\ retrying' = {}
    /\ UNCHANGED <<endpointVars, produced, attempts, acked, unbuilt, listed, logged, unlogged>>

WebhookOperator ==
    \/ \E e \in Endpoints, types \in SUBSET EventTypes, active \in BOOLEAN :
          \/ CreateWebhookEndpoint(e, active, types)
          \/ UpdateWebhookEndpoint(e, active, types)
    \/ \E e \in Endpoints : DeleteWebhookEndpoint(e)

WorkerProceeds(w) ==
    \/ TakeEvent(w) \/ ListWebhookEndpointsForEvent(w) \/ HandleReturns(w)
    \/ \E e \in Endpoints : DeliverFirst(w, e)

WebhookNext ==
    \/ WebhookOperator
    \/ \E ev \in Hooks : Dispatch(ev)
    \/ \E w \in Workers : WorkerProceeds(w)
    \/ \E p \in Pairs : DeliverAgain(p)
    \/ RestartDispatcher

WebhookSpec == WebhookInit /\ [][WebhookNext]_webhookVars

----------------------------------------------------------------------------
(* Properties.                                                              *)

InWork(ev) ==
    \/ \E i \in DOMAIN queue : queue[i] = ev
    \/ \E w \in Workers : ev \in worker[w].event
    \/ \E e \in Endpoints : <<ev, e>> \in retrying

\* An endpoint is sent an event at most twice, and never again once it
\* answered well, while workers, retries and changes of the endpoint
\* interleave (maybeRetry stops at the second attempt).
AtMostOneRetry ==
    /\ \A p \in Pairs : attempts[p] <= 2
    /\ retrying \cap (acked \cup unbuilt) = {}

\* A delivery that failed twice is in webhook_deliveries as the package
\* comment promises, also when the first attempt used up the event's time;
\* only a failed INSERT or the deletion of the endpoint keeps it out.
FailedTwiceIsLogged ==
    \A p \in Pairs : attempts[p] = 2 => <<p, 2>> \in logged \cup unlogged

Settled(p) == p \in acked \cup unbuilt \/ attempts[p] = 2

\* Every event the dispatcher took is delivered to each endpoint that was
\* subscribed, or has failed twice there; only a fault loses it.
EventsAreSettled ==
    \A ev \in Hooks :
        InWork(ev) ~> \/ ev \in lost
                      \/ ~ InWork(ev) /\ \A p \in listed : p[1] = ev => Settled(p)

\* A delivery is tried twice at most, never again after it was taken, and one
\* that failed twice is on record (deliver, maybeRetry).
WebhookInv == WebhookTypeOK /\ AtMostOneRetry /\ FailedTwiceIsLogged
=============================================================================
