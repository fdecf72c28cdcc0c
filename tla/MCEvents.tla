----------------------------- MODULE MCEvents -----------------------------
\* What subscribers are told of a call and how events reach their endpoints,
\* checked in one run: the first state chooses which of the two parts moves,
\* the other stays as it starts.  They meet at Dispatcher.ch: CallOutcome has
\* the producing side, OutWebhook the consuming one.

EXTENDS CallOutcome, OutWebhook

CONSTANTS won, ended

VARIABLE part

MCHooks == {[name |-> x, type |-> x] : x \in {won, ended}}

Parts == {"outcome", "webhooks"}

Init ==
    /\ part \in Parts
    /\ CallInit /\ WebhookInit

Next ==
    \/ /\ part = "outcome" /\ CallNext
       /\ UNCHANGED <<part, webhookVars>>
    \/ /\ part = "webhooks" /\ WebhookNext
       /\ UNCHANGED <<part, callVars>>

vars == <<part, callVars, webhookVars>>

\* Handlers, workers and retry timers run on; calls, operators, the language
\* model and the subscribers' servers owe nothing.
Fairness ==
    /\ \A c \in Calls : WF_callVars(part = "outcome" /\ CallProceeds(c))
    /\ \A w \in Workers : WF_webhookVars(part = "webhooks" /\ WorkerProceeds(w))
    /\ \A p \in Pairs : WF_webhookVars(part = "webhooks" /\ DeliverAgain(p))

Spec == Init /\ [][Next]_vars /\ Fairness
=============================================================================
