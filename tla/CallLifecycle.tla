---------------------------- MODULE CallLifecycle ----------------------------
(***************************************************************************)
(* What a row of the calls table promises its readers (the call list, the  *)
(* analytics, the daily cap): a call only moves forward.  It is queued,    *)
(* then dialled, then perhaps answered, then finished once; or it is       *)
(* skipped before it was ever dialled.  A finished call never comes back.  *)
(***************************************************************************)
CONSTANT Calls

VARIABLE status

Init == status = [k \in Calls |-> "none"]

Step(k, from, to) ==
    /\ status[k] \in from
    /\ status' = [status EXCEPT ![k] = to]

Create(k) == Step(k, {"none"}, "queued")
Dial(k)   == Step(k, {"queued"}, "dialing")
Answer(k) == Step(k, {"dialing"}, "answered")
Skip(k)   == Step(k, {"queued"}, "skipped")
Finish(k) == \E to \in {"completed", "failed"} :
                Step(k, {"dialing", "answered"}, to)

Next == \E k \in Calls : Create(k) \/ Dial(k) \/ Answer(k) \/ Skip(k) \/ Finish(k)

Spec == Init /\ [][Next]_status
=============================================================================
