----------------------------- MODULE MCRecordings -----------------------------
(* Small instances of Recordings: two recordings of one call.               *)
EXTENDS Recordings

CONSTANTS r1, r2, c1, w1, w2

\* One call, recorded twice, in different seconds.
SameCall == [u \in {r1, r2} |-> c1]
OtherSeconds == [u \in {r1, r2} |-> <<c1, u>>]
=============================================================================
