----------------------------- MODULE RateLimiter -----------------------------
(***************************************************************************)
(* The login throttle (ratelimit.go): a token bucket per key, refilled by  *)
(* whole multiples of `rate` when a request comes, and a cleanup that      *)
(* forgets buckets that were not refilled for long.  The key a request     *)
(* gets (clientIP) is an input.  Time is counted in ticks; requests of one *)
(* tick come one after the other.                                          *)
(***************************************************************************)
EXTENDS Integers, FiniteSets

CONSTANTS
    Keys,      \* client addresses
    Rate,      \* ticks for one token
    Burst,     \* size of a bucket
    Idle,      \* ticks after which cleanup forgets a bucket (10 minutes)
    MaxTime,   \* bound: the last tick
    MaxDenied  \* bound: refused requests of a key in a tick

\* newRateLimiter(time.Second, 10) and 10 minutes: a forgotten bucket would
\* have been full.
ASSUME RateAssumption ==
    /\ {Rate, Burst, Idle} \subseteq Nat \ {0}
    /\ {MaxTime, MaxDenied} \subseteq Nat
    /\ Idle >= Rate * Burst

VARIABLES
    now,       \* time.Now
    visitors,  \* rateLimiter.visitors; a key without a bucket: known FALSE
    allowed,   \* history: requests let in, by key, up to each tick
    denied     \* history: requests refused, by key and tick

rateVars == <<now, visitors, allowed, denied>>

Time == 0..MaxTime
NoBucket == [known |-> FALSE, tokens |-> 0, lastSeen |-> 0]

RateTypeOK ==
    /\ now \in Time
    /\ visitors \in [Keys -> [known: BOOLEAN, tokens: 0..Burst, lastSeen: Time]]
    /\ allowed \in [Keys -> [Time -> Nat]]
    /\ denied \in [Keys -> [Time -> 0..MaxDenied]]

RateInit ==
    /\ now = 0
    /\ visitors = [k \in Keys |-> NoBucket]
    /\ allowed = [k \in Keys |-> [t \in Time |-> 0]]
    /\ denied = [k \in Keys |-> [t \in Time |-> 0]]

Tick ==
    /\ now < MaxTime
    /\ now' = now + 1
    /\ UNCHANGED <<visitors, allowed, denied>>

\* Bugs to look for: no cap on the tokens; lastSeen set by every request.
RefilledUncapped(b) ==
    LET refill == (now - b.lastSeen) \div Rate IN
    IF refill > 0
    THEN [b EXCEPT !.tokens = @ + refill, !.lastSeen = now]
    ELSE b

RefilledAlways(b) ==
    LET refill == (now - b.lastSeen) \div Rate IN
    [b EXCEPT !.tokens = IF @ + refill > Burst THEN Burst ELSE @ + refill,
              !.lastSeen = now]

\* A remainder below `rate` is lost when lastSeen moves.
Refilled(b) ==
    LET refill == (now - b.lastSeen) \div Rate IN
    IF refill > 0
    THEN [b EXCEPT !.tokens = IF @ + refill > Burst THEN Burst ELSE @ + refill,
                   !.lastSeen = now]
    ELSE b

LetIn(k) ==
    /\ allowed' = [allowed EXCEPT ![k] = [t \in Time |-> IF t >= now THEN @[t] + 1 ELSE @[t]]]
    /\ UNCHANGED denied

Allow(k) ==
    /\ \/ /\ ~ visitors[k].known
          /\ visitors' = [visitors EXCEPT ![k] = [known |-> TRUE, tokens |-> Burst - 1,
                                                  lastSeen |-> now]]
          /\ LetIn(k)
       \/ /\ visitors[k].known
          /\ LET b == Refilled(visitors[k]) IN
                \/ /\ b.tokens > 0
                   /\ visitors' = [visitors EXCEPT ![k] = [b EXCEPT !.tokens = @ - 1]]
                   /\ LetIn(k)
                \/ /\ b.tokens = 0
                   /\ denied[k][now] < MaxDenied
                   /\ visitors' = [visitors EXCEPT ![k] = b]
                   /\ denied' = [denied EXCEPT ![k][now] = @ + 1]
                   /\ UNCHANGED allowed
    /\ UNCHANGED now

\* A bug to look for: a bucket is forgotten before it is full again.
ForgottenEarly == {k \in Keys : visitors[k].known /\ now - visitors[k].lastSeen >= Rate}

Forgotten == {k \in Keys : visitors[k].known /\ now - visitors[k].lastSeen > Idle}

\* The ticker's goroutine; its two minutes may fall on any tick.
Cleanup ==
    /\ LET old == Forgotten IN
          /\ old # {}
          /\ visitors' = [k \in Keys |-> IF k \in old THEN NoBucket ELSE visitors[k]]
    /\ UNCHANGED <<now, allowed, denied>>

RateNext == Tick \/ Cleanup \/ \E k \in Keys : Allow(k)

RateSpec == RateInit /\ [][RateNext]_rateVars

----------------------------------------------------------------------------
(* Properties.                                                              *)

LetInBetween(k, s, t) == allowed[k][t] - (IF s = 0 THEN 0 ELSE allowed[k][s - 1])

\* In every stretch of time a key gets at most its burst and one request for
\* each `rate` elapsed, also when cleanup forgot its bucket in between.
WindowBound ==
    \A k \in Keys : \A s \in 0..now :
        LetInBetween(k, s, now) <= Burst + (now - s) \div Rate

\* A key is refused only when one of its requests was let in less than a
\* `rate` ago: hammering does not keep a client out for good.
RefusedOnlyAfterAllowed ==
    \A k \in Keys : \A t \in 0..now :
        denied[k][t] > 0 =>
            \E s \in 0..t : t - s < Rate /\ LetInBetween(k, s, t) > 0

\* The throttle lets in no more than a bucket and its refill, and refuses only
\* who was let in just before (allow, cleanup).
RateInv == RateTypeOK /\ WindowBound /\ RefusedOnlyAfterAllowed
=============================================================================
