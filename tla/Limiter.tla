------------------------------ MODULE Limiter -------------------------------
(***************************************************************************)
(* internal/ratelimit: a bucket of tokens per key, filled again at its first *)
(* use after a minute. Allow runs under a mutex and is one step.             *)
(***************************************************************************)
EXTENDS Clock, Sequences, FiniteSets

CONSTANTS
    Keys,       \* client addresses, the first of X-Forwarded-For if there is one
    Limit       \* RateLimitRPM; NewServer replaces what is not positive by 100

ASSUME LimiterConstants == Limit \in Nat \ {0}

VARIABLES
    tokens, lastRefill,     \* the bucket of each key; lastRefill is Never at first
    granted,                \* per key, when its requests were granted, in order
    denied                  \* per key, when a request was denied

limiterVars == <<tokens, lastRefill, granted, denied>>

LimiterInit ==
    /\ tokens = [k \in Keys |-> 0]
    /\ lastRefill = [k \in Keys |-> Never]
    /\ granted = [k \in Keys |-> <<>>]
    /\ denied = [k \in Keys |-> {}]

\* A key seen for the first time has a full bucket too.
RefillDue(k) == lastRefill[k] = Never \/ now - lastRefill[k] >= Minute

WindowKept(k) == IF lastRefill[k] = Never THEN now ELSE lastRefill[k]
Window(k) == IF RefillDue(k) THEN now ELSE lastRefill[k]
Available(k) == IF RefillDue(k) THEN Limit ELSE tokens[k]

Grant(k) ==
    /\ Available(k) > 0
    /\ tokens' = [tokens EXCEPT ![k] = Available(k) - 1]
    /\ lastRefill' = [lastRefill EXCEPT ![k] = Window(k)]
    /\ granted' = [granted EXCEPT ![k] = Append(@, now)]
    /\ UNCHANGED denied

Deny(k) ==
    /\ Available(k) = 0
    /\ denied' = [denied EXCEPT ![k] = @ \cup {now}]
    /\ UNCHANGED <<tokens, lastRefill, granted>>

-----------------------------------------------------------------------------
(* Properties *)

\* What was granted in the minute that ends with t.
GrantsUntil(k, t) ==
    {i \in DOMAIN granted[k] : t - Minute < granted[k][i] /\ granted[k][i] <= t}

\* No minute, wherever it begins, sees more than twice the limit: the window is
\* fixed, so that its end and the beginning of the next may both be used up.
\* And nobody is denied who did not have the full limit in the last minute.
RateIsBounded ==
    \A k \in Keys :
        /\ \A t \in Times : Cardinality(GrantsUntil(k, t)) <= 2 * Limit
        /\ \A t \in denied[k] : Cardinality(GrantsUntil(k, t)) >= Limit
=============================================================================
