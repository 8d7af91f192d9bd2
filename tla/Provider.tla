------------------------------ MODULE Provider ------------------------------
(***************************************************************************)
(* The health record every upstream provider keeps behind its mutex        *)
(* (core/provider.go).  Failover loops, healthcheck workers and WebSocket  *)
(* pumps all read and write it; each operation below is one critical       *)
(* section of the code, so modules that EXTEND this one use it as one step.*)
(*                                                                         *)
(* Deadlines are kept as the time that remains (0: passed, or never set),  *)
(* which is all the code reads of them; TickProviders moves every one.     *)
(***************************************************************************)
EXTENDS Integers

CONSTANTS
    NProviders,                  \* providers of the endpoint, in failover order
    Methods,                     \* the RPC methods clients ask for
    DefaultRateLimitBackoff,     \* ticks; 30 s in the code
    DefaultUnsupportedMethodTTL, \* ticks; 30 min in the code
    AttemptCap,                  \* attempt counts above this are not told apart
    LongAgo                      \* ages above this are not told apart

ASSUME NProvidersAssumption == NProviders \in Nat \ {0}
ASSUME BackoffAssumption == DefaultRateLimitBackoff \in Nat \ {0}
ASSUME TTLAssumption == DefaultUnsupportedMethodTTL \in Nat \ {0}
ASSUME CapAssumption == AttemptCap \in Nat \ {0} /\ LongAgo \in Nat

Providers == 1..NProviders

VARIABLES
    online,             \* p.online
    attempt,            \* p.attempt: failures since the provider went offline
    rateLimitedFor,     \* what remains of p.RateLimitedUntil
    sinceStateChange,   \* age of p.lastStateChange, or Never
    unsupportedFor      \* what remains of the flag for each unsupported method

health == <<online, attempt, rateLimitedFor, sinceStateChange>>
providerVars == <<online, attempt, rateLimitedFor, sinceStateChange, unsupportedFor>>

Never == LongAgo + 1    \* the zero time.Time
Ages == 0..Never

HealthTypeOK ==
    /\ online \in [Providers -> BOOLEAN]
    /\ attempt \in [Providers -> 0..AttemptCap]
    /\ rateLimitedFor \in [Providers -> Nat]
    /\ sinceStateChange \in [Providers -> Ages]

FlagsTypeOK ==
    unsupportedFor \in [Providers -> [Methods -> 0..DefaultUnsupportedMethodTTL]]

ProviderTypeOK == HealthTypeOK /\ FlagsTypeOK

\* A provider as the configuration loader leaves it: nothing checked yet.
InitProviders ==
    /\ online = [p \in Providers |-> FALSE]
    /\ attempt = [p \in Providers |-> 0]
    /\ rateLimitedFor = [p \in Providers |-> 0]
    /\ sinceStateChange = [p \in Providers |-> Never]
    /\ unsupportedFor = [p \in Providers |-> [m \in Methods |-> 0]]

-----------------------------------------------------------------------------
(***************************************************************************)
(* The errors MarkUnhealthy tells apart: a rate limit, with the time the   *)
(* provider asked for (0 when it named none), and everything else.         *)
(***************************************************************************)
Limited(retryAfter) == [limited |-> TRUE, retryAfter |-> retryAfter]
Failure == [limited |-> FALSE, retryAfter |-> 0]

Backoff(retryAfter) ==
    IF retryAfter > 0 THEN retryAfter ELSE DefaultRateLimitBackoff

CountAttempt(n) == IF n < AttemptCap THEN n + 1 ELSE n

MarkHealthy(p) ==
    \/ online[p] /\ UNCHANGED health
    \/ /\ ~online[p]
       /\ online' = [online EXCEPT ![p] = TRUE]
       /\ attempt' = [attempt EXCEPT ![p] = 0]
       /\ rateLimitedFor' = [rateLimitedFor EXCEPT ![p] = 0]
       /\ sinceStateChange' = [sinceStateChange EXCEPT ![p] = 0]

MarkUnhealthy(p, err) ==
    /\ rateLimitedFor' =
         IF err.limited
         THEN [rateLimitedFor EXCEPT ![p] = Backoff(err.retryAfter)]
         ELSE rateLimitedFor
    /\ \/ /\ online[p]
          /\ online' = [online EXCEPT ![p] = FALSE]
          /\ sinceStateChange' = [sinceStateChange EXCEPT ![p] = 0]
          /\ UNCHANGED attempt
       \/ /\ ~online[p]
          /\ attempt' = [attempt EXCEPT ![p] = CountAttempt(@)]
          /\ sinceStateChange' =
               [sinceStateChange EXCEPT ![p] = IF @ = Never THEN 0 ELSE @]
          /\ UNCHANGED online

\* A 429 or 402: only the window is set here; the caller marks the provider.
HandleTooManyRequests(p, retryAfter) ==
    rateLimitedFor' = [rateLimitedFor EXCEPT ![p] = Backoff(retryAfter)]

SupportsMethod(p, m) == unsupportedFor[p][m] = 0

\* Broken: a report that is repeated adds to the time the flag stays.
ProlongMethodUnsupported(p, ms) ==
    unsupportedFor' = [unsupportedFor EXCEPT ![p] =
        [m \in Methods |-> IF m \in ms THEN @[m] + DefaultUnsupportedMethodTTL ELSE @[m]]]

\* MarkMethodUnsupported for every method of ms.
MarkMethodUnsupported(p, ms) ==
    unsupportedFor' = [unsupportedFor EXCEPT ![p] =
        [m \in Methods |-> IF m \in ms THEN DefaultUnsupportedMethodTTL ELSE @[m]]]

-----------------------------------------------------------------------------
CountDown(n) == IF n > 0 THEN n - 1 ELSE 0
Grow(age) == IF age < LongAgo THEN age + 1 ELSE age

\* One tick of the wall clock, for every provider at once.
TickProviders ==
    /\ rateLimitedFor' = [p \in Providers |-> CountDown(rateLimitedFor[p])]
    /\ sinceStateChange' = [p \in Providers |-> Grow(sinceStateChange[p])]
    /\ unsupportedFor' =
         [p \in Providers |-> [m \in Methods |-> CountDown(unsupportedFor[p][m])]]
    /\ UNCHANGED <<online, attempt>>

-----------------------------------------------------------------------------
(***************************************************************************)
(* The healthcheck's backoff starts over with each outage: an online       *)
(* provider has no failed attempts on its record, though requests and      *)
(* checks mark it concurrently.                                            *)
(***************************************************************************)
OnlineResetsAttempts == \A p \in Providers : online[p] => attempt[p] = 0
=============================================================================
