--------------------------- MODULE ProviderProofs ---------------------------
(***************************************************************************)
(* What each operation on a provider's health record preserves, for the    *)
(* proofs of the modules that use the record.                              *)
(***************************************************************************)
EXTENDS Provider, TLAPS

HealthInv == HealthTypeOK /\ OnlineResetsAttempts

\* The backoff a rate limit settles on is a number of ticks.
LEMMA BackoffType == \A t \in Nat : Backoff(t) \in Nat
  BY BackoffAssumption DEF Backoff

\* MarkHealthy keeps the record well typed and leaves no attempts on an online provider.
LEMMA MarkHealthyInvariant ==
  ASSUME HealthInv, NEW p \in Providers, MarkHealthy(p)
  PROVE  HealthInv'
  <1>1. 0 \in 0..AttemptCap /\ 0 \in Nat /\ 0 \in Ages
    BY CapAssumption DEF Ages, Never
  <1>2. CASE UNCHANGED health
    BY <1>2 DEF HealthInv, HealthTypeOK, OnlineResetsAttempts, health
  <1>3. CASE /\ online' = [online EXCEPT ![p] = TRUE]
             /\ attempt' = [attempt EXCEPT ![p] = 0]
             /\ rateLimitedFor' = [rateLimitedFor EXCEPT ![p] = 0]
             /\ sinceStateChange' = [sinceStateChange EXCEPT ![p] = 0]
    BY <1>1, <1>3 DEF HealthInv, HealthTypeOK, OnlineResetsAttempts
  <1> QED BY <1>2, <1>3 DEF MarkHealthy

\* MarkUnhealthy keeps the record well typed; it counts an attempt only against
\* a provider that is offline.
LEMMA MarkUnhealthyInvariant ==
  ASSUME HealthInv, NEW p \in Providers,
         NEW err \in [limited : BOOLEAN, retryAfter : Nat],
         MarkUnhealthy(p, err)
  PROVE  HealthInv'
  <1>1. rateLimitedFor' \in [Providers -> Nat]
    <2>1. Backoff(err.retryAfter) \in Nat
      BY BackoffType
    <2> QED BY <2>1 DEF MarkUnhealthy, HealthInv, HealthTypeOK
  <1>2. 0 \in Ages
    BY CapAssumption DEF Ages, Never
  <1>3. CASE /\ online' = [online EXCEPT ![p] = FALSE]
             /\ sinceStateChange' = [sinceStateChange EXCEPT ![p] = 0]
             /\ UNCHANGED attempt
    BY <1>1, <1>2, <1>3 DEF HealthInv, HealthTypeOK, OnlineResetsAttempts
  <1>4. CASE /\ ~online[p]
             /\ attempt' = [attempt EXCEPT ![p] = CountAttempt(@)]
             /\ sinceStateChange' =
                  [sinceStateChange EXCEPT ![p] = IF @ = Never THEN 0 ELSE @]
             /\ UNCHANGED online
    <2>1. CountAttempt(attempt[p]) \in 0..AttemptCap
      BY CapAssumption DEF CountAttempt, HealthInv, HealthTypeOK
    <2> QED BY <1>1, <1>2, <1>4, <2>1 DEF HealthInv, HealthTypeOK, OnlineResetsAttempts
  <1> QED BY <1>3, <1>4 DEF MarkUnhealthy

\* Flagging methods touches nothing but the flags, and keeps them well typed.
LEMMA MarkMethodUnsupportedInvariant ==
  ASSUME FlagsTypeOK, NEW p \in Providers, NEW ms, MarkMethodUnsupported(p, ms)
  PROVE  FlagsTypeOK'
  <1>1. DefaultUnsupportedMethodTTL \in 0..DefaultUnsupportedMethodTTL
    BY TTLAssumption
  <1> QED BY <1>1 DEF MarkMethodUnsupported, FlagsTypeOK

\* A rate limit opens the window and does nothing else.
LEMMA HandleTooManyRequestsInvariant ==
  ASSUME HealthInv, NEW p \in Providers, NEW t \in Nat,
         HandleTooManyRequests(p, t), UNCHANGED <<online, attempt, sinceStateChange>>
  PROVE  HealthInv'
  BY BackoffType DEF HandleTooManyRequests, HealthInv, HealthTypeOK, OnlineResetsAttempts

\* Time runs the deadlines down to zero and no further.
LEMMA TickInvariant ==
  ASSUME HealthInv, FlagsTypeOK, TickProviders
  PROVE  HealthInv' /\ FlagsTypeOK'
  <1>1. \A n \in Nat : CountDown(n) \in Nat
    BY DEF CountDown
  <1>2. \A n \in 0..DefaultUnsupportedMethodTTL :
            CountDown(n) \in 0..DefaultUnsupportedMethodTTL
    BY TTLAssumption DEF CountDown
  <1>3. \A a \in Ages : Grow(a) \in Ages
    BY CapAssumption DEF Grow, Ages, Never
  <1>4. rateLimitedFor' \in [Providers -> Nat]
    BY <1>1 DEF TickProviders, HealthInv, HealthTypeOK
  <1>5. unsupportedFor' \in [Providers -> [Methods -> 0..DefaultUnsupportedMethodTTL]]
    BY <1>2 DEF TickProviders, FlagsTypeOK
  <1>6. sinceStateChange' \in [Providers -> Ages]
    BY <1>3 DEF TickProviders, HealthInv, HealthTypeOK
  <1> QED BY <1>4, <1>5, <1>6 DEF TickProviders, FlagsTypeOK, HealthInv,
                               HealthTypeOK, OnlineResetsAttempts
=============================================================================
