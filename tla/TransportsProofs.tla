-------------------------- MODULE TransportsProofs --------------------------
(***************************************************************************)
(* Theorems about Transports, for any number of requests, connections and  *)
(* providers: its types, then its safety properties from one inductive     *)
(* invariant, and that every walk is bounded.                              *)
(***************************************************************************)
EXTENDS Transports, ProviderProofs

-----------------------------------------------------------------------------
(***************************************************************************)
(* Types.  A walk that is at a provider is at one of the endpoint's.       *)
(***************************************************************************)
WalkTypeOK ==
    /\ at \in [Actors -> Places]
    /\ cursor \in [Actors -> 0..NProviders + 1]
    /\ answer \in [Actors -> [how : AnswerKinds, err : MarkErrors]]
    /\ gone \in [Actors -> BOOLEAN]
    /\ lastError \in [Actors -> Providers \union {Nobody}]

PumpTypeOK ==
    /\ inFlight \in [Sessions -> SUBSET InFlight]
    /\ pending \in [Sessions -> [Keys -> Methods \union {NoMethod}]]
    /\ careless \in [Sessions -> BOOLEAN]

Placed ==
    \A a \in Actors :
        /\ at[a] = "walking" => cursor[a] \in 1..NProviders + 1
        /\ at[a] \in {"asking", "judging", "marking", "open"} => cursor[a] \in Providers

TypeInv ==
    /\ kind \in EndpointKinds
    /\ HealthInv /\ FlagsTypeOK
    /\ WalkTypeOK /\ PumpTypeOK
    /\ Placed

LEMMA MarkErrorsType == MarkErrors \subseteq [limited : BOOLEAN, retryAfter : Nat]
  <1>1. Failure \in [limited : BOOLEAN, retryAfter : Nat]
    BY DEF Failure
  <1>2. \A n \in Nat : Limited(n) \in [limited : BOOLEAN, retryAfter : Nat]
    BY DEF Limited
  <1> QED BY <1>1, <1>2, BackoffAssumption DEF MarkErrors

LEMMA LimitedTypes ==
  /\ Failure \in MarkErrors
  /\ \A n \in 0..DefaultRateLimitBackoff : Limited(n) \in MarkErrors
  /\ Limited(0) \in MarkErrors
  BY BackoffAssumption DEF MarkErrors

LEMMA NoAnswerType == NoAnswer \in [how : AnswerKinds, err : MarkErrors]
  BY LimitedTypes DEF NoAnswer, AnswerKinds

\* What an exchange may end with, and that a limit comes with a time.
LEMMA ExchangeType ==
  ASSUME NEW a, NEW p, NEW x \in Exchanges(a, p)
  PROVE  /\ x \in [how : AnswerKinds, err : MarkErrors]
         /\ x.err.retryAfter \in Nat
  <1>1. \/ \E n \in 0..DefaultRateLimitBackoff : x = Ended("limited", Limited(n))
        \/ x \in {Ended("served", Failure), Ended("failed", Failure),
                  Ended("serverError", Failure), Ended("cancelled", Failure)}
    BY DEF Exchanges, Faults
  <1>2. \A how \in AnswerKinds, e \in MarkErrors :
            /\ Ended(how, e) \in [how : AnswerKinds, err : MarkErrors]
            /\ Ended(how, e).err = e
    BY DEF Ended
  <1>3. {"limited", "served", "failed", "serverError", "cancelled"} \subseteq AnswerKinds
    BY DEF AnswerKinds
  <1>4. \E how \in AnswerKinds, e \in MarkErrors : x = Ended(how, e)
    BY <1>1, <1>3, LimitedTypes
  <1> QED BY <1>2, <1>4, MarkErrorsType

LEMMA ActorsOf == Sessions \subseteq Actors /\ ApiCalls \subseteq Actors
  BY DEF Actors

\* Advance and Return keep a walk well typed.
LEMMA AdvanceType ==
  ASSUME WalkTypeOK, Placed, NEW a \in Actors, cursor[a] \in Providers, Advance(a),
         UNCHANGED gone, lastError' \in [Actors -> Providers \union {Nobody}]
  PROVE  WalkTypeOK' /\ Placed'
  <1>1. cursor[a] + 1 \in 1..NProviders + 1 /\ cursor[a] + 1 \in 0..NProviders + 1
    BY NProvidersAssumption DEF Providers
  <1>2. WalkTypeOK'
    BY <1>1, NoAnswerType DEF Advance, WalkTypeOK, Places, Walking
  <1>3. Placed'
    BY <1>1 DEF Advance, WalkTypeOK, Placed
  <1> QED BY <1>2, <1>3

LEMMA ReturnType ==
  ASSUME WalkTypeOK, Placed, NEW a \in Actors, Return(a)
  PROVE  WalkTypeOK' /\ Placed'
  <1>1. 0 \in 0..NProviders + 1
    BY NProvidersAssumption
  <1>2. WalkTypeOK'
    BY <1>1, NoAnswerType DEF Return, WalkTypeOK, Places, Walking, Nobody
  <1>3. Placed'
    BY DEF Return, WalkTypeOK, Placed
  <1> QED BY <1>2, <1>3

LEMMA NoteType ==
  ASSUME WalkTypeOK, NEW a \in Actors, cursor[a] \in Providers, NoteServerError(a)
  PROVE  lastError' \in [Actors -> Providers \union {Nobody}]
  BY DEF WalkTypeOK, NoteServerError

\* A walk alone leaves the records and the pumps alone.
LEMMA StillWalking ==
  ASSUME TypeInv, UNCHANGED <<kind, providerVars, pumpVars>>, WalkTypeOK', Placed'
  PROVE  TypeInv'
  BY DEF TypeInv, HealthInv, HealthTypeOK, OnlineResetsAttempts, FlagsTypeOK,
         PumpTypeOK, providerVars, pumpVars

\* The records alone leave the walks and the pumps alone.
LEMMA StillMarking ==
  ASSUME TypeInv, UNCHANGED <<kind, walkVars, pumpVars>>, HealthInv', FlagsTypeOK'
  PROVE  TypeInv'
  BY DEF TypeInv, WalkTypeOK, PumpTypeOK, Placed, walkVars, pumpVars

LEMMA InitType == Init => TypeInv
  <1> SUFFICES ASSUME Init PROVE TypeInv
    OBVIOUS
  <1>1. HealthInv /\ FlagsTypeOK
    <2>1. PICK up \in SUBSET Providers :
            /\ online = [p \in Providers |-> p \in up]
            /\ attempt = [p \in Providers |-> IF p \in up THEN 0 ELSE 1]
      BY DEF Init
    <2>2. 0 \in 0..AttemptCap /\ 1 \in 0..AttemptCap /\ 0 \in Ages
      BY CapAssumption DEF Ages, Never
    <2>3. online \in [Providers -> BOOLEAN] /\ attempt \in [Providers -> 0..AttemptCap]
      BY <2>1, <2>2
    <2>4. OnlineResetsAttempts
      BY <2>1 DEF OnlineResetsAttempts
    <2>5. /\ rateLimitedFor \in [Providers -> Nat]
          /\ sinceStateChange \in [Providers -> Ages]
          /\ FlagsTypeOK
      BY <2>2, TTLAssumption DEF Init, FlagsTypeOK
    <2> QED BY <2>3, <2>4, <2>5 DEF HealthInv, HealthTypeOK
  <1>2. WalkTypeOK /\ Placed
    BY NProvidersAssumption, NoAnswerType
    DEF Init, WalkTypeOK, Placed, Places, Walking, Nobody
  <1>3. PumpTypeOK
    BY DEF Init, PumpTypeOK, EmptyPending
  <1> QED BY <1>1, <1>2, <1>3 DEF Init, TypeInv

LEMMA BeginLeaveType ==
  ASSUME TypeInv, UNCHANGED kind, NEW a \in Actors,
         Leave(a) \/ \E r \in Incoming : Begin(a, r)
  PROVE  TypeInv'
  <1>1. CASE Leave(a)
    <2>1. WalkTypeOK' /\ Placed'
      BY <1>1 DEF TypeInv, Leave, WalkTypeOK, Placed
    <2> QED BY <1>1, <2>1, StillWalking DEF Leave
  <1>2. ASSUME NEW r \in Incoming, Begin(a, r) PROVE TypeInv'
    <2>1. 1 \in 1..NProviders + 1 /\ 1 \in 0..NProviders + 1
      BY NProvidersAssumption
    <2>2. WalkTypeOK' /\ Placed'
      BY <1>2, <2>1 DEF TypeInv, Begin, WalkTypeOK, Placed, Places, Walking
    <2> QED BY <1>2, <2>2, StillWalking DEF Begin
  <1> QED BY <1>1, <1>2

LEMMA WalkOnType ==
  ASSUME TypeInv, UNCHANGED kind, NEW a \in Actors, WalkOn(a)
  PROVE  TypeInv'
  <1>0. WalkTypeOK /\ Placed /\ HealthInv
    BY DEF TypeInv
  <1>1. CASE Skip(a)
    <2>1. WalkTypeOK' /\ Placed'
      BY <1>0, <1>1, AdvanceType DEF Skip, WalkTypeOK
    <2> QED BY <1>1, <2>1, StillWalking DEF Skip
  <1>2. CASE Ask(a)
    <2>1. WalkTypeOK' /\ Placed'
      BY <1>0, <1>2 DEF Ask, WalkTypeOK, Placed, Places, Walking
    <2> QED BY <1>2, <2>1, StillWalking DEF Ask
  <1>3. CASE GiveUp(a) \/ Exhaust(a)
    <2>1. Return(a) /\ UNCHANGED <<providerVars, pumpVars>>
      BY <1>3 DEF GiveUp, Exhaust
    <2> QED BY <1>0, <2>1, ReturnType, StillWalking
  <1>4. CASE Served(a)
    <2>1. CASE Return(a)
      BY <1>0, <1>4, <2>1, ReturnType, StillWalking DEF Served
    <2>2. CASE /\ at' = [at EXCEPT ![a] = "open"]
               /\ answer' = [answer EXCEPT ![a] = NoAnswer]
               /\ UNCHANGED <<cursor, gone, lastError>>
      <3>1. WalkTypeOK' /\ Placed'
        BY <1>0, <1>4, <2>2, NoAnswerType DEF Served, WalkTypeOK, Placed, Places
      <3> QED BY <1>4, <3>1, StillWalking DEF Served
    <2> QED BY <1>4, <2>1, <2>2 DEF Served
  <1>5. CASE LookAgain(a)
    <2>1. cursor[a] \in Providers
      BY <1>0, <1>5 DEF LookAgain, Placed
    <2>2. CASE at' = [at EXCEPT ![a] = "marking"] /\ UNCHANGED <<cursor, answer, lastError>>
      <3>1. WalkTypeOK' /\ Placed'
        BY <1>0, <1>5, <2>1, <2>2 DEF LookAgain, WalkTypeOK, Placed, Places, Walking
      <3> QED BY <1>5, <3>1, StillWalking DEF LookAgain
    <2>3. CASE Advance(a) /\ NoteServerError(a)
      <3>1. WalkTypeOK' /\ Placed'
        BY <1>0, <1>5, <2>1, <2>3, AdvanceType, NoteType DEF LookAgain
      <3> QED BY <1>5, <3>1, StillWalking DEF LookAgain
    <2> QED BY <1>5, <2>2, <2>3 DEF LookAgain
  <1>6. CASE Mark(a)
    <2>1. cursor[a] \in Providers
      BY <1>0, <1>6 DEF Mark, Placed
    <2>2. WalkTypeOK' /\ Placed'
      BY <1>0, <1>6, <2>1, AdvanceType, NoteType DEF Mark
    <2>3. answer[a].err \in [limited : BOOLEAN, retryAfter : Nat]
      BY <1>0, MarkErrorsType DEF WalkTypeOK
    <2>4. HealthInv'
      BY <1>0, <1>6, <2>1, <2>3, MarkUnhealthyInvariant DEF Mark
    <2> QED BY <1>6, <2>2, <2>4 DEF Mark, TypeInv, FlagsTypeOK, PumpTypeOK, pumpVars
  <1>7. ASSUME NEW x \in Exchanges(a, cursor[a]), ExchangeEnds(a, x) PROVE TypeInv'
    <2>1. cursor[a] \in Providers
      BY <1>0, <1>7 DEF ExchangeEnds, Placed
    <2>2. x \in [how : AnswerKinds, err : MarkErrors] /\ x.err.retryAfter \in Nat
      BY ExchangeType
    <2>3. HealthInv'
      <3>1. CASE HandleTooManyRequests(cursor[a], x.err.retryAfter)
        BY <1>0, <1>7, <2>1, <2>2, <3>1, HandleTooManyRequestsInvariant DEF ExchangeEnds
      <3>2. CASE UNCHANGED rateLimitedFor
        BY <1>0, <1>7, <3>2
        DEF ExchangeEnds, HealthInv, HealthTypeOK, OnlineResetsAttempts
      <3> QED BY <1>7, <3>1, <3>2 DEF ExchangeEnds
    <2>4. WalkTypeOK' /\ Placed'
      BY <1>0, <1>7, <2>1, <2>2 DEF ExchangeEnds, WalkTypeOK, Placed, Places, Walking
    <2> QED BY <1>7, <2>3, <2>4
        DEF ExchangeEnds, TypeInv, FlagsTypeOK, PumpTypeOK, pumpVars
  <1> QED BY <1>1, <1>2, <1>3, <1>4, <1>5, <1>6, <1>7 DEF WalkOn

LEMMA CloseSessionType ==
  ASSUME TypeInv, NEW s \in Sessions, CloseSession(s)
  PROVE  WalkTypeOK' /\ Placed' /\ PumpTypeOK'
  <1>1. WalkTypeOK' /\ Placed'
    BY ReturnType, ActorsOf DEF CloseSession, TypeInv
  <1>2. PumpTypeOK'
    BY DEF CloseSession, TypeInv, PumpTypeOK, EmptyPending
  <1> QED BY <1>1, <1>2

LEMMA SessionType ==
  ASSUME TypeInv, UNCHANGED kind, NEW s \in Sessions, Converse(s) \/ CheckPrimary(s)
  PROVE  TypeInv'
  <1>1. CASE HangUp(s) \/ CheckPrimary(s)
    <2>1. CloseSession(s) /\ UNCHANGED providerVars
      BY <1>1 DEF HangUp, CheckPrimary
    <2> QED BY <2>1, CloseSessionType
        DEF TypeInv, providerVars, HealthInv, HealthTypeOK, OnlineResetsAttempts, FlagsTypeOK
  <1>2. ASSUME NEW id \in AnyId, NEW m \in Methods, SendRequest(s, id, m)
        PROVE  TypeInv'
    <2>1. [id |-> id, method |-> m] \in InFlight
      BY DEF InFlight
    <2>2. inFlight' \in [Sessions -> SUBSET InFlight]
      BY <1>2, <2>1 DEF SendRequest, TypeInv, PumpTypeOK
    <2>3. pending' \in [Sessions -> [Keys -> Methods \union {NoMethod}]]
      BY <1>2 DEF SendRequest, TrackPending, TypeInv, PumpTypeOK, AnyId
    <2>4. careless' \in [Sessions -> BOOLEAN]
      BY <1>2 DEF SendRequest, TypeInv, PumpTypeOK
    <2> QED BY <1>2, <2>2, <2>3, <2>4
        DEF SendRequest, TypeInv, PumpTypeOK, WalkTypeOK, Placed, walkVars, providerVars,
            HealthInv, HealthTypeOK, OnlineResetsAttempts, FlagsTypeOK
  <1>3. ASSUME NEW r \in inFlight[s], NEW id \in AnyId, NEW c \in Codes,
               Respond(s, r, id, c)
        PROVE  TypeInv'
    <2>1. cursor[s] \in Providers /\ HealthInv
      BY <1>3, ActorsOf DEF Respond, TypeInv, Placed
    <2>2. CASE Takes(Disposition(kind, c))
      <3>1. PICK e \in MarkErrors : MarkUnhealthy(cursor[s], e)
        BY <1>3, <2>2, LimitedTypes DEF Respond, Provides
      <3>2. HealthInv'
        BY <2>1, <3>1, MarkErrorsType, MarkUnhealthyInvariant
      <3>3. CloseSession(s) /\ UNCHANGED unsupportedFor
        BY <1>3, <2>2 DEF Respond
      <3> QED BY <3>2, <3>3, CloseSessionType DEF TypeInv, FlagsTypeOK
    <2>3. CASE ~Takes(Disposition(kind, c))
      <3>1. /\ inFlight' = [inFlight EXCEPT ![s] = @ \ {r}]
            /\ pending' = [pending EXCEPT ![s] =
                             [i \in Keys |-> IF i = id THEN NoMethod ELSE @[i]]]
            /\ UNCHANGED <<careless, walkVars, health>>
        BY <1>3, <2>3 DEF Respond
      <3>2. PumpTypeOK'
        BY <3>1 DEF TypeInv, PumpTypeOK
      <3>3. FlagsTypeOK'
        <4>1. CASE MarkMethodUnsupported(Provides(s), {MethodOf(s, id)})
          BY <2>1, <4>1, MarkMethodUnsupportedInvariant DEF TypeInv, Provides
        <4>2. CASE UNCHANGED unsupportedFor
          BY <4>2 DEF TypeInv, FlagsTypeOK
        <4> QED BY <1>3, <2>3, <4>1, <4>2 DEF Respond
      <3> QED BY <3>1, <3>2, <3>3 DEF TypeInv, WalkTypeOK, Placed, walkVars, health,
              HealthInv, HealthTypeOK, OnlineResetsAttempts
    <2> QED BY <2>2, <2>3
  <1> QED BY <1>1, <1>2, <1>3 DEF Converse

LEMMA WorkerType ==
  ASSUME TypeInv, UNCHANGED kind, Tick \/ \E p \in Providers : CheckPasses(p) \/ CheckFails(p)
  PROVE  TypeInv'
  <1>1. CASE Tick
    BY <1>1, TickInvariant, StillMarking DEF Tick, TypeInv
  <1>2. ASSUME NEW p \in Providers, CheckPasses(p) PROVE TypeInv'
    BY <1>2, MarkHealthyInvariant, StillMarking DEF CheckPasses, TypeInv, FlagsTypeOK
  <1>3. ASSUME NEW p \in Providers, CheckFails(p) PROVE TypeInv'
    <2>1. PICK e \in MarkErrors : MarkUnhealthy(p, e)
      BY <1>3, LimitedTypes DEF CheckFails
    <2>2. HealthInv'
      BY <2>1, MarkErrorsType, MarkUnhealthyInvariant DEF TypeInv
    <2> QED BY <1>3, <2>2, StillMarking DEF CheckFails, TypeInv, FlagsTypeOK
  <1> QED BY <1>1, <1>2, <1>3

LEMMA TypeInvariant == Spec => []TypeInv
  <1>1. ASSUME TypeInv, [Next]_vars PROVE TypeInv'
    <2>1. CASE UNCHANGED vars
      BY <1>1, <2>1 DEF vars, walkVars, pumpVars, providerVars, TypeInv, HealthInv, HealthTypeOK,
         OnlineResetsAttempts, FlagsTypeOK, WalkTypeOK, PumpTypeOK, Placed
    <2>2. CASE Next
      BY <1>1, <2>2, BeginLeaveType, WalkOnType, SessionType, WorkerType DEF Next
    <2> QED BY <1>1, <2>1, <2>2
  <1> QED BY <1>1, InitType, PTL DEF Spec

\* Transports.TypeOK: every variable stays in its type.
THEOREM TypeCorrect == Spec => []TypeOK
  <1>1. TypeInv => TypeOK
    BY DEF TypeInv, TypeOK, ProviderTypeOK, HealthInv, WalkTypeOK, PumpTypeOK
  <1> QED BY <1>1, TypeInvariant, PTL

-----------------------------------------------------------------------------
(***************************************************************************)
(* Safety.  A reliable provider fails an exchange only for a client that   *)
(* is gone, so nobody marks it (Faulty); a walk has passed none that could *)
(* have served it (NoneMissed).  As long as a session's client is careful  *)
(* with its ids, pending knows the method of every request in flight that  *)
(* has one, and null is nobody's id (Tracked).                             *)
(***************************************************************************)
Faulty ==
    \A a \in Actors : cursor[a] \in Reliable =>
        /\ at[a] # "marking"
        /\ at[a] = "judging" => answer[a].how = "served" \/ gone[a]

NoneMissed ==
    \A a \in Actors, p \in Reliable :
        at[a] \in Walking /\ (a \in Sessions => p \in HasWs) => cursor[a] =< p

Tracked(s) ==
    /\ pending[s][NullId] = NoMethod
    /\ \A r \in inFlight[s] :
          r.id # NoId => r.id # NullId /\ pending[s][r.id] = r.method

WalkInv == ReliableStaysOnline /\ Faulty /\ NoneMissed
PumpInv == \A s \in Sessions : careless[s] \/ Tracked(s)

\* An exchange a reliable provider was asked in is served, or its client is gone.
LEMMA ReliableExchange ==
  ASSUME NEW a, NEW p \in Reliable, NEW x \in Exchanges(a, p)
  PROVE  x.how = "served" \/ gone[a]
  BY DEF Exchanges, Ended

\* MarkUnhealthy takes no other provider offline.
LEMMA MarkOthers ==
  ASSUME TypeInv, NEW p, p \notin Reliable, NEW e, MarkUnhealthy(p, e), ReliableStaysOnline
  PROVE  ReliableStaysOnline'
  BY TransportsAssumption
  DEF MarkUnhealthy, ReliableStaysOnline, TypeInv, HealthInv, HealthTypeOK

\* A walk that goes on from p has missed nobody if p could not serve it.
LEMMA AdvanceMissesNobody ==
  ASSUME TypeInv, Faulty, NoneMissed, NEW a \in Actors, Advance(a), UNCHANGED gone,
         at[a] \in Walking, cursor[a] \in Providers,
         cursor[a] \in Reliable => (a \in Sessions /\ cursor[a] \notin HasWs)
  PROVE  Faulty' /\ NoneMissed'
  <1>0. cursor \in [Actors -> 0..NProviders + 1] /\ at \in [Actors -> Places]
        /\ answer \in [Actors -> [how : AnswerKinds, err : MarkErrors]]
    BY DEF TypeInv, WalkTypeOK
  <1>1. Faulty'
    BY <1>0 DEF Advance, Faulty
  <1>2. ASSUME NEW b \in Actors, NEW p \in Reliable,
               at'[b] \in Walking, b \in Sessions => p \in HasWs
        PROVE  cursor'[b] =< p
    <2>1. CASE b # a
      BY <1>0, <1>2, <2>1 DEF Advance, NoneMissed
    <2>2. CASE b = a
      <3>1. cursor[a] =< p /\ cursor[a] # p
        BY <1>2, <2>2 DEF NoneMissed
      <3>2. cursor[a] \in Int /\ p \in Int
        BY TransportsAssumption DEF Providers
      <3> QED BY <1>0, <2>2, <3>1, <3>2 DEF Advance
    <2> QED BY <2>1, <2>2
  <1> QED BY <1>1, <1>2 DEF NoneMissed

LEMMA ReturnMissesNobody ==
  ASSUME TypeInv, Faulty, NoneMissed, NEW a \in Actors, Return(a)
  PROVE  Faulty' /\ NoneMissed'
  BY TransportsAssumption
  DEF Return, Faulty, NoneMissed, TypeInv, WalkTypeOK, Walking, Nobody, Providers

\* The two ways past a provider that failed need it to be a fault of its own.
LEMMA FaultsAreOwn ==
  ASSUME TypeInv, Faulty, NEW a \in Actors,
         \/ at[a] = "marking"
         \/ at[a] = "judging" /\ ~gone[a] /\ answer[a].how # "served"
  PROVE  cursor[a] \in Providers \ Reliable /\ at[a] \in Walking
  BY DEF Faulty, TypeInv, Placed, Walking

LEMMA WalkOnSafe ==
  ASSUME TypeInv, WalkInv, NEW a \in Actors, WalkOn(a)
  PROVE  WalkInv'
  <1>0. /\ Faulty /\ NoneMissed /\ ReliableStaysOnline
        /\ at \in [Actors -> Places] /\ cursor \in [Actors -> 0..NProviders + 1]
        /\ answer \in [Actors -> [how : AnswerKinds, err : MarkErrors]]
    BY DEF WalkInv, TypeInv, WalkTypeOK
  <1>1. CASE Skip(a)
    <2>1. cursor[a] \in Reliable => (a \in Sessions /\ cursor[a] \notin HasWs)
      BY <1>0, <1>1 DEF Skip, Usable, ReliableStaysOnline
    <2> QED BY <1>0, <1>1, <2>1, AdvanceMissesNobody
        DEF Skip, Walking, WalkInv, ReliableStaysOnline, providerVars
  <1>2. CASE Ask(a)
    BY <1>0, <1>2 DEF Ask, WalkInv, Faulty, NoneMissed, ReliableStaysOnline, providerVars, Walking
  <1>3. CASE GiveUp(a) \/ Exhaust(a)
    BY <1>0, <1>3, ReturnMissesNobody
    DEF GiveUp, Exhaust, WalkInv, ReliableStaysOnline, providerVars
  <1>4. CASE Served(a)
    <2>1. CASE Return(a)
      BY <1>0, <1>4, <2>1, ReturnMissesNobody
      DEF Served, WalkInv, ReliableStaysOnline, providerVars
    <2>2. CASE at' = [at EXCEPT ![a] = "open"] /\ UNCHANGED <<cursor, gone, lastError>>
               /\ answer' = [answer EXCEPT ![a] = NoAnswer]
      BY <1>0, <1>4, <2>2
      DEF Served, WalkInv, Faulty, NoneMissed, ReliableStaysOnline, providerVars, Walking
    <2> QED BY <1>4, <2>1, <2>2 DEF Served
  <1>5. CASE LookAgain(a)
    <2>1. cursor[a] \in Providers \ Reliable /\ at[a] \in Walking
      BY <1>0, <1>5, FaultsAreOwn DEF LookAgain
    <2>2. CASE at' = [at EXCEPT ![a] = "marking"] /\ UNCHANGED <<cursor, answer, lastError>>
      BY <1>0, <1>5, <2>1, <2>2
      DEF LookAgain, WalkInv, Faulty, NoneMissed, ReliableStaysOnline, providerVars, Walking
    <2>3. CASE Advance(a)
      BY <1>0, <1>5, <2>1, <2>3, AdvanceMissesNobody
      DEF LookAgain, WalkInv, ReliableStaysOnline, providerVars
    <2> QED BY <1>5, <2>2, <2>3 DEF LookAgain
  <1>6. CASE Mark(a)
    <2>1. cursor[a] \in Providers \ Reliable /\ at[a] \in Walking
      BY <1>0, <1>6, FaultsAreOwn DEF Mark
    <2>2. ReliableStaysOnline'
      BY <1>0, <1>6, <2>1, MarkOthers DEF Mark
    <2> QED BY <1>0, <1>6, <2>1, <2>2, AdvanceMissesNobody DEF Mark, WalkInv
  <1>7. ASSUME NEW x \in Exchanges(a, cursor[a]), ExchangeEnds(a, x) PROVE WalkInv'
    <2>1. cursor[a] \in Reliable => x.how = "served" \/ gone[a]
      BY ReliableExchange
    <2>2. Faulty'
      BY <1>0, <1>7, <2>1 DEF ExchangeEnds, Faulty
    <2> QED BY <1>0, <1>7, <2>2
        DEF ExchangeEnds, WalkInv, NoneMissed, ReliableStaysOnline, Walking
  <1> QED BY <1>1, <1>2, <1>3, <1>4, <1>5, <1>6, <1>7 DEF WalkOn

LEMMA BeginLeaveSafe ==
  ASSUME TypeInv, WalkInv, NEW a \in Actors, Leave(a) \/ \E r \in Incoming : Begin(a, r)
  PROVE  WalkInv'
  <1>0. /\ at \in [Actors -> Places] /\ cursor \in [Actors -> 0..NProviders + 1]
        /\ gone \in [Actors -> BOOLEAN]
    BY DEF TypeInv, WalkTypeOK
  <1>1. CASE Leave(a)
    BY <1>0, <1>1 DEF Leave, WalkInv, Faulty, NoneMissed, ReliableStaysOnline, providerVars
  <1>2. ASSUME NEW r \in Incoming, Begin(a, r) PROVE WalkInv'
    <2>1. \A p \in Reliable : 1 =< p
      BY TransportsAssumption DEF Providers
    <2> QED BY <1>0, <1>2, <2>1
        DEF Begin, WalkInv, Faulty, NoneMissed, ReliableStaysOnline, providerVars, Walking
  <1> QED BY <1>1, <1>2

LEMMA CloseSessionSafe ==
  ASSUME TypeInv, WalkInv, NEW s \in Sessions, CloseSession(s)
  PROVE  Faulty' /\ NoneMissed'
  BY ActorsOf, ReturnMissesNobody DEF CloseSession, WalkInv

LEMMA SessionSafe ==
  ASSUME TypeInv, WalkInv, NEW s \in Sessions, Converse(s) \/ CheckPrimary(s)
  PROVE  WalkInv'
  <1>1. CASE HangUp(s) \/ CheckPrimary(s)
    BY <1>1, CloseSessionSafe
    DEF HangUp, CheckPrimary, WalkInv, ReliableStaysOnline, providerVars
  <1>2. ASSUME NEW id, NEW m, SendRequest(s, id, m) PROVE WalkInv'
    BY <1>2 DEF SendRequest, WalkInv, Faulty, NoneMissed, ReliableStaysOnline,
       walkVars, providerVars
  <1>3. ASSUME NEW r \in inFlight[s], NEW id, NEW c \in Codes, Respond(s, r, id, c)
        PROVE  WalkInv'
    <2>1. CASE Takes(Disposition(kind, c))
      <3>1. cursor[s] \notin Reliable
        BY <1>3, <2>1 DEF Respond, Replies, Provides
      <3>2. PICK e : MarkUnhealthy(cursor[s], e)
        BY <1>3, <2>1 DEF Respond, Provides
      <3>3. ReliableStaysOnline'
        BY <3>1, <3>2, MarkOthers DEF WalkInv
      <3> QED BY <1>3, <2>1, <3>3, CloseSessionSafe DEF Respond, WalkInv
    <2>2. CASE ~Takes(Disposition(kind, c))
      BY <1>3, <2>2 DEF Respond, WalkInv, Faulty, NoneMissed, ReliableStaysOnline,
         walkVars, health
    <2> QED BY <2>1, <2>2
  <1> QED BY <1>1, <1>2, <1>3 DEF Converse

LEMMA WorkerSafe ==
  ASSUME TypeInv, WalkInv, Tick \/ \E p \in Providers : CheckPasses(p) \/ CheckFails(p)
  PROVE  WalkInv'
  <1>1. CASE Tick
    BY <1>1 DEF Tick, TickProviders, WalkInv, Faulty, NoneMissed, ReliableStaysOnline, walkVars
  <1>2. ASSUME NEW p \in Providers, CheckPasses(p) PROVE WalkInv'
    <2>1. online' = online \/ online' = [online EXCEPT ![p] = TRUE]
      BY <1>2 DEF CheckPasses, MarkHealthy, health
    <2>2. ReliableStaysOnline'
      BY <2>1, TransportsAssumption
      DEF WalkInv, ReliableStaysOnline, TypeInv, HealthInv, HealthTypeOK
    <2> QED BY <1>2, <2>2 DEF CheckPasses, WalkInv, Faulty, NoneMissed, walkVars
  <1>3. ASSUME NEW p \in Providers, CheckFails(p) PROVE WalkInv'
    <2>1. PICK e : MarkUnhealthy(p, e)
      BY <1>3 DEF CheckFails
    <2>2. ReliableStaysOnline'
      BY <1>3, <2>1, MarkOthers DEF CheckFails, WalkInv
    <2> QED BY <1>3, <2>2 DEF CheckFails, WalkInv, Faulty, NoneMissed, walkVars
  <1> QED BY <1>1, <1>2, <1>3

LEMMA WalkInvariant == Spec => []WalkInv
  <1>1. Init => WalkInv
    BY TransportsAssumption DEF Init, WalkInv, Faulty, NoneMissed, ReliableStaysOnline, Walking
  <1>2. ASSUME TypeInv, WalkInv, [Next]_vars PROVE WalkInv'
    <2>1. CASE UNCHANGED vars
      BY <1>2, <2>1 DEF vars, walkVars, providerVars, WalkInv, Faulty, NoneMissed,
         ReliableStaysOnline
    <2>2. CASE Next
      BY <1>2, <2>2, BeginLeaveSafe, WalkOnSafe, SessionSafe, WorkerSafe DEF Next
    <2> QED BY <1>2, <2>1, <2>2
  <1> QED BY <1>1, <1>2, TypeInvariant, PTL DEF Spec

\* Transports.ReliableStaysOnline: no client takes a working provider out of rotation.
THEOREM ClientsTakeNobodyOffline == Spec => []ReliableStaysOnline
  BY WalkInvariant, PTL DEF WalkInv

\* Transports.ReliableServes: a walk that ends in vain has passed no provider that
\* could have served it.
THEOREM WalksAreComplete == Spec => []ReliableServes
  <1>1. TypeInv /\ WalkInv => ReliableServes
    <2> SUFFICES ASSUME TypeInv, WalkInv, NEW a \in Actors, NEW p \in Reliable,
                        Exhausted(a), Usable(a, p)
                 PROVE  FALSE
      BY DEF ReliableServes
    <2>1. cursor[a] =< p /\ p \in Providers
      BY TransportsAssumption DEF Exhausted, Usable, WalkInv, NoneMissed, Walking
    <2>2. cursor[a] \in 1..NProviders + 1 /\ cursor[a] \notin Providers
      BY DEF Exhausted, TypeInv, Placed
    <2> QED BY <2>1, <2>2, NProvidersAssumption DEF Providers
  <1> QED BY <1>1, TypeInvariant, WalkInvariant, PTL

-----------------------------------------------------------------------------
(***************************************************************************)
(* What is left of a walk: four things at each provider to come (the look  *)
(* at it, the exchange, the look at its end, the mark), and what is still  *)
(* to be done at this one.                                                 *)
(***************************************************************************)
StillToDo(a) ==
    CASE at[a] = "walking" -> 3
      [] at[a] = "asking" -> 2
      [] at[a] = "judging" -> 1
      [] OTHER -> 0

Rank(a) == 4 * (NProviders + 1 - cursor[a]) + StillToDo(a)

ComesNearer(a) == at'[a] \in {"idle", "open"} \/ Rank(a)' < Rank(a)

\* Each step of a walk brings it nearer to its end, and nobody sets it back.
NeverSetBack ==
    [][\A a \in Actors : at[a] \in Walking =>
         /\ WalkOn(a) => ComesNearer(a)
         /\ UNCHANGED <<at[a], cursor[a]>> \/ ComesNearer(a)]_vars

LEMMA RankType ==
  ASSUME TypeInv, NEW a \in Actors
  PROVE  Rank(a) \in Nat /\ StillToDo(a) \in 0..3 /\ cursor[a] \in 0..NProviders + 1
  <1>1. cursor[a] \in 0..NProviders + 1
    BY DEF TypeInv, WalkTypeOK
  <1>2. StillToDo(a) \in 0..3
    BY DEF StillToDo
  <1> QED BY <1>1, <1>2, NProvidersAssumption DEF Rank

LEMMA WalkOnComesNearer ==
  ASSUME TypeInv, NEW a \in Actors, WalkOn(a)
  PROVE  ComesNearer(a)
  <1>0. /\ cursor[a] \in 0..NProviders + 1 /\ NProviders \in Nat
        /\ StillToDo(a) \in 0..3
        /\ at \in [Actors -> Places] /\ cursor \in [Actors -> 0..NProviders + 1]
    BY RankType, NProvidersAssumption DEF TypeInv, WalkTypeOK
  <1>1. ASSUME Advance(a) PROVE ComesNearer(a)
    <2>1. cursor'[a] = cursor[a] + 1 /\ StillToDo(a)' = 3
      BY <1>0, <1>1 DEF Advance, StillToDo
    <2> QED BY <1>0, <2>1 DEF ComesNearer, Rank
  <1>2. ASSUME cursor' = cursor, StillToDo(a)' < StillToDo(a), StillToDo(a)' \in 0..3
        PROVE  ComesNearer(a)
    BY <1>0, <1>2 DEF ComesNearer, Rank
  <1>3. ASSUME Return(a) PROVE ComesNearer(a)
    BY <1>0, <1>3 DEF Return, ComesNearer
  <1>4. CASE Skip(a) \/ Mark(a) \/ GiveUp(a) \/ Exhaust(a)
    BY <1>1, <1>3, <1>4 DEF Skip, Mark, GiveUp, Exhaust
  <1>5. CASE Served(a)
    BY <1>0, <1>3, <1>5 DEF Served, ComesNearer
  <1>6. CASE Ask(a) \/ \E x \in Exchanges(a, cursor[a]) : ExchangeEnds(a, x)
    BY <1>0, <1>2, <1>6 DEF Ask, ExchangeEnds, StillToDo
  <1>7. CASE LookAgain(a)
    BY <1>0, <1>1, <1>2, <1>7 DEF LookAgain, StillToDo
  <1> QED BY <1>4, <1>5, <1>6, <1>7 DEF WalkOn

\* The steps of others.
LEMMA OthersLeaveItThere ==
  ASSUME TypeInv, NEW a \in Actors, at[a] \in Walking, NEW b \in Actors, b # a,
         \/ WalkOn(b) \/ Leave(b) \/ \E r \in Incoming : Begin(b, r)
         \/ b \in Sessions /\ (Converse(b) \/ CheckPrimary(b))
  PROVE  UNCHANGED <<at[a], cursor[a]>>
  <1>1. at \in [Actors -> Places] /\ cursor \in [Actors -> 0..NProviders + 1]
    BY DEF TypeInv, WalkTypeOK
  <1>2. CASE WalkOn(b)
    BY <1>1, <1>2 DEF WalkOn, Skip, Ask, GiveUp, Served, LookAgain, Mark, Exhaust, ExchangeEnds,
       Advance, Return
  <1>3. CASE Leave(b) \/ \E r \in Incoming : Begin(b, r)
    BY <1>1, <1>3 DEF Leave, Begin
  <1>4. CASE b \in Sessions /\ (Converse(b) \/ CheckPrimary(b))
    BY <1>1, <1>4 DEF Converse, SendRequest, Respond, HangUp, CheckPrimary, CloseSession, Return,
       walkVars
  <1> QED BY <1>2, <1>3, <1>4

(***************************************************************************)
(* Every walk is bounded (the loops of IncomingHTTPAPIHandler and          *)
(* DialAnyProvider): what is left of one is a natural number, each step of *)
(* its goroutine makes it smaller or ends the walk, and no client, pump,   *)
(* healthcheck or tick makes it larger.                                    *)
(***************************************************************************)
THEOREM WalksAreBounded == Spec => NeverSetBack /\ [](\A a \in Actors : Rank(a) \in Nat)
  <1> DEFINE Nearer == \A a \in Actors : at[a] \in Walking =>
                         /\ WalkOn(a) => ComesNearer(a)
                         /\ UNCHANGED <<at[a], cursor[a]>> \/ ComesNearer(a)
             Ranked == \A a \in Actors : Rank(a) \in Nat
  <1>1. TypeInv => Ranked
    BY RankType
  <1>2. ASSUME TypeInv, [Next]_vars PROVE [Nearer]_vars
    <2>1. ASSUME NEW a \in Actors, at[a] \in Walking
          PROVE  /\ WalkOn(a) => ComesNearer(a)
                 /\ UNCHANGED <<at[a], cursor[a]>> \/ ComesNearer(a)
      <3>1. WalkOn(a) => ComesNearer(a)
        BY <1>2, WalkOnComesNearer
      <3>2. ASSUME Leave(a) \/ \E r \in Incoming : Begin(a, r) PROVE UNCHANGED <<at[a], cursor[a]>>
        BY <2>1, <3>2 DEF Leave, Begin, Walking
      <3>3. a \in Sessions => ~Converse(a) /\ ~CheckPrimary(a)
        <4>1. at[a] # "open"
          BY <2>1 DEF Walking
        <4> QED BY <4>1 DEF Converse, SendRequest, Respond, HangUp, CheckPrimary, PrimaryIsBack
      <3>4. \/ UNCHANGED walkVars
            \/ \E b \in Actors : \/ WalkOn(b) \/ Leave(b) \/ \E r \in Incoming : Begin(b, r)
                                 \/ b \in Sessions /\ (Converse(b) \/ CheckPrimary(b))
        BY <1>2, ActorsOf DEF Next, Tick, CheckPasses, CheckFails, vars
      <3>5. CASE UNCHANGED walkVars
        BY <3>1, <3>5 DEF walkVars
      <3>6. ASSUME NEW b \in Actors,
                   \/ WalkOn(b) \/ Leave(b) \/ \E r \in Incoming : Begin(b, r)
                   \/ b \in Sessions /\ (Converse(b) \/ CheckPrimary(b))
            PROVE  UNCHANGED <<at[a], cursor[a]>> \/ ComesNearer(a)
        <4>1. CASE b = a
          BY <3>1, <3>2, <3>3, <3>6, <4>1
        <4>2. CASE b # a
          BY <1>2, <2>1, <3>6, <4>2, OthersLeaveItThere
        <4> QED BY <4>1, <4>2
      <3> QED BY <3>1, <3>4, <3>5, <3>6
    <2> QED BY <2>1
  <1>3. TypeInv /\ [Next]_vars => [Nearer]_vars
    BY <1>2
  <1> QED BY <1>1, <1>3, TypeInvariant, PTL DEF Spec, NeverSetBack

-----------------------------------------------------------------------------
(***************************************************************************)
(* What the pumps put the errors down to.                                  *)
(***************************************************************************)
Attributed ==
    \A p \in Providers, m \in Methods :
        Flagged(p, m) /\ m \notin Lacks[p] => OfCareless(p)

PumpTypes ==
    /\ inFlight \in [Sessions -> SUBSET InFlight]
    /\ pending \in [Sessions -> [Keys -> Methods \union {NoMethod}]]
    /\ careless \in [Sessions -> BOOLEAN]

LEMMA KeysOf == \A id \in AnyId : id # NoId => id \in Keys
  BY DEF AnyId

LEMMA PumpsLeftAlone ==
  ASSUME PumpInv, UNCHANGED pumpVars
  PROVE  PumpInv'
  BY DEF PumpInv, Tracked, pumpVars

\* No flag is set where the time it stays does not grow.
LEMMA NoFlagSet ==
  ASSUME TypeInv, UNCHANGED unsupportedFor \/ Tick
  PROVE  Attributed
  <1> SUFFICES ASSUME NEW p \in Providers, NEW m \in Methods
               PROVE  ~(unsupportedFor'[p][m] > unsupportedFor[p][m])
    BY DEF Attributed, Flagged
  <1>1. unsupportedFor[p][m] \in Nat
    BY TTLAssumption DEF TypeInv, FlagsTypeOK
  <1>2. CASE UNCHANGED unsupportedFor
    BY <1>1, <1>2
  <1>3. CASE Tick
    <2>1. unsupportedFor'[p][m] = CountDown(unsupportedFor[p][m])
      BY <1>3 DEF Tick, TickProviders
    <2> QED BY <1>1, <2>1 DEF CountDown
  <1> QED BY <1>2, <1>3

LEMMA WalksLeavePumpsAlone ==
  ASSUME NEW a \in Actors, WalkOn(a) \/ Leave(a) \/ \E r \in Incoming : Begin(a, r)
  PROVE  UNCHANGED <<pumpVars, unsupportedFor>>
  BY DEF WalkOn, Skip, Ask, GiveUp, Served, LookAgain, Mark, Exhaust, ExchangeEnds,
     Leave, Begin, providerVars

\* What one session does to its pump leaves those of the others alone.
LEMMA OtherPumps ==
  ASSUME PumpInv, NEW s \in Sessions, careless'[s] \/ Tracked(s)',
         \A t \in Sessions \ {s} : /\ inFlight'[t] = inFlight[t] /\ pending'[t] = pending[t]
                                   /\ careless'[t] = careless[t]
  PROVE  PumpInv'
  BY DEF PumpInv, Tracked

LEMMA CloseSessionForgets ==
  ASSUME PumpTypes, PumpInv, NEW s \in Sessions, CloseSession(s)
  PROVE  PumpInv'
  <1>1. inFlight'[s] = {} /\ pending'[s] = EmptyPending
    BY DEF CloseSession, PumpTypes
  <1>2. Tracked(s)'
    BY <1>1 DEF Tracked, EmptyPending, Keys
  <1> QED BY <1>2, OtherPumps DEF CloseSession, PumpTypes

LEMMA SendRequestTracks ==
  ASSUME PumpTypes, PumpInv, NEW s \in Sessions,
         NEW id \in AnyId, NEW m, SendRequest(s, id, m)
  PROVE  PumpInv'
  <1>1. \A t \in Sessions \ {s} : /\ inFlight'[t] = inFlight[t] /\ pending'[t] = pending[t]
                                  /\ careless'[t] = careless[t]
    BY DEF SendRequest, TrackPending, PumpTypes
  <1>2. CASE careless[s] \/ IsAmbiguous(s, id)
    <2>1. careless'[s]
      BY <1>2 DEF SendRequest, PumpTypes
    <2> QED BY <1>1, <2>1, OtherPumps
  <1>3. CASE ~careless[s] /\ ~IsAmbiguous(s, id)
    <2>1. Tracked(s) /\ id # NullId
      BY <1>3 DEF PumpInv, IsAmbiguous
    <2>2. pending'[s][NullId] = NoMethod
      BY <2>1 DEF SendRequest, TrackPending, Tracked, PumpTypes
    <2>3. ASSUME NEW r \in inFlight'[s], r.id # NoId
          PROVE  r.id # NullId /\ pending'[s][r.id] = r.method
      <3>1. CASE r = [id |-> id, method |-> m]
        <4>1. id \in Keys /\ r.id = id /\ r.method = m
          BY <2>3, <3>1, KeysOf
        <4>2. pending' = [pending EXCEPT ![s][id] = m]
          BY <2>3, <4>1 DEF SendRequest, TrackPending
        <4> QED BY <2>1, <4>1, <4>2 DEF PumpTypes
      <3>2. CASE r \in inFlight[s]
        <4>1. id = NoId \/ r.id # id
          BY <1>3, <3>2 DEF IsAmbiguous
        <4>2. r.id \in Keys
          BY <2>3, <3>2, KeysOf DEF PumpTypes, InFlight
        <4>3. pending'[s][r.id] = pending[s][r.id]
          BY <4>1, <4>2 DEF SendRequest, TrackPending, PumpTypes
        <4> QED BY <2>1, <2>3, <3>2, <4>3 DEF Tracked
      <3> QED BY <2>3, <3>1, <3>2 DEF SendRequest, PumpTypes
    <2>4. Tracked(s)'
      BY <2>2, <2>3 DEF Tracked
    <2> QED BY <1>1, <2>4, OtherPumps
  <1> QED BY <1>2, <1>3

LEMMA RespondTracks ==
  ASSUME PumpTypes, PumpInv, NEW s \in Sessions, NEW r \in inFlight[s],
         NEW id \in AnyId, NEW c \in Codes, Respond(s, r, id, c)
  PROVE  PumpInv'
  <1>1. CASE Takes(Disposition(kind, c))
    BY <1>1, CloseSessionForgets DEF Respond
  <1>2. CASE ~Takes(Disposition(kind, c))
    <2>1. /\ inFlight' = [inFlight EXCEPT ![s] = @ \ {r}]
          /\ pending' = [pending EXCEPT ![s] =
                           [i \in Keys |-> IF i = id THEN NoMethod ELSE @[i]]]
          /\ UNCHANGED careless
          /\ id = r.id \/ id \in {NoId, NullId}
      BY <1>2 DEF Respond
    <2>2. \A t \in Sessions \ {s} : /\ inFlight'[t] = inFlight[t] /\ pending'[t] = pending[t]
                                    /\ careless'[t] = careless[t]
      BY <2>1 DEF PumpTypes
    <2>3. CASE careless[s]
      BY <2>1, <2>2, <2>3, OtherPumps
    <2>4. CASE Tracked(s)
      <3>1. inFlight'[s] = inFlight[s] \ {r}
        BY <2>1 DEF PumpTypes
      <3>2. \A i \in Keys : pending'[s][i] = IF i = id THEN NoMethod ELSE pending[s][i]
        BY <2>1 DEF PumpTypes
      <3>3. pending'[s][NullId] = NoMethod
        BY <2>4, <3>2 DEF Tracked, Keys
      <3>4. ASSUME NEW q \in inFlight'[s], q.id # NoId
            PROVE  q.id # NullId /\ pending'[s][q.id] = q.method
        <4>1. q \in inFlight[s] /\ q # r /\ q \in InFlight /\ r \in InFlight
          BY <3>1, <3>4 DEF PumpTypes
        <4>2. q.id # NullId /\ pending[s][q.id] = q.method
          BY <2>4, <3>4, <4>1 DEF Tracked
        <4>3. q.id = r.id => q.method = r.method
          BY <2>4, <3>4, <4>1, <4>2 DEF Tracked
        <4>4. q.id # r.id
          BY <4>1, <4>3 DEF InFlight
        <4>5. q.id # id /\ q.id \in Keys
          BY <2>1, <3>4, <4>1, <4>2, <4>4, KeysOf DEF InFlight
        <4> QED BY <3>2, <4>2, <4>5
      <3>5. Tracked(s)'
        BY <3>3, <3>4 DEF Tracked
      <3> QED BY <2>2, <3>5, OtherPumps
    <2> QED BY <2>3, <2>4 DEF PumpInv
  <1> QED BY <1>1, <1>2

\* The method a careful session's error is put down to is the one that was asked.
LEMMA RespondAttributes ==
  ASSUME TypeInv, PumpTypes, PumpInv, NEW s \in Sessions, NEW r \in inFlight[s],
         NEW id \in AnyId, NEW c \in Codes, Respond(s, r, id, c)
  PROVE  Attributed
  <1>1. CASE UNCHANGED unsupportedFor
    BY <1>1, NoFlagSet
  <1>2. CASE /\ Disposition(kind, c) = "methodNotSupported"
             /\ MarkMethodUnsupported(cursor[s], {MethodOf(s, id)})
    <2>1. c \in Replies(cursor[s], r.method) /\ at[s] = "open"
      BY DEF Respond, Provides
    <2>2. id = r.id \/ id \in {NoId, NullId}
      BY DEF Respond
    <2>3. r.method \in Lacks[cursor[s]]
      BY <1>2, <2>1 DEF Replies
    <2>4. unsupportedFor \in [Providers -> [Methods -> 0..DefaultUnsupportedMethodTTL]]
      BY DEF TypeInv, FlagsTypeOK
    <2>5. ASSUME NEW p \in Providers, NEW m \in Methods, Flagged(p, m), m \notin Lacks[p]
          PROVE  OfCareless(p)
      <3>1. p = cursor[s] /\ m = MethodOf(s, id)
        <4>1. unsupportedFor[p][m] \in Nat
          BY <2>4, TTLAssumption
        <4>2. unsupportedFor'[p][m] # unsupportedFor[p][m]
          BY <2>5, <4>1 DEF Flagged
        <4> QED BY <1>2, <2>4, <4>2 DEF MarkMethodUnsupported
      <3>2. CASE careless[s]
        BY <2>1, <3>1, <3>2 DEF OfCareless, Provides
      <3>3. CASE Tracked(s)
        <4>1. MethodOf(s, id) \in {r.method, NoMethod}
          BY <2>2, <3>3 DEF MethodOf, Tracked
        <4> QED BY <2>3, <2>5, <3>1, <4>1, TransportsAssumption
      <3> QED BY <3>2, <3>3 DEF PumpInv
    <2> QED BY <2>5 DEF Attributed
  <1> QED BY <1>1, <1>2 DEF Respond, Provides

LEMMA StepsAttribute ==
  ASSUME TypeInv, PumpInv, [Next]_vars
  PROVE  PumpInv' /\ Attributed
  <1>0. PumpTypes
    BY DEF TypeInv, PumpTypeOK, PumpTypes
  <1>1. CASE UNCHANGED vars
    BY <1>1, PumpsLeftAlone, NoFlagSet DEF vars, providerVars
  <1>2. ASSUME NEW a \in Actors, WalkOn(a) \/ Leave(a) \/ \E r \in Incoming : Begin(a, r)
        PROVE  PumpInv' /\ Attributed
    BY <1>2, WalksLeavePumpsAlone, PumpsLeftAlone, NoFlagSet
  <1>3. ASSUME NEW s \in Sessions, Converse(s) \/ CheckPrimary(s)
        PROVE  PumpInv' /\ Attributed
    <2>1. CASE HangUp(s) \/ CheckPrimary(s)
      <3>1. CloseSession(s) /\ UNCHANGED unsupportedFor
        BY <2>1 DEF HangUp, CheckPrimary, providerVars
      <3> QED BY <1>0, <3>1, CloseSessionForgets, NoFlagSet
    <2>2. ASSUME NEW id \in AnyId, NEW m \in Methods, SendRequest(s, id, m)
          PROVE  PumpInv' /\ Attributed
      <3>1. UNCHANGED unsupportedFor
        BY <2>2 DEF SendRequest, providerVars
      <3> QED BY <1>0, <2>2, <3>1, SendRequestTracks, NoFlagSet
    <2> QED BY <1>0, <1>3, <2>1, <2>2, RespondTracks, RespondAttributes DEF Converse
  <1>4. ASSUME NEW p \in Providers, CheckPasses(p) \/ CheckFails(p)
        PROVE  PumpInv' /\ Attributed
    <2>1. UNCHANGED <<pumpVars, unsupportedFor>>
      BY <1>4 DEF CheckPasses, CheckFails
    <2> QED BY <2>1, PumpsLeftAlone, NoFlagSet
  <1>5. CASE Tick
    BY <1>5, PumpsLeftAlone, NoFlagSet DEF Tick
  <1> QED BY <1>1, <1>2, <1>3, <1>4, <1>5 DEF Next

\* Transports.FlagsAreAttributed: whatever ids the clients give, a pump flags a method
\* only on a provider that lacks it, or on one that a careless client is connected to.
THEOREM OnlyCarelessMisattribute == Spec => FlagsAreAttributed
  <1>1. Init => PumpInv
    BY DEF Init, PumpInv, Tracked, EmptyPending, Keys
  <1>2. TypeInv /\ PumpInv /\ [Next]_vars => PumpInv' /\ [Attributed]_vars
    BY StepsAttribute
  <1> QED BY <1>1, <1>2, TypeInvariant, PTL DEF Spec, FlagsAreAttributed, Attributed
=============================================================================
