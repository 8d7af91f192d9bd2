-------------------------- MODULE HealthcheckProofs --------------------------
(***************************************************************************)
(* Theorems about Healthcheck, for any number of providers, chains and     *)
(* heights: its types, then that one endpoint serves one chain and that    *)
(* its tip was reached on that chain, from one inductive invariant.        *)
(***************************************************************************)
EXTENDS Healthcheck, ProviderProofs

-----------------------------------------------------------------------------
(***************************************************************************)
(* Types.  A check has an error to record when it has failed, and a report *)
(* to compare until then.                                                  *)
(***************************************************************************)
CheckTypeOK ==
    /\ chainID \in Chains \union {Configured}
    /\ tip \in Heights
    /\ pc \in [Providers -> Steps]
    /\ info \in [Providers -> NodeInfos \union [chain : {Unknown}, height : {0}]]
    /\ err \in [Providers -> Errors \union {NoError}]
    /\ sleepFor \in [Providers -> Nat]
    /\ serving \in BOOLEAN

WorldTypeOK ==
    /\ genesis \in [Providers -> Chains]
    /\ height \in [Providers -> Heights]
    /\ settled \subseteq Providers
    /\ fault \in [Providers -> Errors \union {NoError}]

Reporting == {"chain", "tip", "observe", "passed"}

HasReport == \A p \in Providers : pc[p] \in Reporting => info[p] \in NodeInfos
HasError == \A p \in Providers : pc[p] \in {"failed", "mark"} => err[p] \in Errors

TypeInv ==
    HealthInv /\ FlagsTypeOK /\ CheckTypeOK /\ WorldTypeOK /\ HasReport /\ HasError

\* Every failure is one MarkUnhealthy can be called with.
LEMMA ErrorType ==
  /\ Failure \in Errors
  /\ \A e \in Errors : e \in [limited : BOOLEAN, retryAfter : Nat]
  <1>1. Failure \in [limited : BOOLEAN, retryAfter : Nat]
    BY DEF Failure
  <1>2. \A r \in RetryAfters : Limited(r) \in [limited : BOOLEAN, retryAfter : Nat]
    BY PaceAssumption DEF Limited
  <1> QED BY <1>1, <1>2 DEF Errors

LEMMA DelayType == \A n \in Nat : NextAttemptDelay(n) \in Nat
  BY PaceAssumption DEF NextAttemptDelay

LEMMA TypeInit == Init => TypeInv
  <1> SUFFICES ASSUME Init PROVE TypeInv
    OBVIOUS
  <1>1. /\ 0 \in 0..AttemptCap /\ 0 \in Ages /\ Never \in Ages
        /\ 0 \in 0..DefaultUnsupportedMethodTTL /\ 0 \in Heights
    BY CapAssumption, TTLAssumption, HeightAssumption DEF Ages, Never, Heights
  <1>2. HealthInv /\ FlagsTypeOK
    BY <1>1 DEF Init, InitProviders, HealthInv, HealthTypeOK, OnlineResetsAttempts,
                FlagsTypeOK
  <1>3. CheckTypeOK /\ HasReport /\ HasError
    BY <1>1 DEF Init, CheckTypeOK, Steps, HasReport, HasError, Reporting
  <1>4. WorldTypeOK
    BY <1>1, FlakyAssumption DEF Init, WorldTypeOK
  <1> QED BY <1>2, <1>3, <1>4 DEF TypeInv

\* What a step leaves alone keeps its type.
LEMMA RecordUnchanged ==
  ASSUME HealthInv, FlagsTypeOK, UNCHANGED providerVars
  PROVE  HealthInv' /\ FlagsTypeOK'
  BY DEF HealthInv, HealthTypeOK, OnlineResetsAttempts, FlagsTypeOK, providerVars

LEMMA FlagsUnchanged == ASSUME FlagsTypeOK, UNCHANGED unsupportedFor PROVE FlagsTypeOK'
  BY DEF FlagsTypeOK

LEMMA WorldUnchanged == ASSUME WorldTypeOK, UNCHANGED worldVars PROVE WorldTypeOK'
  BY DEF WorldTypeOK, worldVars

LEMMA ChecksUnchanged ==
  ASSUME CheckTypeOK, HasReport, HasError, UNCHANGED checkVars
  PROVE  CheckTypeOK' /\ HasReport' /\ HasError'
  BY DEF CheckTypeOK, HasReport, HasError, checkVars

\* A node's failure opens the window, or does nothing to the health record.
LEMMA NodeFailureHealth ==
  ASSUME HealthInv, NEW p \in Providers, NEW e \in Errors,
         IF e.limited THEN HandleTooManyRequests(p, e.retryAfter)
         ELSE UNCHANGED rateLimitedFor,
         UNCHANGED <<online, attempt, sinceStateChange>>
  PROVE  HealthInv'
  <1>1. e.retryAfter \in Nat
    BY ErrorType
  <1>2. CASE e.limited
    BY <1>1, <1>2, HandleTooManyRequestsInvariant
  <1>3. CASE ~e.limited
    BY <1>3 DEF HealthInv, HealthTypeOK, OnlineResetsAttempts
  <1> QED BY <1>2, <1>3

LEMMA CheckType ==
  ASSUME TypeInv, NEW p \in Providers, Check(p)
  PROVE  TypeInv'
  <1> USE DEF TypeInv
  <1>1. ASSUME NodeAnswers(p) PROVE TypeInv'
    <2>1. [chain |-> genesis[p], height |-> height[p]] \in NodeInfos
      BY DEF WorldTypeOK, NodeInfos
    <2>2. CheckTypeOK' /\ HasReport' /\ HasError'
      BY <1>1, <2>1 DEF NodeAnswers, At, GoTo, CheckTypeOK, HasReport, HasError,
                        Reporting, Steps
    <2> QED BY <1>1, <2>2, RecordUnchanged, WorldUnchanged DEF NodeAnswers
  <1>2. ASSUME NodeFails(p) PROVE TypeInv'
    <2>1. PICK e \in Errors :
            /\ Fails(p, e)
            /\ IF e.limited THEN HandleTooManyRequests(p, e.retryAfter)
               ELSE UNCHANGED rateLimitedFor
      BY <1>2 DEF NodeFails
    <2>2. HealthInv'
      BY <1>2, <2>1, NodeFailureHealth DEF NodeFails
    <2>3. CheckTypeOK' /\ HasReport' /\ HasError'
      BY <1>2, <2>1 DEF NodeFails, Fails, At, GoTo, CheckTypeOK, HasReport, HasError,
                        Reporting, Steps
    <2> QED BY <1>2, <2>2, <2>3, FlagsUnchanged, WorldUnchanged DEF NodeFails
  <1>3. ASSUME SetChainID(p) PROVE TypeInv'
    <2>1. info[p] \in NodeInfos
      BY <1>3 DEF SetChainID, At, HasReport, Reporting
    <2>2. chainID' \in Chains \union {Configured}
      BY <1>3, <2>1 DEF SetChainID, CheckTypeOK, NodeInfos
    <2>3. CheckTypeOK' /\ HasReport' /\ HasError'
      BY <1>3, <2>1, <2>2, ErrorType DEF SetChainID, Fails, At, GoTo, CheckTypeOK,
                        HasReport, HasError, Reporting, Steps
    <2> QED BY <1>3, <2>3, RecordUnchanged, WorldUnchanged DEF SetChainID
  <1>4. ASSUME CompareTip(p) PROVE TypeInv'
    <2>1. CheckTypeOK' /\ HasReport' /\ HasError'
      BY <1>4, ErrorType DEF CompareTip, Fails, At, GoTo, CheckTypeOK,
                        HasReport, HasError, Reporting, Steps
    <2> QED BY <1>4, <2>1, RecordUnchanged, WorldUnchanged DEF CompareTip
  <1>5. ASSUME ObserveBlock(p) PROVE TypeInv'
    <2>1. info[p] \in NodeInfos
      BY <1>5 DEF ObserveBlock, At, HasReport, Reporting
    <2>2. tip' \in Heights
      BY <1>5, <2>1 DEF ObserveBlock, CheckTypeOK, NodeInfos
    <2>3. CheckTypeOK' /\ HasReport' /\ HasError'
      BY <1>5, <2>2 DEF ObserveBlock, At, GoTo, CheckTypeOK, HasReport, HasError,
                        Reporting, Steps
    <2> QED BY <1>5, <2>3, RecordUnchanged, WorldUnchanged DEF ObserveBlock
  <1>6. ASSUME FirstCheckPassed(p) \/ CheckPassed(p) PROVE TypeInv'
    <2>1. HealthInv'
      BY <1>6, MarkHealthyInvariant DEF FirstCheckPassed, CheckPassed
    <2>2. CheckTypeOK' /\ HasReport' /\ HasError'
      BY <1>6, PaceAssumption DEF FirstCheckPassed, CheckPassed, Forget, Sleep, At, GoTo,
                        CheckTypeOK, HasReport, HasError, Reporting, Steps
    <2> QED BY <1>6, <2>1, <2>2, FlagsUnchanged, WorldUnchanged
            DEF FirstCheckPassed, CheckPassed
  <1>7. ASSUME FirstCheckFailed(p) \/ CheckFailed(p) PROVE TypeInv'
    <2>1. err[p] \in [limited : BOOLEAN, retryAfter : Nat] /\ MarkUnhealthy(p, err[p])
      BY <1>7, ErrorType DEF FirstCheckFailed, CheckFailed, At, HasError
    <2>2. HealthInv'
      BY <2>1, MarkUnhealthyInvariant
    <2>3. CheckTypeOK' /\ HasReport' /\ HasError'
      BY <1>7 DEF FirstCheckFailed, CheckFailed, Forget, At, GoTo,
                        CheckTypeOK, HasReport, HasError, Reporting, Steps
    <2> QED BY <1>7, <2>2, <2>3, FlagsUnchanged, WorldUnchanged
            DEF FirstCheckFailed, CheckFailed
  <1>8. ASSUME WindowClosed(p) \/ WindowEnds(p) \/ Wake(p) PROVE TypeInv'
    <2>1. CheckTypeOK' /\ HasReport' /\ HasError'
      BY <1>8 DEF WindowClosed, WindowEnds, Wake, At, GoTo,
                        CheckTypeOK, HasReport, HasError, Reporting, Steps
    <2> QED BY <1>8, <2>1, RecordUnchanged, WorldUnchanged
            DEF WindowClosed, WindowEnds, Wake
  <1>9. ASSUME WindowOpen(p) PROVE TypeInv'
    <2>1. rateLimitedFor[p] \in Nat
      BY DEF HealthInv, HealthTypeOK
    <2>2. CheckTypeOK' /\ HasReport' /\ HasError'
      BY <1>9, <2>1 DEF WindowOpen, Sleep, At, GoTo,
                        CheckTypeOK, HasReport, HasError, Reporting, Steps
    <2> QED BY <1>9, <2>2, RecordUnchanged, WorldUnchanged DEF WindowOpen
  <1>10. ASSUME ReadAttempts(p) PROVE TypeInv'
    <2>1. NextAttemptDelay(attempt[p]) \in Nat
      BY DelayType, CapAssumption DEF HealthInv, HealthTypeOK
    <2>2. CheckTypeOK' /\ HasReport' /\ HasError'
      BY <1>10, <2>1 DEF ReadAttempts, Sleep, At, GoTo,
                        CheckTypeOK, HasReport, HasError, Reporting, Steps
    <2> QED BY <1>10, <2>2, RecordUnchanged, WorldUnchanged DEF ReadAttempts
  <1> QED BY <1>1, <1>2, <1>3, <1>4, <1>5, <1>6, <1>7, <1>8, <1>9, <1>10 DEF Check

LEMMA WorldType ==
  ASSUME TypeInv, NEW p \in Providers, World(p)
  PROVE  TypeInv'
  <1> USE DEF TypeInv
  <1>1. ASSUME RequestFails(p) PROVE TypeInv'
    <2>1. PICK e \in Errors :
            /\ fault' = [fault EXCEPT ![p] = e]
            /\ IF e.limited THEN HandleTooManyRequests(p, e.retryAfter)
               ELSE UNCHANGED rateLimitedFor
      BY <1>1 DEF RequestFails
    <2>2. HealthInv'
      BY <1>1, <2>1, NodeFailureHealth DEF RequestFails
    <2>3. WorldTypeOK'
      BY <1>1, <2>1 DEF RequestFails, WorldTypeOK
    <2> QED BY <1>1, <2>2, <2>3, FlagsUnchanged, ChecksUnchanged DEF RequestFails
  <1>2. ASSUME RequestRecordsFault(p) PROVE TypeInv'
    <2>1. fault[p] \in [limited : BOOLEAN, retryAfter : Nat]
      BY <1>2, ErrorType DEF RequestRecordsFault, WorldTypeOK
    <2>2. CASE MarkUnhealthy(p, fault[p])
      <3>1. HealthInv'
        BY <2>1, <2>2, MarkUnhealthyInvariant
      <3>2. WorldTypeOK'
        BY <1>2 DEF RequestRecordsFault, WorldTypeOK
      <3> QED BY <1>2, <3>1, <3>2, FlagsUnchanged, ChecksUnchanged DEF RequestRecordsFault
    <2>3. CASE UNCHANGED health
      <3>1. HealthInv'
        BY <2>3 DEF health, HealthInv, HealthTypeOK, OnlineResetsAttempts
      <3>2. WorldTypeOK'
        BY <1>2 DEF RequestRecordsFault, WorldTypeOK
      <3> QED BY <1>2, <3>1, <3>2, FlagsUnchanged, ChecksUnchanged DEF RequestRecordsFault
    <2> QED BY <1>2, <2>2, <2>3 DEF RequestRecordsFault
  <1>3. ASSUME NodeAdvances(p) PROVE TypeInv'
    <2>1. height[p] + 1 \in Heights
      BY <1>3, HeightAssumption DEF NodeAdvances, WorldTypeOK, Heights
    <2>2. WorldTypeOK'
      BY <1>3, <2>1 DEF NodeAdvances, WorldTypeOK
    <2> QED BY <1>3, <2>2, RecordUnchanged, ChecksUnchanged DEF NodeAdvances
  <1>4. ASSUME NodeSettles(p) PROVE TypeInv'
    <2>1. WorldTypeOK'
      BY <1>4 DEF NodeSettles, WorldTypeOK
    <2> QED BY <1>4, <2>1, RecordUnchanged, ChecksUnchanged DEF NodeSettles
  <1> QED BY <1>1, <1>2, <1>3, <1>4 DEF World

LEMMA NextType == TypeInv /\ [Next]_vars => TypeInv'
  <1> SUFFICES ASSUME TypeInv, [Next]_vars PROVE TypeInv'
    OBVIOUS
  <1>1. ASSUME NEW p \in Providers, Check(p) \/ World(p) PROVE TypeInv'
    BY <1>1, CheckType, WorldType
  <1>2. ASSUME StartServing PROVE TypeInv'
    <2>1. CheckTypeOK' /\ HasReport' /\ HasError'
      BY <1>2, PaceAssumption DEF StartServing, TypeInv, CheckTypeOK, HasReport, HasError,
                                  Reporting, Steps
    <2> QED BY <1>2, <2>1, RecordUnchanged, WorldUnchanged DEF StartServing, TypeInv
  <1>3. ASSUME Tick PROVE TypeInv'
    <2>1. \A n \in Nat : CountDown(n) \in Nat
      BY DEF CountDown
    <2>2. CheckTypeOK' /\ HasReport' /\ HasError'
      BY <1>3, <2>1 DEF Tick, TypeInv, CheckTypeOK, HasReport, HasError
    <2> QED BY <1>3, <2>2, TickInvariant, WorldUnchanged DEF Tick, TypeInv
  <1>4. CASE UNCHANGED vars
    BY <1>4, RecordUnchanged, ChecksUnchanged, WorldUnchanged DEF vars, TypeInv
  <1> QED BY <1>1, <1>2, <1>3, <1>4 DEF Next

LEMMA TypeAlways == Spec => []TypeInv
  BY TypeInit, NextType, PTL DEF Spec

\* Every variable of Healthcheck has its type, however checks and requests race.
THEOREM TypeCorrect == Spec => []TypeOK
  <1>1. TypeInv => TypeOK
    BY DEF TypeInv, TypeOK, ProviderTypeOK, HealthInv, CheckTypeOK, WorldTypeOK
  <1> QED BY <1>1, TypeAlways, PTL

\* An online provider has no failed attempts on its record, though requests and
\* checks mark it concurrently.
THEOREM AttemptsStartOver == Spec => []OnlineResetsAttempts
  <1>1. TypeInv => OnlineResetsAttempts
    BY DEF TypeInv, HealthInv
  <1> QED BY <1>1, TypeAlways, PTL

-----------------------------------------------------------------------------
(***************************************************************************)
(* One chain.  A report is what the node really is, and one that got past  *)
(* SetChainID is of the endpoint's chain, which cannot change any more: it *)
(* does only while it is unknown, and then nobody got past.                *)
(***************************************************************************)
Admitted == {"tip", "observe", "passed"}

ReportsAreTrue ==
    \A p \in Providers : pc[p] \in Reporting =>
        info[p].chain = genesis[p] /\ info[p].height \in Heights /\ info[p].height <= height[p]

AdmittedOnChain == \A p \in Providers : pc[p] \in Admitted => info[p].chain = chainID

ChainInv == ReportsAreTrue /\ AdmittedOnChain /\ OneChain /\ TipIsReached

LEMMA ChainInit == Init => ChainInv
  BY DEF Init, InitProviders, ChainInv, ReportsAreTrue, AdmittedOnChain, OneChain,
         TipIsReached, Reporting, Admitted

\* Nothing admits a provider, or puts it online, while the chain is unknown.
LEMMA NothingWhileUnknown ==
  ASSUME TypeInv, ChainInv, Unknown \notin Chains, chainID = Unknown
  PROVE  /\ \A p \in Providers : pc[p] \notin Admitted /\ ~online[p]
         /\ tip = 0
  <1>1. \A p \in Providers : genesis[p] # chainID
    BY DEF TypeInv, WorldTypeOK
  <1>2. \A p \in Providers : pc[p] \notin Admitted /\ ~online[p]
    BY <1>1 DEF ChainInv, ReportsAreTrue, AdmittedOnChain, OneChain, Admitted, Reporting
  <1>3. tip = 0
    BY <1>1, HeightAssumption DEF ChainInv, TipIsReached, TypeInv, CheckTypeOK, Heights
  <1> QED BY <1>2, <1>3

\* A step that leaves chain, tip, nodes and health alone, and no provider newly
\* reporting or admitted, changes nothing that matters here.
LEMMA ChainKept ==
  ASSUME ChainInv, TypeInv, NEW p \in Providers,
         UNCHANGED <<chainID, tip, genesis, height>>,
         \A q \in Providers : online'[q] => online[q],
         \A q \in Providers : pc'[q] \in Reporting => pc[q] \in Reporting,
         \A q \in Providers : pc'[q] \in Admitted => pc[q] \in Admitted,
         \A q \in Providers : pc'[q] \in Reporting => info'[q] = info[q]
  PROVE  ChainInv'
  <1>1. ReportsAreTrue' /\ AdmittedOnChain'
    BY DEF ChainInv, ReportsAreTrue, AdmittedOnChain, Admitted, Reporting
  <1>2. OneChain' /\ TipIsReached'
    BY DEF ChainInv, OneChain, TipIsReached
  <1> QED BY <1>1, <1>2 DEF ChainInv

\* What marking does to a provider's being online.
LEMMA MarksOnline ==
  ASSUME HealthInv, NEW p \in Providers
  PROVE  /\ MarkHealthy(p) => \A q \in Providers : online'[q] => online[q] \/ q = p
         /\ \A e : MarkUnhealthy(p, e) => \A q \in Providers : online'[q] => online[q]
  BY DEF MarkHealthy, MarkUnhealthy, HealthInv, HealthTypeOK, health

LEMMA CheckChain ==
  ASSUME TypeInv, ChainInv, Unknown \notin Chains, NEW p \in Providers, Check(p)
  PROVE  ChainInv'
  <1>1. ASSUME NodeAnswers(p) PROVE ChainInv'
    <2>1. ReportsAreTrue'
      BY <1>1, HeightAssumption
         DEF NodeAnswers, At, GoTo, TypeInv, CheckTypeOK, WorldTypeOK, ChainInv,
             ReportsAreTrue, Reporting, worldVars, Heights
    <2>2. AdmittedOnChain'
      BY <1>1 DEF NodeAnswers, At, GoTo, TypeInv, CheckTypeOK, ChainInv,
                  AdmittedOnChain, Admitted
    <2>3. OneChain' /\ TipIsReached'
      BY <1>1 DEF NodeAnswers, ChainInv, OneChain, TipIsReached, worldVars, providerVars
    <2> QED BY <2>1, <2>2, <2>3 DEF ChainInv
  <1>2. ASSUME NodeFails(p) PROVE ChainInv'
    BY <1>2, ChainKept DEF NodeFails, Fails, GoTo, worldVars, TypeInv, CheckTypeOK,
                           Reporting, Admitted
  <1>3. ASSUME SetChainID(p) PROVE ChainInv'
    <2>1. CASE chainID # Unknown
      <3>1. CASE info[p].chain = chainID
        <4>1. ReportsAreTrue' /\ AdmittedOnChain'
          BY <1>3, <2>1, <3>1 DEF SetChainID, At, GoTo, TypeInv, CheckTypeOK, ChainInv,
               ReportsAreTrue, AdmittedOnChain, Reporting, Admitted, worldVars
        <4>2. OneChain' /\ TipIsReached'
          BY <1>3, <2>1 DEF SetChainID, ChainInv, OneChain, TipIsReached, worldVars,
                            providerVars
        <4> QED BY <4>1, <4>2 DEF ChainInv
      <3>2. CASE info[p].chain # chainID
        BY <1>3, <2>1, <3>2, ChainKept DEF SetChainID, Fails, GoTo, worldVars,
             providerVars, TypeInv, CheckTypeOK, Reporting, Admitted
      <3> QED BY <3>1, <3>2
    <2>2. CASE chainID = Unknown
      <3>1. /\ \A q \in Providers : pc[q] \notin Admitted /\ ~online[q]
            /\ tip = 0
        BY <2>2, NothingWhileUnknown
      <3>2. chainID' = info[p].chain /\ pc' = [pc EXCEPT ![p] = "tip"]
        BY <1>3, <2>2 DEF SetChainID, GoTo
      <3>3. ReportsAreTrue'
        BY <1>3, <3>2 DEF SetChainID, At, TypeInv, CheckTypeOK, ChainInv,
             ReportsAreTrue, Reporting, worldVars
      <3>4. AdmittedOnChain'
        BY <1>3, <3>1, <3>2 DEF SetChainID, TypeInv, CheckTypeOK, AdmittedOnChain, Admitted
      <3>5. OneChain' /\ TipIsReached'
        BY <1>3, <3>1 DEF SetChainID, OneChain, TipIsReached, worldVars, providerVars
      <3> QED BY <3>3, <3>4, <3>5 DEF ChainInv
    <2> QED BY <2>1, <2>2
  <1>4. ASSUME CompareTip(p) PROVE ChainInv'
    BY <1>4, ChainKept DEF CompareTip, Fails, At, GoTo, worldVars, providerVars, TypeInv,
                           CheckTypeOK, Reporting, Admitted
  <1>5. ASSUME ObserveBlock(p) PROVE ChainInv'
    <2>1. /\ pc[p] \in Reporting /\ pc[p] \in Admitted
          /\ info[p].chain = genesis[p] /\ info[p].chain = chainID
          /\ info[p].height <= height[p]
      BY <1>5 DEF ObserveBlock, At, Reporting, Admitted, ChainInv, ReportsAreTrue,
                  AdmittedOnChain
    <2>2. TipIsReached'
      BY <1>5, <2>1 DEF ObserveBlock, ChainInv, TipIsReached, worldVars
    <2>3. ReportsAreTrue' /\ AdmittedOnChain'
      BY <1>5 DEF ObserveBlock, At, GoTo, TypeInv, CheckTypeOK, ChainInv, worldVars,
                  ReportsAreTrue, AdmittedOnChain, Reporting, Admitted
    <2>4. OneChain'
      BY <1>5 DEF ObserveBlock, ChainInv, OneChain, worldVars, providerVars
    <2> QED BY <2>2, <2>3, <2>4 DEF ChainInv
  <1>6. ASSUME FirstCheckPassed(p) \/ CheckPassed(p) PROVE ChainInv'
    <2>1. genesis[p] = chainID
      BY <1>6 DEF FirstCheckPassed, CheckPassed, At, ChainInv, ReportsAreTrue,
                  AdmittedOnChain, Reporting, Admitted
    <2>2. OneChain'
      BY <1>6, <2>1, MarksOnline DEF FirstCheckPassed, CheckPassed, TypeInv, ChainInv,
                  OneChain, worldVars
    <2>3. ReportsAreTrue' /\ AdmittedOnChain'
      BY <1>6 DEF FirstCheckPassed, CheckPassed, Sleep, Forget, GoTo, TypeInv, CheckTypeOK,
                  ChainInv, worldVars, ReportsAreTrue, AdmittedOnChain, Reporting, Admitted
    <2>4. TipIsReached'
      BY <1>6 DEF FirstCheckPassed, CheckPassed, ChainInv, TipIsReached, worldVars
    <2> QED BY <2>2, <2>3, <2>4 DEF ChainInv
  <1>7. ASSUME FirstCheckFailed(p) \/ CheckFailed(p) PROVE ChainInv'
    <2>1. \A q \in Providers : online'[q] => online[q]
      BY <1>7, MarksOnline DEF FirstCheckFailed, CheckFailed, TypeInv
    <2>2. \A q \in Providers :
            /\ pc'[q] \in Reporting => pc[q] \in Reporting /\ info'[q] = info[q]
            /\ pc'[q] \in Admitted => pc[q] \in Admitted
      BY <1>7 DEF FirstCheckFailed, CheckFailed, Forget, GoTo, TypeInv, CheckTypeOK,
                  Reporting, Admitted
    <2> QED BY <1>7, <2>1, <2>2, ChainKept DEF FirstCheckFailed, CheckFailed, worldVars
  <1>8. ASSUME WindowClosed(p) \/ WindowEnds(p) \/ Wake(p) PROVE ChainInv'
    BY <1>8, ChainKept DEF WindowClosed, WindowEnds, Wake, GoTo, worldVars, providerVars,
                           TypeInv, CheckTypeOK, Reporting, Admitted
  <1>9. ASSUME WindowOpen(p) \/ ReadAttempts(p) PROVE ChainInv'
    BY <1>9, ChainKept DEF WindowOpen, ReadAttempts, Sleep, GoTo, worldVars, providerVars,
                           TypeInv, CheckTypeOK, Reporting, Admitted
  <1> QED BY <1>1, <1>2, <1>3, <1>4, <1>5, <1>6, <1>7, <1>8, <1>9 DEF Check

LEMMA WorldChain ==
  ASSUME TypeInv, ChainInv, NEW p \in Providers, World(p)
  PROVE  ChainInv'
  <1>1. ASSUME RequestFails(p) \/ NodeSettles(p) PROVE ChainInv'
    BY <1>1, ChainKept DEF RequestFails, NodeSettles, checkVars, providerVars
  <1>2. ASSUME RequestRecordsFault(p) PROVE ChainInv'
    <2>1. \A q \in Providers : online'[q] => online[q]
      BY <1>2, MarksOnline DEF RequestRecordsFault, TypeInv, health
    <2> QED BY <1>2, <2>1, ChainKept DEF RequestRecordsFault, checkVars
  <1>3. ASSUME NodeAdvances(p) PROVE ChainInv'
    <2>1. \A q \in Providers : height'[q] \in Nat /\ height[q] \in Nat /\ height'[q] >= height[q]
      BY <1>3, HeightAssumption DEF NodeAdvances, TypeInv, WorldTypeOK, Heights
    <2>2. ReportsAreTrue' /\ AdmittedOnChain'
      BY <1>3, <2>1, HeightAssumption DEF NodeAdvances, checkVars, ChainInv, ReportsAreTrue,
                  AdmittedOnChain, Heights
    <2>3. OneChain'
      BY <1>3 DEF NodeAdvances, ChainInv, OneChain, providerVars, checkVars
    <2>4. TipIsReached'
      BY <1>3, <2>1, HeightAssumption DEF NodeAdvances, ChainInv, TipIsReached, checkVars,
                  TypeInv, CheckTypeOK, Heights
    <2> QED BY <2>2, <2>3, <2>4 DEF ChainInv
  <1> QED BY <1>1, <1>2, <1>3 DEF World

LEMMA ChainNext ==
  ASSUME Unknown \notin Chains
  PROVE  TypeInv /\ ChainInv /\ [Next]_vars => ChainInv'
  <1> SUFFICES ASSUME TypeInv, ChainInv, [Next]_vars PROVE ChainInv'
    OBVIOUS
  <1>0. 1 \in Providers
    BY NProvidersAssumption DEF Providers
  <1>1. ASSUME NEW p \in Providers, Check(p) \/ World(p) PROVE ChainInv'
    BY <1>1, CheckChain, WorldChain
  <1>2. ASSUME StartServing PROVE ChainInv'
    BY <1>0, <1>2, ChainKept DEF StartServing, worldVars, providerVars, Reporting, Admitted
  <1>3. ASSUME Tick PROVE ChainInv'
    BY <1>0, <1>3, ChainKept DEF Tick, TickProviders, worldVars
  <1>4. CASE UNCHANGED vars
    BY <1>0, <1>4, ChainKept DEF vars, providerVars, checkVars, worldVars
  <1> QED BY <1>1, <1>2, <1>3, <1>4 DEF Next

LEMMA ChainAlways ==
  ASSUME Unknown \notin Chains
  PROVE  Spec => []ChainInv
  <1>1. TypeInv /\ ChainInv /\ [Next]_vars => ChainInv'
    BY ChainNext
  <1> QED BY <1>1, ChainInit, TypeAlways, PTL DEF Spec

\* If every node can name its chain, all online providers are on one chain, the
\* endpoint's: no failover moves a client to another network.
THEOREM OneChainAlways ==
  ASSUME Unknown \notin Chains
  PROVE  Spec => []OneChain
  <1>1. ChainInv => OneChain
    BY DEF ChainInv
  <1> QED BY <1>1, ChainAlways, PTL

\* Then the tip is also a height some node of that chain has reached, so a
\* provider of another chain cannot push the others out of rotation.
THEOREM TipAlwaysReached ==
  ASSUME Unknown \notin Chains
  PROVE  Spec => []TipIsReached
  <1>1. ChainInv => TipIsReached
    BY DEF ChainInv
  <1> QED BY <1>1, ChainAlways, PTL
=============================================================================
