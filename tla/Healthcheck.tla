----------------------------- MODULE Healthcheck -----------------------------
(***************************************************************************)
(* The health side of one endpoint: the startup check of every provider    *)
(* (main.go), then one worker for each, checking it for ever               *)
(* (healthcheck.go), against the chain and the tip its providers share     *)
(* (core/endpoint.go).  Of the client requests only what they do to a      *)
(* provider's health appears: they fail, open its rate-limit window and    *)
(* take it offline while the workers run (Failover models them).           *)
(*                                                                         *)
(* A node that has settled answers every check and request; any other may  *)
(* do anything.  A step is what the code does between two reads or writes  *)
(* of shared state.                                                        *)
(***************************************************************************)
EXTENDS Provider

CONSTANTS
    Chains,            \* chain ids the providers' nodes may report
    Configured,        \* the endpoint's chain_id, or Unknown
    Tolerance,         \* blocks a provider may be behind the tip
    MaxHeight,         \* bound: nodes advance no further
    Interval,          \* ticks between two passing checks
    RetryAfters,       \* ticks a 429 asks for; 0: no usable Retry-After
    FirstBackoff,      \* attempts that end the short delay; 5 in the code
    SecondBackoff,     \* attempts that end the medium delay; 10 in the code
    ShortDelay, MediumDelay, LongDelay,  \* ticks; 10 s, 30 s, 1 min
    Flaky,             \* providers whose node may fail checks and requests
    Settling           \* those of them whose node may stop failing for good

Unknown == ""   \* no chain id

ASSUME HeightAssumption == Tolerance \in Nat /\ MaxHeight \in Nat
ASSUME PaceAssumption ==
    /\ Interval \in Nat \ {0}
    /\ RetryAfters \subseteq Nat
    /\ {ShortDelay, MediumDelay, LongDelay} \subseteq Nat \ {0}
ASSUME FlakyAssumption == Settling \subseteq Flaky /\ Flaky \subseteq Providers

VARIABLES
    chainID,       \* endpoint.ChainID
    tip,           \* endpoint.highestBlock
    pc,            \* where the goroutine that checks the provider is
    info,          \* what the node reported to the check under way
    err,           \* what the check failed with
    sleepFor,      \* what remains of the worker's time.Sleep
    serving,       \* startup is over: workers and clients run
    genesis,       \* the chain the provider's node is really on
    height,        \* the node's block height
    settled,       \* nodes that answer every check and request from now on
    fault          \* failure a client request is about to record

checkVars == <<chainID, tip, pc, info, err, sleepFor, serving>>
worldVars == <<genesis, height, settled, fault>>
vars == <<providerVars, checkVars, worldVars>>

Heights == 0..MaxHeight
NodeInfos == [chain : Chains, height : Heights]
Errors == {Failure} \union {Limited(r) : r \in RetryAfters}
NoError == [limited |-> FALSE, retryAfter |-> -1]

Steps == {"check", "chain", "tip", "observe", "passed", "failed", "mark",
          "checked", "gate", "limited", "asleep"}

Init ==
    /\ InitProviders
    /\ chainID = Configured
    /\ tip = 0
    /\ pc = [p \in Providers |-> "check"]
    /\ info = [p \in Providers |-> [chain |-> Unknown, height |-> 0]]
    /\ err = [p \in Providers |-> NoError]
    /\ sleepFor = [p \in Providers |-> 0]
    /\ serving = FALSE
    /\ genesis \in [Providers -> Chains]
    /\ height = [p \in Providers |-> 0]
    /\ settled = Providers \ Flaky
    /\ fault = [p \in Providers |-> NoError]

-----------------------------------------------------------------------------
At(p, label) == pc[p] = label
GoTo(p, label) == pc' = [pc EXCEPT ![p] = label]
Fails(p, e) == GoTo(p, "failed") /\ err' = [err EXCEPT ![p] = e]

(***************************************************************************)
(* healthcheck.Run.  chain.Healthcheck asks the node who it is and where   *)
(* it stands; a 429 or 402 has opened the window by the time it returns.   *)
(***************************************************************************)
\* Broken: the tip rises before the node is known to be on the right chain.
NodeAnswersAndRaisesTip(p) ==
    /\ At(p, "check")
    /\ info' = [info EXCEPT ![p] = [chain |-> genesis[p], height |-> height[p]]]
    /\ tip' = IF height[p] > tip THEN height[p] ELSE tip
    /\ GoTo(p, "chain")
    /\ UNCHANGED <<providerVars, chainID, err, sleepFor, serving, worldVars>>

\* Healthcheck asks the node for its version, chain, height and the chain's own
\* sign of health, and a node passes only when each answer parses and is good.
NodeAnswers(p) ==
    /\ At(p, "check")
    /\ info' = [info EXCEPT ![p] = [chain |-> genesis[p], height |-> height[p]]]
    /\ GoTo(p, "chain")
    /\ UNCHANGED <<providerVars, chainID, tip, err, sleepFor, serving, worldVars>>

\* A transport error, a 429, an answer that does not parse, a node that syncs or
\* says that it is not healthy: each returns an error before the endpoint has
\* seen anything of this check.
NodeFails(p) ==
    /\ At(p, "check") /\ p \notin settled
    /\ \E e \in Errors :
         /\ Fails(p, e)
         /\ IF e.limited THEN HandleTooManyRequests(p, e.retryAfter)
            ELSE UNCHANGED rateLimitedFor
    /\ UNCHANGED <<online, attempt, sinceStateChange, unsupportedFor, chainID, tip,
                   info, sleepFor, serving, worldVars>>

\* Broken: whoever reports last decides the endpoint's chain.
LastSeenChainID(p) ==
    /\ At(p, "chain")
    /\ chainID' = info[p].chain
    /\ GoTo(p, "tip")
    /\ UNCHANGED <<providerVars, tip, info, err, sleepFor, serving, worldVars>>

SetChainID(p) ==
    /\ At(p, "chain")
    /\ \/ /\ chainID = Unknown
          /\ chainID' = info[p].chain
          /\ GoTo(p, "tip")
          /\ UNCHANGED err
       \/ /\ chainID # Unknown
          /\ IF info[p].chain = chainID
             THEN GoTo(p, "tip") /\ UNCHANGED err
             ELSE Fails(p, Failure)
          /\ UNCHANGED chainID
    /\ UNCHANGED <<providerVars, tip, info, sleepFor, serving, worldVars>>

\* Broken: the tip itself is behind.
CompareTipStrictly(p) ==
    /\ At(p, "tip")
    /\ IF info[p].height + Tolerance <= tip
       THEN Fails(p, Failure)
       ELSE GoTo(p, "observe") /\ UNCHANGED err
    /\ UNCHANGED <<providerVars, chainID, tip, info, sleepFor, serving, worldVars>>

\* Broken: the height is compared with the highest one of the provider itself.
CompareOwnTip(p) ==
    /\ At(p, "tip")
    /\ GoTo(p, "observe")
    /\ UNCHANGED <<providerVars, chainID, tip, info, err, sleepFor, serving, worldVars>>

CompareTip(p) ==
    /\ At(p, "tip")
    /\ IF info[p].height + Tolerance < tip
       THEN Fails(p, Failure)
       ELSE GoTo(p, "observe") /\ UNCHANGED err
    /\ UNCHANGED <<providerVars, chainID, tip, info, sleepFor, serving, worldVars>>

\* Broken: off by one, the tip is the block a node works on.
ObserveNextBlock(p) ==
    /\ At(p, "observe")
    /\ tip' = IF info[p].height + 1 > tip THEN info[p].height + 1 ELSE tip
    /\ GoTo(p, "passed")
    /\ UNCHANGED <<providerVars, chainID, info, err, sleepFor, serving, worldVars>>

ObserveBlock(p) ==
    /\ At(p, "observe")
    /\ tip' = IF info[p].height > tip THEN info[p].height ELSE tip
    /\ GoTo(p, "passed")
    /\ UNCHANGED <<providerVars, chainID, info, err, sleepFor, serving, worldVars>>

Forget(p) ==
    /\ info' = [info EXCEPT ![p] = [chain |-> Unknown, height |-> 0]]
    /\ err' = [err EXCEPT ![p] = NoError]

-----------------------------------------------------------------------------
\* Startup records the verdict, and waits for the checks of all the others.
FirstCheckPassed(p) ==
    /\ At(p, "passed") /\ ~serving
    /\ MarkHealthy(p)
    /\ GoTo(p, "checked")
    /\ Forget(p)
    /\ UNCHANGED <<unsupportedFor, chainID, tip, sleepFor, serving, worldVars>>

FirstCheckFailed(p) ==
    /\ At(p, "failed") /\ ~serving
    /\ MarkUnhealthy(p, err[p])
    /\ GoTo(p, "checked")
    /\ Forget(p)
    /\ UNCHANGED <<unsupportedFor, chainID, tip, sleepFor, serving, worldVars>>

StartServing ==
    /\ ~serving
    /\ \A p \in Providers : At(p, "checked")
    /\ serving' = TRUE
    /\ pc' = [p \in Providers |-> "asleep"]
    /\ sleepFor' = [p \in Providers |-> Interval]
    /\ UNCHANGED <<providerVars, chainID, tip, info, err, worldVars>>

-----------------------------------------------------------------------------
(***************************************************************************)
(* Worker: it looks at the rate-limit window once, sleeps it out, checks   *)
(* and sleeps until the next round.                                        *)
(***************************************************************************)
Sleep(p, label, ticks) == GoTo(p, label) /\ sleepFor' = [sleepFor EXCEPT ![p] = ticks]

WindowClosed(p) ==
    /\ At(p, "gate")
    /\ rateLimitedFor[p] = 0
    /\ GoTo(p, "check")
    /\ UNCHANGED <<providerVars, chainID, tip, info, err, sleepFor, serving, worldVars>>

WindowOpen(p) ==
    /\ At(p, "gate")
    /\ rateLimitedFor[p] > 0
    /\ Sleep(p, "limited", rateLimitedFor[p])
    /\ UNCHANGED <<providerVars, chainID, tip, info, err, serving, worldVars>>

WindowEnds(p) ==
    /\ At(p, "limited") /\ sleepFor[p] = 0
    /\ GoTo(p, "check")
    /\ UNCHANGED <<providerVars, chainID, tip, info, err, sleepFor, serving, worldVars>>

Wake(p) ==
    /\ At(p, "asleep") /\ sleepFor[p] = 0
    /\ GoTo(p, "gate")
    /\ UNCHANGED <<providerVars, chainID, tip, info, err, sleepFor, serving, worldVars>>

CheckPassed(p) ==
    /\ At(p, "passed") /\ serving
    /\ MarkHealthy(p)
    /\ Sleep(p, "asleep", Interval)
    /\ Forget(p)
    /\ UNCHANGED <<unsupportedFor, chainID, tip, serving, worldVars>>

NextAttemptDelay(n) ==
    IF n < FirstBackoff THEN ShortDelay
    ELSE IF n < SecondBackoff THEN MediumDelay ELSE LongDelay

\* The attempts are read, under their own lock, before the failure is counted.
ReadAttempts(p) ==
    /\ At(p, "failed") /\ serving
    /\ Sleep(p, "mark", NextAttemptDelay(attempt[p]))
    /\ UNCHANGED <<providerVars, chainID, tip, info, err, serving, worldVars>>

CheckFailed(p) ==
    /\ At(p, "mark")
    /\ MarkUnhealthy(p, err[p])
    /\ GoTo(p, "asleep")
    /\ Forget(p)
    /\ UNCHANGED <<unsupportedFor, chainID, tip, sleepFor, serving, worldVars>>

-----------------------------------------------------------------------------
\* A client request to an online provider fails ...
RequestFails(p) ==
    /\ serving /\ online[p] /\ p \notin settled
    /\ fault[p] = NoError
    /\ \E e \in Errors :
         /\ fault' = [fault EXCEPT ![p] = e]
         /\ IF e.limited THEN HandleTooManyRequests(p, e.retryAfter)
            ELSE UNCHANGED rateLimitedFor
    /\ UNCHANGED <<online, attempt, sinceStateChange, unsupportedFor, checkVars,
                   genesis, height, settled>>

\* ... and is recorded, or found to be old news, some time later.
RequestRecordsFault(p) ==
    /\ fault[p] # NoError
    /\ fault' = [fault EXCEPT ![p] = NoError]
    /\ \/ MarkUnhealthy(p, fault[p])
       \/ ~online[p] /\ UNCHANGED health
    /\ UNCHANGED <<unsupportedFor, checkVars, genesis, height, settled>>

NodeAdvances(p) ==
    /\ height[p] < MaxHeight
    /\ height' = [height EXCEPT ![p] = @ + 1]
    /\ UNCHANGED <<providerVars, checkVars, genesis, settled, fault>>

NodeSettles(p) ==
    /\ p \in Settling \ settled
    /\ settled' = settled \union {p}
    /\ UNCHANGED <<providerVars, checkVars, genesis, height, fault>>

\* The clock, which runs the sleeps too.
Tick ==
    /\ TickProviders
    /\ sleepFor' = [p \in Providers |-> IF At(p, "mark") THEN sleepFor[p]
                                        ELSE CountDown(sleepFor[p])]
    /\ UNCHANGED <<chainID, tip, pc, info, err, serving, worldVars>>

\* What the goroutine that checks p does.
Check(p) ==
    \/ NodeAnswers(p) \/ NodeFails(p)
    \/ SetChainID(p) \/ CompareTip(p) \/ ObserveBlock(p)
    \/ FirstCheckPassed(p) \/ FirstCheckFailed(p)
    \/ WindowClosed(p) \/ WindowOpen(p) \/ WindowEnds(p) \/ Wake(p)
    \/ CheckPassed(p) \/ ReadAttempts(p) \/ CheckFailed(p)

World(p) ==
    \/ RequestFails(p) \/ RequestRecordsFault(p)
    \/ NodeAdvances(p) \/ NodeSettles(p)

Next ==
    \/ \E p \in Providers : Check(p) \/ World(p)
    \/ StartServing
    \/ Tick

Spec == Init /\ [][Next]_vars

(***************************************************************************)
(* The Go scheduler runs every goroutine and the wait for them ends, every *)
(* check ends within the provider's timeout, and time passes.  Nothing is  *)
(* assumed of the nodes or the clients.                                    *)
(***************************************************************************)
FairSpec ==
    /\ Spec
    /\ \A p \in Providers : WF_vars(Check(p))
    /\ WF_vars(StartServing)
    /\ WF_vars(Tick)

-----------------------------------------------------------------------------
\* Every variable has its type.
TypeOK ==
    /\ ProviderTypeOK
    /\ chainID \in Chains \union {Configured}
    /\ tip \in Heights
    /\ pc \in [Providers -> Steps]
    /\ info \in [Providers -> NodeInfos \union [chain : {Unknown}, height : {0}]]
    /\ err \in [Providers -> Errors \union {NoError}]
    /\ sleepFor \in [Providers -> Nat]
    /\ serving \in BOOLEAN
    /\ genesis \in [Providers -> Chains]
    /\ height \in [Providers -> Heights]
    /\ settled \subseteq Providers
    /\ fault \in [Providers -> Errors \union {NoError}]

(***************************************************************************)
(* All online providers are on one chain, the endpoint's: however the      *)
(* checks race to decide what it is, a client is never moved from one      *)
(* network to another by a failover.                                       *)
(***************************************************************************)
OneChain == \A p \in Providers : online[p] => genesis[p] = chainID

(***************************************************************************)
(* The tip is a height some node of the endpoint's chain has reached: a    *)
(* provider on another chain, however far ahead, never makes the others    *)
(* look behind, and the provider that reached the tip never looks so.      *)
(***************************************************************************)
TipIsReached ==
    tip > 0 => \E p \in Providers : genesis[p] = chainID /\ height[p] >= tip

InSync(p) == genesis[p] = chainID /\ height[p] + Tolerance >= tip

(***************************************************************************)
(* A provider that answers again, on the right chain and near the tip,     *)
(* comes back into rotation for good, whatever backoff, rate-limit window  *)
(* or late failure of a request it still has to sit out.                   *)
(***************************************************************************)
Recovers == \A p \in Providers :
    <>[](p \in settled /\ InSync(p)) => <>[]online[p]

(***************************************************************************)
(* A provider that stays on the wrong chain or behind the tip leaves the   *)
(* rotation for good, even if it answers everything it is asked.           *)
(***************************************************************************)
Leaves == \A p \in Providers : <>[]~InSync(p) => <>[]~online[p]
=============================================================================
