------------------------------ MODULE Failover ------------------------------
(***************************************************************************)
(* forwardWithFailover (http.go): concurrent client requests walk the      *)
(* providers of one endpoint in order until one of them serves, sharing    *)
(* the providers' health records with each other and with the healthcheck  *)
(* workers, of which only the verdicts appear here (Healthcheck models     *)
(* them).  A step is what the code does between two reads of shared state, *)
(* but for three that read or write one provider's record several times    *)
(* in a row and are one step here: supportsAllMethods and                  *)
(* methodsWithoutProvider, which ask for one method after the other, and   *)
(* the scan, which flags methods before it marks the provider.             *)
(*                                                                         *)
(* The specification starts when startup is over: every provider has been  *)
(* checked once, and those in Reliable passed.                             *)
(***************************************************************************)
EXTENDS Provider, Upstream, Attribution

CONSTANTS
    Requests,     \* slots for concurrent client requests
    Batches,      \* what a client may ask: sequences of calls, [method, id]
    Lacks,        \* methods each provider really does not support
    Reliable,     \* providers that pass every check and serve what they have
    Clear,        \* providers whose answers say which call each rejection is for
    Cancellable   \* requests whose client may go away

ASSUME RequestAssumption ==
    /\ Batches \subseteq Seq([method : Methods, id : Int]) \ {<<>>}
    /\ Cancellable \subseteq Requests
ASSUME ProvidersAssumption ==
    /\ Lacks \in [Providers -> SUBSET Methods]
    /\ Reliable \subseteq Providers
    /\ Clear \subseteq Providers

VARIABLES
    pc,             \* where the request's goroutine is
    batch,          \* req.Requests
    at,             \* index of the provider the loop is at
    answer,         \* what SendRPCBatchRequest got back from it, as the loop reads it
    cancelled,      \* ctx.Done()
    unsupportedAt,  \* providers that set methodUnsupported
    tooLargeAt,     \* providers that set requestTooLarge
    lastTryNext,    \* provider of the remembered answer, 0: nil
    response        \* what the client was told

requestVars == <<pc, batch, at, answer, cancelled,
                 unsupportedAt, tooLargeAt, lastTryNext, response>>
vars == <<providerVars, requestVars>>

Active == {"next", "capability", "sent", "answered", "marking"}

NoAnswer == Fail("none")

\* Nothing is written: the client left, or the goroutine panicked.  A panic is
\* the client's 500 where the call was shared (Gateway).
ClientGone == 499
Aborted == 444

Responses == [status : {0, HTTPOK, TooLarge, ClientGone, Aborted,
                         NotImplemented, ServiceUnavailable},
              by : 0..NProviders, missing : SUBSET Methods]
Respond(status, by, missing) == [status |-> status, by |-> by, missing |-> missing]
NoResponse == Respond(0, 0, {})

MethodsOf(b) == {b[i].method : i \in DOMAIN b}

Has(p, b) == MethodsOf(b) \intersect Lacks[p] = {}

-----------------------------------------------------------------------------
(***************************************************************************)
(* The loop looks into an answer only if it has a response for every call  *)
(* (otherwise results is empty here), and then attributes each response to *)
(* a method, which matters here where the response rejects it: a result is *)
(* [code, rejects], and rejects holds that method or nothing.              *)
(***************************************************************************)
Readings == [err : Errors, retryAfter : RetryAfters \union {0},
             results : Seq([code : Results, rejects : SUBSET Methods])]

Verdict(a, i) == Disposition(Kind, a.results[i].code)

WellFormed(a, b) == a.err = "none" /\ Len(a.results) = Len(b)

Serves(a, b) ==
    /\ WellFormed(a, b)
    /\ \A i \in DOMAIN a.results : Verdict(a, i) = "nil"

(***************************************************************************)
(* What counts against a provider: not a request it found too large, not a *)
(* method it lacks, not data it does not have, not an error of the client, *)
(* not a client that left.                                                 *)
(***************************************************************************)
IsFault(a, b) ==
    \/ /\ a.err = "none"
       /\ \/ Len(a.results) # Len(b)
          \/ \E i \in DOMAIN a.results : Verdict(a, i) \in {"unhealthy", "rateLimited", "panic"}
    \/ a.err = "methodNotSupported" /\ Len(b) > 1
    \/ a.err \in {"rateLimited", "failed", "panic"}

Rejects(code) == Disposition(Kind, code) = "methodNotSupported"

(***************************************************************************)
(* Whether provider p may give these codes to batch b, in this order and   *)
(* under these ids: it says a method is unsupported only of methods it     *)
(* lacks, and if it is Clear it says of which.                             *)
(***************************************************************************)
MayGive(p, b, codes, order, ids) ==
    \A k \in DOMAIN b :
        /\ ids[k] \in MayCarry(b[order[k]].id, codes[k] # OK)
        /\ Rejects(codes[k]) =>
             /\ b[order[k]].method \in Lacks[p]
             /\ p \in Clear => Legible(b, order, ids, k)

Read(a, b, ids) ==
    [a EXCEPT !.results =
        [k \in DOMAIN b |->
            [code |-> a.results[k],
             rejects |-> IF Rejects(a.results[k]) THEN {ResponseMethods(b, ids)[k]} ELSE {}]]]

IdsOf(b) == {b[i].id : i \in DOMAIN b} \union {NullId}

\* How the loop may read what SendRPCBatchRequest got from p for batch b.
ReadingsOf(p, b, a) ==
    IF a.err = "none" /\ Len(a.results) = Len(b)
    THEN {Read(a, b, ids) : ids \in
            {ids \in [DOMAIN b -> IdsOf(b)] : \E order \in Orders(Len(b)) :
                MayGive(p, b, a.results, order, ids)}}
    ELSE {[a EXCEPT !.results = <<>>]}

\* A 501 is true, too, and a reliable provider serves what it has and fails nobody.
MayAnswer ==
    [p \in Providers |-> [b \in Batches |->
        {a \in UNION {ReadingsOf(p, b, SendRPCBatchRequest(x)) : x \in Replies} :
            /\ a.err = "methodNotSupported" => ~Has(p, b)
            /\ p \in Reliable => ~IsFault(a, b) /\ (Has(p, b) => Serves(a, b))}]]

-----------------------------------------------------------------------------
InitRequests ==
    /\ pc = [r \in Requests |-> "idle"]
    /\ batch = [r \in Requests |-> <<>>]
    /\ at = [r \in Requests |-> 1]
    /\ answer = [r \in Requests |-> NoAnswer]
    /\ cancelled = [r \in Requests |-> FALSE]
    /\ unsupportedAt = [r \in Requests |-> {}]
    /\ tooLargeAt = [r \in Requests |-> {}]
    /\ lastTryNext = [r \in Requests |-> 0]
    /\ response = [r \in Requests |-> NoResponse]

\* The first healthchecks are over: main waits for them before it listens.
AfterStartup ==
    \E passed \in SUBSET Providers :
        /\ Reliable \subseteq passed
        /\ online = [p \in Providers |-> p \in passed]
        /\ attempt = [p \in Providers |-> IF p \in passed THEN 0 ELSE 1]
        /\ rateLimitedFor = [p \in Providers |-> 0]
        /\ sinceStateChange = [p \in Providers |-> 0]
        /\ unsupportedFor = [p \in Providers |-> [m \in Methods |-> 0]]

Init == AfterStartup /\ InitRequests

\* A slot is taken by a new client request.
Arrive(r) ==
    /\ pc[r] \in {"idle", "done"}
    /\ pc' = [pc EXCEPT ![r] = "next"]
    /\ \E b \in Batches : batch' = [batch EXCEPT ![r] = b]
    /\ response' = [response EXCEPT ![r] = NoResponse]
    /\ UNCHANGED <<providerVars, at, answer, cancelled,
                   unsupportedAt, tooLargeAt, lastTryNext>>

\* The client closes its connection.
Cancel(r) ==
    /\ r \in Cancellable
    /\ pc[r] \in Active
    /\ ~cancelled[r]
    /\ cancelled' = [cancelled EXCEPT ![r] = TRUE]
    /\ UNCHANGED <<providerVars, pc, batch, at, answer,
                   unsupportedAt, tooLargeAt, lastTryNext, response>>

\* Broken: a provider that failed the request is asked again.
AskAgain(r) ==
    /\ pc' = [pc EXCEPT ![r] = "next"]
    /\ at' = [at EXCEPT ![r] = IF online[@] THEN @ ELSE @ + 1]
    /\ answer' = [answer EXCEPT ![r] = NoAnswer]
    /\ UNCHANGED <<batch, cancelled, response>>

\* continue NextProvider
GoToNext(r) ==
    /\ pc' = [pc EXCEPT ![r] = "next"]
    /\ at' = [at EXCEPT ![r] = @ + 1]
    /\ answer' = [answer EXCEPT ![r] = NoAnswer]
    /\ UNCHANGED <<batch, cancelled, response>>

GoTo(r, label) ==
    /\ pc' = [pc EXCEPT ![r] = label]
    /\ UNCHANGED <<batch, at, cancelled, unsupportedAt, tooLargeAt,
                   lastTryNext, response>>

SkipOffline(r) ==
    /\ pc[r] = "next" /\ at[r] \in Providers
    /\ ~online[at[r]]
    /\ GoToNext(r)
    /\ UNCHANGED <<providerVars, unsupportedAt, tooLargeAt, lastTryNext>>

FoundOnline(r) ==
    /\ pc[r] = "next" /\ at[r] \in Providers
    /\ online[at[r]]
    /\ GoTo(r, "capability")
    /\ UNCHANGED <<providerVars, answer>>

SupportsAllMethods(p, b) == \A m \in MethodsOf(b) : SupportsMethod(p, m)

SkipUnsupported(r) ==
    /\ pc[r] = "capability"
    /\ ~SupportsAllMethods(at[r], batch[r])
    /\ unsupportedAt' = [unsupportedAt EXCEPT ![r] = @ \union {at[r]}]
    /\ GoToNext(r)
    /\ UNCHANGED <<providerVars, tooLargeAt, lastTryNext>>

Send(r) ==
    /\ pc[r] = "capability"
    /\ SupportsAllMethods(at[r], batch[r])
    /\ GoTo(r, "sent")
    /\ UNCHANGED <<providerVars, answer>>

(***************************************************************************)
(* SendRPCBatchRequest returns; a 429 or 402 has opened the provider's     *)
(* window.  client.Do or the read of the body fails once the context is    *)
(* done.                                                                   *)
(***************************************************************************)
CanReceive(r) ==
    IF cancelled[r] THEN {Fail("failed")} ELSE MayAnswer[at[r]][batch[r]]

Answer(r) ==
    /\ pc[r] = "sent"
    /\ \E a \in CanReceive(r) :
         /\ answer' = [answer EXCEPT ![r] = a]
         /\ IF a.err = "rateLimited"
            THEN HandleTooManyRequests(at[r], a.retryAfter)
            ELSE UNCHANGED rateLimitedFor
    /\ GoTo(r, "answered")
    /\ UNCHANGED <<online, attempt, sinceStateChange, unsupportedFor>>

\* The loop returns; its locals are gone.
Finish(r, res) ==
    /\ pc' = [pc EXCEPT ![r] = "done"]
    /\ response' = [response EXCEPT ![r] = res]
    /\ at' = [at EXCEPT ![r] = 1]
    /\ answer' = [answer EXCEPT ![r] = NoAnswer]
    /\ cancelled' = [cancelled EXCEPT ![r] = FALSE]
    /\ unsupportedAt' = [unsupportedAt EXCEPT ![r] = {}]
    /\ tooLargeAt' = [tooLargeAt EXCEPT ![r] = {}]
    /\ lastTryNext' = [lastTryNext EXCEPT ![r] = 0]
    /\ UNCHANGED batch

\* return ctx.Err(), before the answer is looked at
ReturnCancelled(r) ==
    /\ pc[r] = "answered" /\ answer[r].err # "panic"
    /\ cancelled[r]
    /\ Finish(r, Respond(ClientGone, 0, {}))
    /\ UNCHANGED providerVars

\* Broken: the error of a client that left is held against the provider.
LookingDespiteCancel(r) == pc[r] = "answered" /\ answer[r].err # "panic"

\* The loop looks at the answer it got.
Looking(r) == pc[r] = "answered" /\ answer[r].err # "panic" /\ ~cancelled[r]

\* A nil response is met by responseHasError, or by the loop's first pass.
MeetsNil(r) ==
    \/ pc[r] = "answered" /\ answer[r].err = "panic"
    \/ /\ Looking(r) /\ WellFormed(answer[r], batch[r])
       /\ \E i \in DOMAIN answer[r].results : Verdict(answer[r], i) = "panic"

\* It ends the goroutine before anything is recorded.
Panic(r) ==
    /\ MeetsNil(r)
    /\ Finish(r, Respond(Aborted, 0, {}))
    /\ UNCHANGED providerVars

\* A single request answered with 501 and no JSON-RPC error.
FailOverUnsupported(r) ==
    /\ Looking(r)
    /\ answer[r].err = "methodNotSupported" /\ Len(batch[r]) = 1
    /\ MarkMethodUnsupported(at[r], MethodsOf(batch[r]))
    /\ unsupportedAt' = [unsupportedAt EXCEPT ![r] = @ \union {at[r]}]
    /\ GoToNext(r)
    /\ UNCHANGED <<health, tooLargeAt, lastTryNext>>

FailOverTooLarge(r) ==
    /\ Looking(r)
    /\ answer[r].err = "tooLarge"
    /\ tooLargeAt' = [tooLargeAt EXCEPT ![r] = @ \union {at[r]}]
    /\ GoToNext(r)
    /\ UNCHANGED <<providerVars, unsupportedAt, lastTryNext>>

\* Any other error: the provider is lost, unless another request lost it first.
\* Broken: a 413 counts as a failure of the provider.
SendFailedOrTooLarge(r) ==
    /\ answer[r].err # "none"
    /\ answer[r].err = "methodNotSupported" => Len(batch[r]) # 1

SendFailed(r) ==
    /\ answer[r].err \notin {"none", "tooLarge"}
    /\ answer[r].err = "methodNotSupported" => Len(batch[r]) # 1

FailOverError(r) ==
    /\ Looking(r) /\ SendFailed(r)
    /\ IF online[at[r]]
       THEN /\ GoTo(r, "marking")
            /\ UNCHANGED answer
       ELSE /\ GoToNext(r)
            /\ UNCHANGED <<unsupportedAt, tooLargeAt, lastTryNext>>
    /\ UNCHANGED providerVars

MarkFailed(r) ==
    /\ pc[r] = "marking"
    /\ MarkUnhealthy(at[r], IF answer[r].err = "rateLimited"
                            THEN Limited(answer[r].retryAfter) ELSE Failure)
    /\ GoToNext(r)
    /\ UNCHANGED <<unsupportedFor, unsupportedAt, tooLargeAt, lastTryNext>>

FailOverMismatch(r) ==
    /\ Looking(r)
    /\ answer[r].err = "none" /\ ~WellFormed(answer[r], batch[r])
    /\ MarkUnhealthy(at[r], Failure)
    /\ GoToNext(r)
    /\ UNCHANGED <<unsupportedFor, unsupportedAt, tooLargeAt, lastTryNext>>

(***************************************************************************)
(* The scan of a well-formed answer.  Errors the chain calls the client's  *)
(* are passed over; a method reported unsupported is recorded and the scan *)
(* goes on; any other error ends it at once.                               *)
(***************************************************************************)
Scanning(r) == Looking(r) /\ WellFormed(answer[r], batch[r]) /\ ~MeetsNil(r)

EndsScan(a, i) == Verdict(a, i) \in {"tryNext", "rateLimited", "unhealthy"}

\* Methods the first n responses report as unsupported.
Reported(r, n) == UNION {answer[r].results[i].rejects : i \in 1..n}

RecordReported(r, ms) ==
    /\ MarkMethodUnsupported(at[r], ms)
    /\ unsupportedAt' = [unsupportedAt EXCEPT ![r] =
                            IF ms = {} THEN @ ELSE @ \union {at[r]}]

\* Broken: the loop's index has moved on when the answer is remembered.
RememberNext(r) == lastTryNext' = [lastTryNext EXCEPT ![r] = at[r] + 1]

Remember(r) == lastTryNext' = [lastTryNext EXCEPT ![r] = at[r]]

ScanEndsEarly(r) ==
    /\ Scanning(r)
    /\ \E i \in DOMAIN answer[r].results :
         /\ EndsScan(answer[r], i)
         /\ \A j \in 1..(i - 1) : ~EndsScan(answer[r], j)
         /\ RecordReported(r, Reported(r, i))
         /\ IF Verdict(answer[r], i) = "tryNext"
            THEN Remember(r) /\ UNCHANGED health
            ELSE /\ MarkUnhealthy(at[r], IF Verdict(answer[r], i) = "rateLimited"
                                         THEN Limited(0) ELSE Failure)
                 /\ UNCHANGED lastTryNext
    /\ GoToNext(r)
    /\ UNCHANGED tooLargeAt

ScanFindsUnsupported(r) ==
    /\ Scanning(r)
    /\ \A i \in DOMAIN answer[r].results : ~EndsScan(answer[r], i)
    /\ Reported(r, Len(batch[r])) # {}
    /\ RecordReported(r, Reported(r, Len(batch[r])))
    /\ GoToNext(r)
    /\ UNCHANGED <<health, tooLargeAt, lastTryNext>>

Serve(r) ==
    /\ Scanning(r)
    /\ \A i \in DOMAIN answer[r].results : Verdict(answer[r], i) = "nil"
    /\ Finish(r, Respond(HTTPOK, at[r], {}))
    /\ UNCHANGED providerVars

\* Broken: names every method of the request.
MethodsAll(b) == MethodsOf(b)

\* methodsWithoutProvider
MethodsWithoutProvider(b) ==
    {m \in MethodsOf(b) : \A p \in Providers : ~SupportsMethod(p, m)}

Exhausted(r) == pc[r] = "next" /\ at[r] \notin Providers

NoProviderForMethod(r) ==
    unsupportedAt[r] # {} /\ MethodsWithoutProvider(batch[r]) # {}

RespondNoProviderForMethod(r) ==
    /\ Exhausted(r) /\ NoProviderForMethod(r)
    /\ Finish(r, Respond(NotImplemented, 0, MethodsWithoutProvider(batch[r])))
    /\ UNCHANGED providerVars

RespondTooLarge(r) ==
    /\ Exhausted(r) /\ ~NoProviderForMethod(r) /\ tooLargeAt[r] # {}
    /\ Finish(r, Respond(TooLarge, 0, {}))
    /\ UNCHANGED providerVars

RespondLastTryNext(r) ==
    /\ Exhausted(r) /\ ~NoProviderForMethod(r) /\ tooLargeAt[r] = {}
    /\ lastTryNext[r] # 0
    /\ Finish(r, Respond(HTTPOK, lastTryNext[r], {}))
    /\ UNCHANGED providerVars

RespondNoProviders(r) ==
    /\ Exhausted(r) /\ ~NoProviderForMethod(r) /\ tooLargeAt[r] = {}
    /\ lastTryNext[r] = 0
    /\ Finish(r, Respond(ServiceUnavailable, 0, {}))
    /\ UNCHANGED providerVars

-----------------------------------------------------------------------------
\* The verdict of a healthcheck, in one step; a reliable provider passes.
CheckPasses(p) == MarkHealthy(p) /\ UNCHANGED <<unsupportedFor, requestVars>>

CheckFails(p) ==
    /\ p \notin Reliable
    /\ \E err \in {Failure, Limited(0)} : MarkUnhealthy(p, err)
    /\ UNCHANGED <<unsupportedFor, requestVars>>

Tick == TickProviders /\ UNCHANGED requestVars

\* What the goroutine serving r does.
Step(r) ==
    \/ SkipOffline(r) \/ FoundOnline(r) \/ SkipUnsupported(r) \/ Send(r)
    \/ Answer(r) \/ ReturnCancelled(r) \/ Panic(r)
    \/ FailOverUnsupported(r) \/ FailOverTooLarge(r)
    \/ FailOverError(r) \/ MarkFailed(r) \/ FailOverMismatch(r)
    \/ ScanEndsEarly(r) \/ ScanFindsUnsupported(r) \/ Serve(r)
    \/ RespondNoProviderForMethod(r) \/ RespondTooLarge(r)
    \/ RespondLastTryNext(r) \/ RespondNoProviders(r)

Next ==
    \/ \E r \in Requests : Arrive(r) \/ Cancel(r) \/ Step(r)
    \/ \E p \in Providers : CheckPasses(p) \/ CheckFails(p)
    \/ Tick

Spec == Init /\ [][Next]_vars

(***************************************************************************)
(* The scheduler runs every request's goroutine, and a sent request always *)
(* returns: the provider's timeout bounds SendHTTPRequest.                 *)
(***************************************************************************)
FairSpec == Spec /\ \A r \in Requests : WF_vars(Step(r))

-----------------------------------------------------------------------------
\* Every variable has its type.
TypeOK ==
    /\ ProviderTypeOK
    /\ pc \in [Requests -> Active \union {"idle", "done"}]
    /\ batch \in [Requests -> Batches \union {<<>>}]
    /\ at \in [Requests -> 1..(NProviders + 1)]
    /\ answer \in [Requests -> Readings]
    /\ cancelled \in [Requests -> BOOLEAN]
    /\ unsupportedAt \in [Requests -> SUBSET Providers]
    /\ tooLargeAt \in [Requests -> SUBSET Providers]
    /\ lastTryNext \in [Requests -> 0..NProviders]
    /\ response \in [Requests -> Responses]

(***************************************************************************)
(* A client that stays gets an answer, and no 4xx or 5xx, whenever one     *)
(* provider of the endpoint has the methods asked for, passes its checks,  *)
(* serves what it has and is clear about what it rejects: whatever the     *)
(* other providers answer, short of a null for a response, however the     *)
(* requests interleave, and whichever other clients go away meanwhile.     *)
(***************************************************************************)
ServedByReliable ==
    \A r \in Requests : \A p \in Reliable \intersect Clear :
        pc[r] = "done" /\ Has(p, batch[r]) =>
            response[r].status \in {HTTPOK, ClientGone, Aborted}

(***************************************************************************)
(* A provider that tells its rejections apart is flagged for a method only *)
(* if it really lacks the method: however its answers to a batch are       *)
(* ordered, whichever of the ids are null or shared, and whatever the      *)
(* other providers answer (responseMethods).                               *)
(***************************************************************************)
FlagsAreReported ==
    \A p \in Clear : \A m \in Methods :
        unsupportedFor[p][m] > 0 => m \in Lacks[p]

(***************************************************************************)
(* A client told 501 "no provider available for method" asked for it, and  *)
(* no provider of the endpoint that tells its rejections apart has it.     *)
(***************************************************************************)
NotFoundIsTrue ==
    \A r \in Requests :
        response[r].status = NotImplemented =>
            /\ response[r].missing # {}
            /\ response[r].missing \subseteq MethodsOf(batch[r])
            /\ \A p \in Clear : response[r].missing \subseteq Lacks[p]

(***************************************************************************)
(* A provider that rate limited us is out of rotation until its window     *)
(* ends, except while the request that was told so is on its way to take   *)
(* it out.                                                                 *)
(***************************************************************************)
TakingOut(r, p) ==
    /\ at[r] = p /\ pc[r] \in {"answered", "marking"}
    /\ answer[r].err = "rateLimited"

RateLimitedIsOffline ==
    \A p \in Providers :
        online[p] /\ rateLimitedFor[p] > 0 => \E r \in Requests : TakingOut(r, p)

(***************************************************************************)
(* Only a failed check, or a faulty answer to a client who is still there, *)
(* takes a provider out of rotation.                                       *)
(***************************************************************************)
LostForAFault(p) ==
    \/ CheckFails(p)
    \/ \E r \in Requests :
         /\ at[r] = p /\ pc[r] \in {"answered", "marking"}
         /\ pc[r] = "answered" => ~cancelled[r]
         /\ IsFault(answer[r], batch[r])

OnlyFaultsTakeOffline ==
    [][\A p \in Providers : online[p] /\ ~online'[p] => LostForAFault(p)]_vars

(***************************************************************************)
(* No request turns back: whatever the others do, it visits the providers  *)
(* in order, asks each at most once, does at most five things at each, is  *)
(* served by one it has visited (the last one that told it to try the      *)
(* next, if need be), and is refused only when it has been past them all.  *)
(***************************************************************************)
Place(r) == IF pc[r] \in Active THEN at[r] ELSE 0

Patience(r) ==
    CASE pc[r] = "next" -> 4
      [] pc[r] = "capability" -> 3
      [] pc[r] = "sent" -> 2
      [] pc[r] = "answered" -> 1
      [] OTHER -> 0

Told(r) ==
    CASE response[r].status = 0 -> "nothing"
      [] response[r].status = HTTPOK -> "served"
      [] response[r].status \in {ClientGone, Aborted} -> "left"
      [] OTHER -> "refused"

Walks == INSTANCE Walk WITH
    Walkers <- Requests,
    MaxPatience <- 4,
    place <- [r \in Requests |-> Place(r)],
    patience <- [r \in Requests |-> Patience(r)],
    told <- [r \in Requests |-> Told(r)],
    by <- [r \in Requests |-> response[r].by]

WalksInOrder == Walks!Spec

(***************************************************************************)
(* Every request ends: the loop never waits for anything but the provider  *)
(* it is at, whatever the others do meanwhile.                             *)
(***************************************************************************)
RequestsEnd == \A r \in Requests : pc[r] \in Active ~> pc[r] = "done"

=============================================================================
