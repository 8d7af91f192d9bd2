------------------------------- MODULE Gateway -------------------------------
(***************************************************************************)
(* The JSON-RPC entry point of an endpoint (internal/http.go): every       *)
(* request has a goroutine of its own that screens it, then either runs    *)
(* the failover loop itself or, for a single read-only call, shares the    *)
(* upstream call of an identical request that is already under way         *)
(* (golang.org/x/sync/singleflight).  The failover loop is taken by its    *)
(* outcome here (module Failover has its steps); what it records in the    *)
(* metrics on the way is module MethodLabels.                              *)
(*                                                                         *)
(* A shared call runs on a goroutine of its own, named after the request   *)
(* that started it.                                                        *)
(***************************************************************************)
EXTENDS RPCRequest, MethodLabels, Functions

CONSTANTS
    NHandlers,     \* incoming requests, one goroutine each, numbered as they come
    Asked,         \* what each of them may ask
    Failures,      \* how a failover loop may fail
    MaxExchanges   \* decoded provider answers in one failover loop, at most

Handlers == 1..NHandlers
NoCall == 0    \* waits on no shared call
NoRequest == Undecoded("none")
Requests == UNION {Asked[h] : h \in Handlers}

ASSUME RequestsAssumption ==
    /\ NHandlers \in Nat /\ Recorders = Handlers
    /\ Failures \subseteq {"noProviders", "tooLarge", "noMethod"}
    /\ MaxExchanges \in Nat
    /\ \A r \in Requests :
         /\ r = [body |-> r.body, batch |-> r.batch, calls |-> r.calls]
         /\ r.body \in BodyKinds /\ r.batch \in BOOLEAN
         /\ r.calls \in Seq([method : STRING, params : Int, id : Int])
         /\ r.body = "decoded" <=> r.calls # <<>>
         /\ r.body = "decoded" /\ ~r.batch => Len(r.calls) = 1

VARIABLES
    pc,          \* where each handler is
    request,     \* what it was asked
    gone,        \* its client has left: ctx is done
    waitsOn,     \* the shared call it waits on
    received,    \* what its channel was sent
    group,       \* endpoint.Coalescer: the shared calls under way
    work,        \* where each failover loop is
    exchanges,   \* decoded answers it has seen
    result,      \* what it came to
    finishedBefore  \* shared calls that had ended when each request came

handlerVars == <<pc, request, gone, waitsOn, received, finishedBefore>>
workVars == <<work, exchanges, result>>
vars == <<handlerVars, workVars, group, labelVars>>

-----------------------------------------------------------------------------
Outcome(kind, request_, answer) ==
    [kind |-> kind, request |-> request_, answer |-> answer]
NoOutcome == Outcome("none", NoRequest, <<>>)

Init ==
    /\ pc = [h \in Handlers |-> "idle"]
    /\ request = [h \in Handlers |-> NoRequest]
    /\ gone = [h \in Handlers |-> FALSE]
    /\ waitsOn = [h \in Handlers |-> NoCall]
    /\ received = [h \in Handlers |-> NoOutcome]
    /\ group = {}
    /\ work = [h \in Handlers |-> "none"]
    /\ exchanges = [h \in Handlers |-> 0]
    /\ result = [h \in Handlers |-> NoOutcome]
    /\ finishedBefore = [h \in Handlers |-> {}]
    /\ InitLabels

Finished == {l \in Handlers : work[l] = "ended"}

-----------------------------------------------------------------------------
\* A request arrives; its body is read while others go on.
Arrive(h, r) ==
    /\ pc[h] = "idle" /\ \A g \in 1..(h - 1) : pc[g] # "idle"
    /\ pc' = [pc EXCEPT ![h] = "arrived"]
    /\ request' = [request EXCEPT ![h] = r]
    /\ finishedBefore' = [finishedBefore EXCEPT ![h] = Finished]
    /\ UNCHANGED <<gone, waitsOn, received, group>>
    /\ UNCHANGED <<workVars, labelVars>>

Leave(h) ==
    /\ pc[h] \notin {"idle", "done"} /\ ~gone[h]
    /\ gone' = [gone EXCEPT ![h] = TRUE]
    /\ UNCHANGED <<pc, request, waitsOn, received, finishedBefore, group>>
    /\ UNCHANGED <<workVars, labelVars>>

(***************************************************************************)
(* The handler returns, having written its answer (see Status).  What it   *)
(* held goes with it, but for what a call it leads still needs.            *)
(***************************************************************************)
Done(h) ==
    /\ pc' = [pc EXCEPT ![h] = "done"]
    /\ waitsOn' = [waitsOn EXCEPT ![h] = NoCall]
    /\ received' = [received EXCEPT ![h] = NoOutcome]
    /\ finishedBefore' = [finishedBefore EXCEPT ![h] = {}]
    /\ UNCHANGED <<group, work, exchanges, labelVars>>
    /\ \/ h \in group /\ UNCHANGED <<request, gone, result>>
       \/ /\ h \notin group
          /\ request' = [request EXCEPT ![h] = NoRequest]
          /\ gone' = [gone EXCEPT ![h] = FALSE]
          /\ result' = [result EXCEPT ![h] = NoOutcome]

Refuse(h) ==
    /\ pc[h] = "arrived" /\ Refusal(request[h]) # Accepted
    /\ Done(h)

Accepts(h) == pc[h] = "arrived" /\ Refusal(request[h]) = Accepted

Admitted(h) ==
    Accepts(h) /\ ~HasNil(request[h]) /\ ~RejectDisallowed(request[h])

\* The handler panics and writes nothing: net/http drops the connection.
Abort(h) ==
    /\ Accepts(h) /\ HasNil(request[h])
    /\ Done(h)

\* An error for every call of the request, in its order and under its ids.
Reject(h) ==
    /\ Accepts(h) /\ RejectDisallowed(request[h])
    /\ Done(h)

\* The call DoChan finds under the key.
UnderWay(r) == {l \in group : Key(request[l]) = Key(r)}

\* coalesceRequest up to its select: DoChan joins a call or starts one.
Coalesce(h) ==
    /\ Admitted(h) /\ IsCoalesced(request[h])
    /\ pc' = [pc EXCEPT ![h] = "waiting"]
    /\ \/ \E l \in UnderWay(request[h]) :
            /\ waitsOn' = [waitsOn EXCEPT ![h] = l]
            /\ UNCHANGED <<group, work>>
       \/ /\ UnderWay(request[h]) = {}
          /\ waitsOn' = [waitsOn EXCEPT ![h] = h]
          /\ group' = group \union {h}
          /\ work' = [work EXCEPT ![h] = "forwarding"]
    /\ UNCHANGED <<request, gone, received, finishedBefore, exchanges, result>>
    /\ UNCHANGED labelVars

Forward(h) ==
    /\ Admitted(h) /\ ~IsCoalesced(request[h])
    /\ pc' = [pc EXCEPT ![h] = "forwarding"]
    /\ work' = [work EXCEPT ![h] = "forwarding"]
    /\ UNCHANGED <<request, gone, waitsOn, received, finishedBefore, exchanges, result>>
    /\ UNCHANGED <<group, labelVars>>

-----------------------------------------------------------------------------
\* Broken: the shared call runs under the context of the client that started it.
LeadersContextDone(p) == gone[p]

\* The shared call's context outlives the client that started it.
ContextDone(p) == gone[p] /\ p \notin group

Return(p, outcome) ==
    /\ work' = [work EXCEPT ![p] = "returned"]
    /\ result' = [result EXCEPT ![p] = outcome]
    /\ exchanges' = [exchanges EXCEPT ![p] = 0]
    /\ UNCHANGED <<handlerVars, group, labelVars>>

\* The members of a set of positions, in their order.
InOrder(S) ==
    {order \in [1..Cardinality(S) -> S] :
        \A i, j \in DOMAIN order : i < j => order[i] < order[j]}

\* A provider's answer decodes and has a response for every call.
Exchange(p, answer) ==
    /\ work[p] = "forwarding" /\ exchanges[p] < MaxExchanges /\ ~ContextDone(p)
    /\ work' = [work EXCEPT ![p] = "recording"]
    /\ exchanges' = [exchanges EXCEPT ![p] = @ + 1]
    /\ result' = [result EXCEPT ![p] = Outcome("answered", request[p], answer)]
    /\ LET methods == ResponseMethods(request[p].calls, [k \in DOMAIN answer |-> answer[k].id])
       IN  \E good \in InOrder({k \in DOMAIN answer : answer[k].ok}) :
             toAdmit' = [toAdmit EXCEPT ![p] = [k \in DOMAIN good |-> methods[good[k]]]]
    /\ UNCHANGED <<handlerVars, group, labels, labelCount, admitting>>

\* After its metrics: an error the chain sends on to the next provider does.
TryNextProvider(p) ==
    /\ work[p] = "recording" /\ AllAdmitted(p)
    /\ \E k \in DOMAIN result[p].answer : ~result[p].answer[k].ok
    /\ work' = [work EXCEPT ![p] = "forwarding"]
    /\ UNCHANGED <<handlerVars, exchanges, result, group, labelVars>>

\* The answer is the client's, or the last there was when no provider can serve.
Settle(p) ==
    /\ work[p] = "recording" /\ AllAdmitted(p)
    /\ Return(p, result[p])

\* The last provider is behind it; those whose answers do not decode change nothing here.
Exhaust(p, failure) ==
    /\ work[p] = "forwarding"
    /\ Return(p, Outcome(failure, request[p], <<>>))

\* The loop looks at its context after each exchange.
Abandon(p) ==
    /\ work[p] = "forwarding" /\ ContextDone(p)
    /\ Return(p, Outcome("cancelled", request[p], <<>>))

(***************************************************************************)
(* The loop panics, as over null for a response.  The callback of a shared *)
(* call recovers; a handler that runs the loop itself ends with it.        *)
(***************************************************************************)
Panic(p) ==
    /\ work[p] = "forwarding"
    /\ Return(p, Outcome(IF p \in group THEN "panicked" ELSE "aborted", request[p], <<>>))

SendResult(p, waiting) ==
    /\ p \in group /\ work[p] = "returned"
    /\ received' = [h \in Handlers |-> IF h \in waiting THEN result[p] ELSE received[h]]
    /\ work' = [work EXCEPT ![p] = "ended"]
    /\ result' = [result EXCEPT ![p] = NoOutcome]
    /\ UNCHANGED <<pc, waitsOn, finishedBefore, exchanges, labelVars>>

WaitingOn(p) == {h \in Handlers : waitsOn[h] = p}

\* The key is forgotten; what is left of the request goes with its handler.
Forget(p) ==
    /\ group' = group \ {p}
    /\ IF pc[p] = "done"
       THEN /\ request' = [request EXCEPT ![p] = NoRequest]
            /\ gone' = [gone EXCEPT ![p] = FALSE]
       ELSE UNCHANGED <<request, gone>>

\* Broken: the key of a call that has ended is kept.
DeliverKeepingKey(p) ==
    SendResult(p, WaitingOn(p)) /\ UNCHANGED <<group, request, gone>>

\* Broken: only the request that started the call is sent its result.
DeliverToStarter(p) == SendResult(p, WaitingOn(p) \intersect {p}) /\ Forget(p)

\* doCall's end, in one critical section.
Deliver(p) == SendResult(p, WaitingOn(p)) /\ Forget(p)

-----------------------------------------------------------------------------
Silent == 0    \* nothing is written

ForwardError(kind) ==
    CASE kind \in {"cancelled", "aborted"} -> Silent
      [] kind = "noProviders" -> 503
      [] kind = "tooLarge" -> 413
      [] kind = "noMethod" -> 501
      [] kind = "panicked" -> 500

\* The status written for the outcome of the failover loop.
Status(outcome) ==
    IF outcome.kind = "answered" THEN 200 ELSE ForwardError(outcome.kind)

\* The responses as the provider gave them: [id, call], the call answered.
Given(outcome) ==
    [k \in DOMAIN outcome.answer |->
        [id |-> outcome.answer[k].id,
         call |-> outcome.request.calls[outcome.answer[k].call]]]

\* Broken: the shared response goes out as the provider gave it.
Unstamped(h, outcome) == Given(outcome)

\* A copy of the shared response, under this client's own id.
Stamped(h, outcome) ==
    << [Given(outcome)[1] EXCEPT !.id = request[h].calls[1].id] >>

SharedIsReady(h) == pc[h] = "waiting" /\ received[h] # NoOutcome
OwnIsReady(h) == pc[h] = "forwarding" /\ work[h] = "returned"

\* The client left first, or at the same time.
GiveUp(h) ==
    /\ pc[h] = "waiting" /\ gone[h]
    /\ Done(h)

TakeShared(h) == SharedIsReady(h) /\ Done(h)

WriteOwn(h) == OwnIsReady(h) /\ Done(h)

-----------------------------------------------------------------------------
Handle(h) ==
    \/ Refuse(h) \/ Abort(h) \/ Reject(h) \/ Coalesce(h) \/ Forward(h)
    \/ GiveUp(h) \/ TakeShared(h) \/ WriteOwn(h)

MayAnswer == [r \in Requests \union {NoRequest} |-> Answers(r)]

Work(p) ==
    \/ \E answer \in MayAnswer[request[p]] : Exchange(p, answer)
    \/ TryNextProvider(p) \/ Settle(p) \/ Abandon(p) \/ Panic(p) \/ Deliver(p)
    \/ \E failure \in Failures : Exhaust(p, failure)

Metrics(p) == AdmitStep(p) /\ UNCHANGED <<handlerVars, workVars, group>>

Step == \E h \in Handlers : Handle(h) \/ Work(h) \/ Metrics(h)

Next ==
    \/ \E h \in Handlers : (\E r \in Asked[h] : Arrive(h, r)) \/ Leave(h)
    \/ Step

(***************************************************************************)
(* The scheduler runs the goroutines that can run, and an exchange with a  *)
(* provider ends within its timeout: nothing stops while there is a step   *)
(* to take.  Clients need not come, or leave.                              *)
(***************************************************************************)
Spec == Init /\ [][Next]_vars /\ WF_vars(Step)

-----------------------------------------------------------------------------
TypeOK ==
    /\ pc \in [Handlers -> {"idle", "arrived", "waiting", "forwarding", "done"}]
    /\ request \in [Handlers -> Requests \union {NoRequest}]
    /\ gone \in [Handlers -> BOOLEAN]
    /\ waitsOn \in [Handlers -> Handlers \union {NoCall}]
    /\ group \subseteq Handlers
    /\ work \in [Handlers -> {"none", "forwarding", "recording", "returned", "ended"}]
    /\ exchanges \in [Handlers -> 0..MaxExchanges]
    /\ finishedBefore \in [Handlers -> SUBSET Handlers]
    /\ labelCount \in Nat
    /\ admitting \in [Handlers -> Stages]

(***************************************************************************)
(* A client that stays and shares a call is written an answer or an error, *)
(* whether the client that started the call leaves or the loop panics; one *)
(* whose handler runs the loop itself, unless this panics.                 *)
(***************************************************************************)
StayersAreAnswered ==
    \A h \in Handlers : ~gone[h] =>
        /\ SharedIsReady(h) => Status(received[h]) # Silent
        /\ OwnIsReady(h) => Status(result[h]) # Silent \/ result[h].kind = "aborted"

(***************************************************************************)
(* No wakeup is lost: a request that waits has been sent its result or     *)
(* waits on a call that is still in the group and still runs, and one that *)
(* runs its own loop has one; so nobody waits for what nobody will do,     *)
(* whoever left, panicked or failed on the way.                            *)
(***************************************************************************)
Runs(p) == work[p] \in {"forwarding", "recording", "returned"}

NobodyIsForgotten ==
    \A h \in Handlers :
        /\ pc[h] = "waiting" =>
             received[h] # NoOutcome \/ \E l \in group : waitsOn[h] = l /\ Runs(l)
        /\ pc[h] = "forwarding" => Runs(h)

Asks(call) == <<call.method, call.params>>

(***************************************************************************)
(* What a client is sent answers what it asked: every call of its own and  *)
(* nothing else, and under its own id where the call was shared.           *)
(***************************************************************************)
OwnAnswer ==
    \A h \in Handlers :
        /\ SharedIsReady(h) /\ received[h].kind = "answered" =>
             LET response == Stamped(h, received[h])[1]
             IN  /\ Asks(response.call) = Asks(request[h].calls[1])
                 /\ response.id = request[h].calls[1].id
        /\ OwnIsReady(h) /\ result[h].kind = "answered" =>
             {response.call : response \in Range(Given(result[h]))} = Range(request[h].calls)

(***************************************************************************)
(* Sharing is not caching: the call a request waits on had not ended when  *)
(* the request came, so it is never served an answer someone already had.  *)
(***************************************************************************)
NotStale == \A h \in Handlers : waitsOn[h] \notin finishedBefore[h]

AnsweredCalls(p) ==
    {request[p].calls[response.call] :
        response \in {x \in Range(result[p].answer) : x.ok}}

(***************************************************************************)
(* A name is admitted as a label only for a provider that answered it,     *)
(* also when a batch is answered out of order or in part; only batches     *)
(* whose calls lack an id or share one are attributed by position.         *)
(***************************************************************************)
AdmitsAnsweredMethods ==
    \A p \in Handlers :
        work[p] = "recording" /\ ~Untraceable(request[p].calls) =>
            Range(toAdmit[p]) \subseteq {call.method : call \in AnsweredCalls(p)}

\* Every request ends, however the calls it waits on go.
RequestsEnd == \A h \in Handlers : pc[h] = "arrived" ~> pc[h] = "done"
=============================================================================
