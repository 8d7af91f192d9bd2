---------------------------- MODULE GatewayProofs ----------------------------
(***************************************************************************)
(* Theorems about Gateway, for any number of requests, whatever they ask   *)
(* and whatever the providers answer: the labels of the metrics are        *)
(* bounded, a client that stays is answered, no shared call is joined      *)
(* after its end, and each client is sent the answer to its own request.   *)
(***************************************************************************)
EXTENDS Gateway, MethodLabelsProofs

LEMMA HandlersFinite == IsFiniteSet(Recorders) /\ Recorders = Handlers
  BY RequestsAssumption, FS_Interval DEF Handlers

-----------------------------------------------------------------------------
(***************************************************************************)
(* The labels: whatever else a step does, AdmitMethod keeps the books.     *)
(***************************************************************************)
LEMMA LabelInvariant == Spec => []LabelInv
  <1>1. Init => LabelInv
    BY LabelInit DEF Init
  <1>2. ASSUME LabelInv, [Next]_vars PROVE LabelInv'
    <2>1. CASE \E h \in Handlers : Metrics(h)
      BY <1>2, <2>1, HandlersFinite, AdmitStepInv DEF Metrics
    <2>2. CASE UNCHANGED <<labels, labelCount, admitting>>
      BY <1>2, <2>2, LabelsUntouched
    <2>3. ASSUME NEW h \in Handlers, Handle(h) PROVE UNCHANGED labelVars
      BY <2>3 DEF Handle, Refuse, Abort, Reject, Coalesce, Forward, GiveUp, TakeShared,
         WriteOwn, Done
    <2>4. ASSUME NEW p \in Handlers, Work(p) PROVE UNCHANGED <<labels, labelCount, admitting>>
      BY <2>4 DEF Work, Exchange, TryNextProvider, Settle, Abandon, Panic, Deliver, Exhaust,
         Return, SendResult, labelVars
    <2>5. ASSUME NEW h \in Handlers, (\E r \in Asked[h] : Arrive(h, r)) \/ Leave(h)
          PROVE  UNCHANGED labelVars
      BY <2>5 DEF Arrive, Leave
    <2> QED BY <1>2, <2>1, <2>2, <2>3, <2>4, <2>5 DEF Next, Step, vars, labelVars
  <1> QED BY <1>1, <1>2, PTL DEF Spec

\* MethodLabels.LabelsAreBounded: AdmitMethod never makes more labels than the limit.
THEOREM LabelsBounded == Spec => []LabelsAreBounded
  <1>1. LabelInv => LabelsAreBounded
    BY HandlersFinite, LabelInvImplies
  <1> QED BY <1>1, LabelInvariant, PTL

\* MethodLabels.LabelCountSettles: no race loses or keeps a count.
THEOREM LabelsCounted == Spec => []LabelCountSettles
  <1>1. LabelInv => LabelCountSettles
    BY HandlersFinite, LabelInvImplies
  <1> QED BY <1>1, LabelInvariant, PTL

-----------------------------------------------------------------------------
(***************************************************************************)
(* Types.  A request that has not been screened has started nothing        *)
(* (Unstarted), and what a loop came to, or a channel was sent, is an      *)
(* outcome of its kind (Outcomes).                                         *)
(***************************************************************************)
Final == {"answered", "panicked"} \cup Failures

WorkTypeOK ==
    /\ pc \in [Handlers -> {"idle", "arrived", "waiting", "forwarding", "done"}]
    /\ request \in [Handlers -> Requests \union {NoRequest}]
    /\ gone \in [Handlers -> BOOLEAN]
    /\ waitsOn \in [Handlers -> Handlers \union {NoCall}]
    /\ group \subseteq Handlers
    /\ work \in [Handlers -> {"none", "forwarding", "recording", "returned", "ended"}]
    /\ exchanges \in [Handlers -> 0..MaxExchanges]
    /\ finishedBefore \in [Handlers -> SUBSET Handlers]
    /\ DOMAIN received = Handlers /\ DOMAIN result = Handlers

Unstarted ==
    \A h \in Handlers : pc[h] \in {"idle", "arrived"} =>
        work[h] = "none" /\ h \notin group /\ waitsOn[h] = NoCall /\ received[h] = NoOutcome

(***************************************************************************)
(* Only a loop of its own is cut off with its client, and only while that  *)
(* is gone, or ends in a panic nobody recovers; no shared call does.       *)
(***************************************************************************)
Outcomes ==
    \A h \in Handlers :
        /\ work[h] = "recording" => result[h].kind = "answered"
        /\ work[h] = "returned" /\ (h \in group \/ pc[h] = "forwarding") =>
              \/ result[h].kind \in Final
              \/ /\ h \notin group
                 /\ result[h].kind = "aborted" \/ (result[h].kind = "cancelled" /\ gone[h])
        /\ received[h] # NoOutcome => received[h].kind \in Final

\* A loop that runs has its handler, or the group, to wait for it.
Awaited ==
    \A h \in Handlers :
        /\ h \in group => work[h] # "ended"
        /\ h \notin group /\ pc[h] \in {"waiting", "done"} =>
              work[h] \notin {"forwarding", "recording"}

GatewayInv == WorkTypeOK /\ Unstarted /\ Outcomes /\ Awaited

LEMMA OutcomeKind ==
  /\ \A kind, r, answer : Outcome(kind, r, answer).kind = kind
  /\ NoOutcome.kind = "none" /\ "none" \notin Final /\ "cancelled" \notin Final
  /\ Failures \subseteq Final /\ {"answered", "panicked"} \subseteq Final
  BY RequestsAssumption DEF Outcome, NoOutcome, Final

\* A handler returns only when nothing of its own still runs for it alone.
LEMMA DoneInv ==
  ASSUME GatewayInv, NEW h \in Handlers, pc[h] # "idle", Done(h),
         h \notin group => work[h] \notin {"forwarding", "recording"}
  PROVE  GatewayInv'
  <1>1. WorkTypeOK'
    BY DEF GatewayInv, WorkTypeOK, Done
  <1>2. Unstarted' /\ Awaited'
    BY DEF GatewayInv, WorkTypeOK, Unstarted, Awaited, Done
  <1>3. Outcomes'
    BY OutcomeKind DEF GatewayInv, WorkTypeOK, Outcomes, Done
  <1> QED BY <1>1, <1>2, <1>3 DEF GatewayInv

LEMMA HandleInv ==
  ASSUME GatewayInv, NEW h \in Handlers, Handle(h)
  PROVE  GatewayInv'
  <1>1. CASE Refuse(h) \/ Abort(h) \/ Reject(h)
    BY <1>1, DoneInv DEF Refuse, Abort, Reject, Accepts, GatewayInv, Unstarted
  <1>2. CASE GiveUp(h) \/ TakeShared(h)
    BY <1>2, DoneInv DEF GiveUp, TakeShared, SharedIsReady, GatewayInv, Awaited
  <1>3. CASE WriteOwn(h)
    BY <1>3, DoneInv DEF WriteOwn, OwnIsReady
  <1>4. CASE Forward(h)
    <2>1. pc[h] = "arrived"
      BY <1>4 DEF Forward, Admitted, Accepts
    <2>2. WorkTypeOK'
      BY <1>4 DEF Forward, GatewayInv, WorkTypeOK
    <2> QED BY <1>4, <2>1, <2>2
        DEF Forward, GatewayInv, WorkTypeOK, Unstarted, Outcomes, Awaited
  <1>5. CASE Coalesce(h)
    <2>1. /\ pc[h] = "arrived" /\ h \notin group /\ work[h] = "none"
          /\ pc' = [pc EXCEPT ![h] = "waiting"]
          /\ UNCHANGED <<request, gone, received, finishedBefore, exchanges, result>>
      BY <1>5 DEF Coalesce, Admitted, Accepts, GatewayInv, Unstarted
    <2>2. CASE /\ group' = group /\ work' = work
               /\ \E l \in group : waitsOn' = [waitsOn EXCEPT ![h] = l]
      BY <2>1, <2>2 DEF GatewayInv, WorkTypeOK, Unstarted, Outcomes, Awaited
    <2>3. CASE /\ waitsOn' = [waitsOn EXCEPT ![h] = h]
               /\ group' = group \union {h}
               /\ work' = [work EXCEPT ![h] = "forwarding"]
      <3>1. WorkTypeOK' /\ Unstarted' /\ Awaited'
        BY <2>1, <2>3 DEF GatewayInv, WorkTypeOK, Unstarted, Awaited
      <3>2. Outcomes'
        BY <2>1, <2>3 DEF GatewayInv, WorkTypeOK, Outcomes
      <3> QED BY <3>1, <3>2 DEF GatewayInv
    <2> QED BY <1>5, <2>2, <2>3 DEF Coalesce, UnderWay
  <1> QED BY <1>1, <1>2, <1>3, <1>4, <1>5 DEF Handle

\* A loop returns: with what is no cancellation, or with one its client caused.
LEMMA ReturnInv ==
  ASSUME GatewayInv, NEW p \in Handlers, NEW outcome, Return(p, outcome),
         work[p] \in {"forwarding", "recording"},
         \/ outcome.kind \in Final
         \/ outcome.kind = "cancelled" /\ ContextDone(p)
         \/ outcome.kind = "aborted" /\ p \notin group
  PROVE  GatewayInv'
  <1>1. WorkTypeOK'
    BY RequestsAssumption DEF Return, GatewayInv, WorkTypeOK, handlerVars
  <1>2. Unstarted' /\ Awaited'
    BY DEF Return, GatewayInv, WorkTypeOK, Unstarted, Awaited, handlerVars
  <1>3. Outcomes'
    BY DEF Return, GatewayInv, WorkTypeOK, Outcomes, handlerVars, ContextDone
  <1> QED BY <1>1, <1>2, <1>3 DEF GatewayInv

LEMMA DeliverInv ==
  ASSUME GatewayInv, NEW p \in Handlers, Deliver(p)
  PROVE  GatewayInv'
  <1>1. /\ p \in group /\ work[p] = "returned"
        /\ received' = [h \in Handlers |-> IF h \in WaitingOn(p) THEN result[p] ELSE received[h]]
        /\ work' = [work EXCEPT ![p] = "ended"]
        /\ result' = [result EXCEPT ![p] = NoOutcome]
        /\ group' = group \ {p}
        /\ UNCHANGED <<pc, waitsOn, finishedBefore, exchanges>>
    BY DEF Deliver, SendResult, Forget
  <1>2. /\ \/ UNCHANGED <<request, gone>>
           \/ /\ pc[p] = "done"
              /\ request' = [request EXCEPT ![p] = NoRequest]
              /\ gone' = [gone EXCEPT ![p] = FALSE]
    BY DEF Deliver, Forget
  <1>3. result[p].kind \in Final
    BY <1>1 DEF GatewayInv, Outcomes
  <1>4. \A h \in Handlers : h \in WaitingOn(p) => pc[h] \notin {"idle", "arrived"}
    BY RequestsAssumption DEF WaitingOn, GatewayInv, Unstarted, NoCall, Handlers
  <1>5. WorkTypeOK'
    BY <1>1, <1>2 DEF GatewayInv, WorkTypeOK
  <1>6. Unstarted' /\ Awaited'
    BY <1>1, <1>4 DEF GatewayInv, WorkTypeOK, Unstarted, Awaited
  <1>7. Outcomes'
    BY <1>1, <1>2, <1>3 DEF GatewayInv, WorkTypeOK, Outcomes
  <1> QED BY <1>5, <1>6, <1>7 DEF GatewayInv

LEMMA WorkInv ==
  ASSUME GatewayInv, NEW p \in Handlers, Work(p)
  PROVE  GatewayInv'
  <1>1. ASSUME NEW answer, Exchange(p, answer) PROVE GatewayInv'
    <2>1. WorkTypeOK' /\ Unstarted' /\ Awaited'
      BY <1>1, RequestsAssumption
      DEF Exchange, GatewayInv, WorkTypeOK, Unstarted, Awaited, handlerVars
    <2>2. Outcomes'
      BY <1>1, OutcomeKind DEF Exchange, GatewayInv, WorkTypeOK, Outcomes, handlerVars
    <2> QED BY <2>1, <2>2 DEF GatewayInv
  <1>2. CASE TryNextProvider(p)
    BY <1>2 DEF TryNextProvider, GatewayInv, WorkTypeOK, Unstarted, Awaited, Outcomes, handlerVars
  <1>3. CASE Settle(p)
    BY <1>3, ReturnInv, OutcomeKind DEF Settle, GatewayInv, Outcomes
  <1>4. CASE Abandon(p)
    BY <1>4, ReturnInv, OutcomeKind DEF Abandon
  <1>5. CASE Panic(p)
    BY <1>5, ReturnInv, OutcomeKind DEF Panic
  <1>6. ASSUME NEW failure \in Failures, Exhaust(p, failure) PROVE GatewayInv'
    BY <1>6, ReturnInv, OutcomeKind DEF Exhaust
  <1> QED BY <1>1, <1>2, <1>3, <1>4, <1>5, <1>6, DeliverInv DEF Work

LEMMA GatewayInvariant == Spec => []GatewayInv
  <1>1. Init => GatewayInv
    BY RequestsAssumption
    DEF Init, GatewayInv, WorkTypeOK, Unstarted, Awaited, Outcomes, Handlers
  <1>2. ASSUME GatewayInv, [Next]_vars PROVE GatewayInv'
    <2>1. CASE UNCHANGED <<handlerVars, workVars, group>>
      BY <1>2, <2>1 DEF GatewayInv, WorkTypeOK, Unstarted, Awaited, Outcomes,
         handlerVars, workVars
    <2>2. ASSUME NEW h \in Handlers, NEW r \in Asked[h], Arrive(h, r) PROVE GatewayInv'
      <3>1. r \in Requests
        BY DEF Requests
      <3> QED BY <1>2, <2>2, <3>1
          DEF Arrive, GatewayInv, WorkTypeOK, Unstarted, Awaited, Outcomes, workVars, Finished
    <2>3. ASSUME NEW h \in Handlers, Leave(h) PROVE GatewayInv'
      BY <1>2, <2>3 DEF Leave, GatewayInv, WorkTypeOK, Unstarted, Awaited, Outcomes, workVars
    <2> QED BY <1>2, <2>1, <2>2, <2>3, HandleInv, WorkInv DEF Next, Step, Metrics, vars
  <1> QED BY <1>1, <1>2, PTL DEF Spec

\* Gateway.TypeOK: every variable stays in its type.
THEOREM TypeCorrect == Spec => []TypeOK
  <1>1. GatewayInv /\ LabelInv => TypeOK
    BY HandlersFinite DEF GatewayInv, WorkTypeOK, LabelInv, TypeOK
  <1> QED BY <1>1, GatewayInvariant, LabelInvariant, PTL

\* Gateway.StayersAreAnswered: of those whose call is shared, only a client that has
\* left is written nothing; of the others, also one whose own loop panicked.
THEOREM Answered == Spec => []StayersAreAnswered
  <1>1. \A outcome : outcome.kind \in Final => Status(outcome) # Silent
    BY RequestsAssumption DEF Final, Status, ForwardError, Silent
  <1>2. GatewayInv => StayersAreAnswered
    BY <1>1 DEF GatewayInv, Outcomes, StayersAreAnswered, SharedIsReady, OwnIsReady
  <1> QED BY <1>2, GatewayInvariant, PTL

-----------------------------------------------------------------------------
(***************************************************************************)
(* A call in the group has not ended, and one that has ended never runs    *)
(* again: what a request finds under its key had not ended when it came.   *)
(***************************************************************************)
StaysFinished == \A h \in Handlers : finishedBefore[h] \subseteq Finished

FreshInv == StaysFinished /\ NotStale

LEMMA FreshStep ==
  ASSUME GatewayInv, FreshInv, [Next]_vars
  PROVE  FreshInv'
  <1>0. /\ waitsOn \in [Handlers -> Handlers \union {NoCall}]
        /\ finishedBefore \in [Handlers -> SUBSET Handlers]
        /\ work \in [Handlers -> {"none", "forwarding", "recording", "returned", "ended"}]
        /\ NoCall \notin Handlers
    BY RequestsAssumption DEF GatewayInv, WorkTypeOK, NoCall, Handlers
  <1>1. ASSUME Finished \subseteq Finished', UNCHANGED <<waitsOn, finishedBefore>>
        PROVE  FreshInv'
    BY <1>1 DEF FreshInv, StaysFinished, NotStale
  <1>2. ASSUME NEW h \in Handlers, Done(h) PROVE FreshInv'
    BY <1>0, <1>2 DEF FreshInv, StaysFinished, NotStale, Done, Finished
  <1>3. ASSUME NEW h \in Handlers, NEW r, Arrive(h, r) PROVE FreshInv'
    <2>1. Finished' = Finished /\ waitsOn' = waitsOn /\ waitsOn[h] = NoCall
          /\ finishedBefore' = [finishedBefore EXCEPT ![h] = Finished]
      BY <1>3 DEF Arrive, workVars, Finished, GatewayInv, Unstarted
    <2>2. Finished \subseteq Handlers
      BY DEF Finished
    <2> QED BY <1>0, <2>1, <2>2 DEF FreshInv, StaysFinished, NotStale
  <1>4. ASSUME NEW h \in Handlers, Handle(h) PROVE FreshInv'
    <2>1. CASE Forward(h)
      <3>1. Finished \subseteq Finished'
        BY <1>0, <2>1 DEF Forward, Admitted, Accepts, Finished, GatewayInv, Unstarted
      <3> QED BY <1>1, <2>1, <3>1 DEF Forward
    <2>2. CASE Coalesce(h)
      <3>1. Finished \subseteq Finished' /\ UNCHANGED finishedBefore
        BY <1>0, <2>2 DEF Coalesce, Admitted, Accepts, Finished, GatewayInv, Unstarted
      <3>2. PICK l : /\ waitsOn' = [waitsOn EXCEPT ![h] = l]
                     /\ l \in group \/ l = h
        BY <2>2 DEF Coalesce, UnderWay
      <3>3. l \notin Finished
        BY <1>0, <2>2, <3>2 DEF Coalesce, Admitted, Accepts, Finished, GatewayInv, Unstarted, Awaited
      <3> QED BY <1>0, <3>1, <3>2, <3>3 DEF FreshInv, StaysFinished, NotStale
    <2> QED BY <1>2, <1>4, <2>1, <2>2
        DEF Handle, Refuse, Abort, Reject, GiveUp, TakeShared, WriteOwn
  <1>5. ASSUME NEW p \in Handlers, Work(p) PROVE FreshInv'
    <2>1. Finished \subseteq Finished' /\ UNCHANGED <<waitsOn, finishedBefore>>
      BY <1>0, <1>5 DEF Work, Exchange, TryNextProvider, Settle, Abandon, Panic, Deliver,
         Exhaust, Return, SendResult, handlerVars, Finished
    <2> QED BY <1>1, <2>1
  <1>6. ASSUME UNCHANGED <<waitsOn, finishedBefore, work>> PROVE FreshInv'
    BY <1>1, <1>6 DEF Finished
  <1> QED BY <1>3, <1>4, <1>5, <1>6
      DEF Next, Step, Metrics, Leave, vars, handlerVars, workVars

\* Gateway.NotStale: no request joins a call that ended before it came.
THEOREM SharingIsNotCaching == Spec => []NotStale
  <1>1. Init => FreshInv
    BY RequestsAssumption DEF Init, FreshInv, StaysFinished, NotStale, Finished, Handlers, NoCall
  <1> QED BY <1>1, FreshStep, GatewayInvariant, PTL DEF Spec, FreshInv

-----------------------------------------------------------------------------
(***************************************************************************)
(* What is answered.  The requests that wait on a call under way asked for *)
(* its key, and no request waits on a call that is yet to begin; what a    *)
(* loop came to is an answer to its own request, and what a channel was    *)
(* sent is an answer to a request with the key of the one that waits.      *)
(***************************************************************************)
Single(r) == r \in Requests /\ Len(r.calls) = 1

Waiters ==
    \A h \in Handlers : waitsOn[h] # NoCall =>
        pc[h] = "waiting" /\ pc[waitsOn[h]] \notin {"idle", "arrived"}

SameKey ==
    \A h \in Handlers : waitsOn[h] \in group => Key(request[h]) = Key(request[waitsOn[h]])

Singles ==
    \A h \in Handlers :
        /\ h \in group \/ pc[h] = "waiting" => Single(request[h])
        /\ pc[h] = "arrived" => request[h] \in Requests

Sharing == Waiters /\ SameKey /\ Singles

IsAnswerTo(outcome, r) ==
    outcome.kind = "answered" => outcome.request = r /\ outcome.answer \in Answers(r)

OwnResults ==
    \A h \in Handlers :
        work[h] \in {"recording", "returned"} /\ (h \in group \/ pc[h] = "forwarding") =>
            IsAnswerTo(result[h], request[h])

SharedResults ==
    \A h \in Handlers :
        received[h] # NoOutcome =>
            /\ pc[h] = "waiting"
            /\ \E r : Single(r) /\ Key(r) = Key(request[h]) /\ IsAnswerTo(received[h], r)

AnswerInv == Sharing /\ OwnResults /\ SharedResults

LEMMA CoalescedIsSingle ==
  ASSUME NEW r \in Requests, Refusal(r) = Accepted, ~HasNil(r), IsCoalesced(r)
  PROVE  Single(r)
  <1>1. r.body = "decoded"
    BY RequestsAssumption DEF Refusal, Accepted, BodyKinds, HasNil
  <1> QED BY <1>1, RequestsAssumption DEF IsCoalesced, Single

LEMMA DoneAnswers ==
  ASSUME GatewayInv, AnswerInv, NEW h \in Handlers, pc[h] # "idle", Done(h)
  PROVE  AnswerInv'
  <1>0. \A g \in Handlers : g \in group \/ g # h => request'[g] = request[g]
    BY DEF GatewayInv, WorkTypeOK, Done
  <1>1. Sharing'
    <2>0. /\ pc' = [pc EXCEPT ![h] = "done"] /\ waitsOn' = [waitsOn EXCEPT ![h] = NoCall]
          /\ group' = group /\ group \subseteq Handlers
          /\ pc \in [Handlers -> {"idle", "arrived", "waiting", "forwarding", "done"}]
          /\ waitsOn \in [Handlers -> Handlers \union {NoCall}] /\ NoCall \notin Handlers
          /\ Waiters /\ SameKey /\ Singles
      BY RequestsAssumption DEF Done, GatewayInv, WorkTypeOK, AnswerInv, Sharing, NoCall, Handlers
    <2>1. Waiters'
      BY <2>0 DEF Waiters
    <2>2. SameKey'
      BY <1>0, <2>0 DEF SameKey
    <2>3. Singles'
      BY <1>0, <2>0 DEF Singles
    <2> QED BY <2>1, <2>2, <2>3 DEF Sharing
  <1>2. OwnResults'
    BY DEF GatewayInv, WorkTypeOK, AnswerInv, OwnResults, Done
  <1>3. SharedResults'
    BY DEF GatewayInv, WorkTypeOK, AnswerInv, SharedResults, Done
  <1> QED BY <1>1, <1>2, <1>3 DEF AnswerInv

LEMMA HandleAnswers ==
  ASSUME GatewayInv, AnswerInv, NEW h \in Handlers, Handle(h)
  PROVE  AnswerInv'
  <1>1. CASE \/ Refuse(h) \/ Abort(h) \/ Reject(h) \/ GiveUp(h) \/ TakeShared(h) \/ WriteOwn(h)
    BY <1>1, DoneAnswers DEF Refuse, Abort, Reject, Accepts, GiveUp, TakeShared, WriteOwn,
       SharedIsReady, OwnIsReady
  <1>2. CASE Forward(h)
    <2>1. /\ pc[h] = "arrived" /\ h \notin group /\ waitsOn[h] = NoCall /\ received[h] = NoOutcome
          /\ pc' = [pc EXCEPT ![h] = "forwarding"]
          /\ work' = [work EXCEPT ![h] = "forwarding"]
          /\ UNCHANGED <<request, waitsOn, received, result, group>>
      BY <1>2 DEF Forward, Admitted, Accepts, GatewayInv, Unstarted
    <2>2. Sharing'
      BY <2>1 DEF GatewayInv, WorkTypeOK, AnswerInv, Sharing, Waiters, SameKey, Singles
    <2>3. OwnResults'
      BY <2>1 DEF GatewayInv, WorkTypeOK, AnswerInv, OwnResults
    <2>4. SharedResults'
      BY <2>1 DEF GatewayInv, WorkTypeOK, AnswerInv, SharedResults
    <2> QED BY <2>2, <2>3, <2>4 DEF AnswerInv
  <1>3. CASE Coalesce(h)
    <2>1. /\ pc[h] = "arrived" /\ h \notin group /\ received[h] = NoOutcome /\ work[h] = "none"
          /\ pc' = [pc EXCEPT ![h] = "waiting"]
          /\ UNCHANGED <<request, received, result>>
      BY <1>3 DEF Coalesce, Admitted, Accepts, GatewayInv, Unstarted
    <2>2. Single(request[h])
      BY <1>3, <2>1, CoalescedIsSingle DEF Coalesce, Admitted, Accepts, AnswerInv, Sharing, Singles
    <2>3. SharedResults'
      BY <2>1 DEF GatewayInv, WorkTypeOK, AnswerInv, SharedResults
    <2>4. ASSUME NEW l \in group, Key(request[l]) = Key(request[h]),
                 waitsOn' = [waitsOn EXCEPT ![h] = l], UNCHANGED <<group, work>>
          PROVE  Sharing' /\ OwnResults'
      <3>1. l # h /\ l \in Handlers /\ pc[l] \notin {"idle", "arrived"}
        BY <2>1 DEF GatewayInv, WorkTypeOK, Unstarted
      <3>2. Sharing'
        BY <2>1, <2>2, <2>4, <3>1
        DEF GatewayInv, WorkTypeOK, AnswerInv, Sharing, Waiters, SameKey, Singles
      <3>3. OwnResults'
        BY <2>1, <2>4 DEF GatewayInv, WorkTypeOK, AnswerInv, OwnResults
      <3> QED BY <3>2, <3>3
    <2>5. ASSUME waitsOn' = [waitsOn EXCEPT ![h] = h], group' = group \union {h},
                 work' = [work EXCEPT ![h] = "forwarding"]
          PROVE  Sharing' /\ OwnResults'
      <3>1. Sharing'
        BY <2>1, <2>2, <2>5, RequestsAssumption
        DEF GatewayInv, WorkTypeOK, AnswerInv, Sharing, Waiters, SameKey, Singles, Handlers, NoCall
      <3>2. OwnResults'
        BY <2>1, <2>5 DEF GatewayInv, WorkTypeOK, AnswerInv, OwnResults
      <3> QED BY <3>1, <3>2
    <2> QED BY <1>3, <2>3, <2>4, <2>5 DEF Coalesce, UnderWay, AnswerInv
  <1> QED BY <1>1, <1>2, <1>3 DEF Handle

\* A loop's step leaves the handlers and the group alone.
LEMMA LoopAnswers ==
  ASSUME GatewayInv, AnswerInv, NEW p \in Handlers, UNCHANGED <<handlerVars, group>>,
         NEW outcome, result' = [result EXCEPT ![p] = outcome],
         NEW label, work' = [work EXCEPT ![p] = label],
         label \in {"recording", "returned"} /\ (p \in group \/ pc[p] = "forwarding") =>
             IsAnswerTo(outcome, request[p])
  PROVE  AnswerInv'
  <1>1. Sharing' /\ SharedResults'
    BY DEF AnswerInv, Sharing, Waiters, SameKey, Singles, SharedResults, handlerVars
  <1>2. OwnResults'
    BY DEF GatewayInv, WorkTypeOK, AnswerInv, OwnResults, handlerVars
  <1> QED BY <1>1, <1>2 DEF AnswerInv

LEMMA DeliverAnswers ==
  ASSUME GatewayInv, AnswerInv, NEW p \in Handlers, Deliver(p)
  PROVE  AnswerInv'
  <1>1. /\ p \in group /\ work[p] = "returned"
        /\ received' = [h \in Handlers |-> IF h \in WaitingOn(p) THEN result[p] ELSE received[h]]
        /\ work' = [work EXCEPT ![p] = "ended"]
        /\ result' = [result EXCEPT ![p] = NoOutcome]
        /\ group' = group \ {p}
        /\ UNCHANGED <<pc, waitsOn>>
    BY DEF Deliver, SendResult, Forget
  <1>2. \A h \in Handlers : h # p \/ pc[h] # "done" => request'[h] = request[h]
    BY DEF Deliver, Forget, GatewayInv, WorkTypeOK
  <1>3. Single(request[p]) /\ IsAnswerTo(result[p], request[p])
    BY <1>1 DEF AnswerInv, Sharing, Singles, OwnResults
  <1>4. Sharing'
    <2>0. /\ group' = group \ {p} /\ group \subseteq Handlers /\ UNCHANGED <<pc, waitsOn>>
          /\ waitsOn \in [Handlers -> Handlers \union {NoCall}] /\ NoCall \notin Handlers
          /\ Waiters /\ SameKey /\ Singles
      BY <1>1, RequestsAssumption
      DEF GatewayInv, WorkTypeOK, AnswerInv, Sharing, NoCall, Handlers
    <2>1. Waiters'
      BY <2>0 DEF Waiters
    <2>2. SameKey'
      BY <1>2, <2>0 DEF SameKey, Waiters
    <2>3. Singles'
      BY <1>2, <2>0 DEF Singles
    <2> QED BY <2>1, <2>2, <2>3 DEF Sharing
  <1>5. OwnResults'
    BY <1>1, <1>2 DEF GatewayInv, WorkTypeOK, AnswerInv, OwnResults
  <1>6. ASSUME NEW h \in Handlers, received'[h] # NoOutcome
        PROVE  /\ pc[h] = "waiting" /\ request'[h] = request[h]
               /\ \E r : Single(r) /\ Key(r) = Key(request[h]) /\ IsAnswerTo(received'[h], r)
    <2>1. CASE h \in WaitingOn(p)
      <3>1. waitsOn[h] = p /\ p # NoCall
        BY <2>1, RequestsAssumption DEF WaitingOn, Handlers, NoCall
      <3>2. pc[h] = "waiting" /\ Key(request[p]) = Key(request[h])
        BY <1>1, <3>1 DEF AnswerInv, Sharing, Waiters, SameKey
      <3> QED BY <1>1, <1>2, <1>3, <2>1, <3>2
    <2>2. CASE h \notin WaitingOn(p)
      BY <1>1, <1>2, <1>6, <2>2 DEF AnswerInv, SharedResults
    <2> QED BY <2>1, <2>2
  <1>7. SharedResults'
    BY <1>1, <1>6 DEF SharedResults
  <1> QED BY <1>4, <1>5, <1>7 DEF AnswerInv

LEMMA WorkAnswers ==
  ASSUME GatewayInv, AnswerInv, NEW p \in Handlers, Work(p)
  PROVE  AnswerInv'
  <1>1. ASSUME NEW answer \in MayAnswer[request[p]], Exchange(p, answer) PROVE AnswerInv'
    <2>1. answer \in Answers(request[p])
      BY <1>1 DEF MayAnswer, GatewayInv, WorkTypeOK
    <2>2. IsAnswerTo(Outcome("answered", request[p], answer), request[p])
      BY <2>1 DEF IsAnswerTo, Outcome
    <2> QED BY <1>1, <2>2, LoopAnswers DEF Exchange
  <1>2. CASE TryNextProvider(p)
    <2>1. Sharing' /\ SharedResults'
      BY <1>2 DEF TryNextProvider, AnswerInv, Sharing, Waiters, SameKey, Singles,
         SharedResults, handlerVars
    <2>2. OwnResults'
      BY <1>2 DEF TryNextProvider, GatewayInv, WorkTypeOK, AnswerInv, OwnResults, handlerVars
    <2> QED BY <2>1, <2>2 DEF AnswerInv
  <1>3. CASE Settle(p)
    <2>1. p \in group \/ pc[p] = "forwarding" => IsAnswerTo(result[p], request[p])
      BY <1>3 DEF Settle, AnswerInv, OwnResults
    <2> QED BY <1>3, <2>1, LoopAnswers DEF Settle, Return
  <1>4. ASSUME NEW kind, kind # "answered", Return(p, Outcome(kind, request[p], <<>>))
        PROVE  AnswerInv'
    <2>1. IsAnswerTo(Outcome(kind, request[p], <<>>), request[p])
      BY <1>4 DEF IsAnswerTo, Outcome
    <2> QED BY <1>4, <2>1, LoopAnswers DEF Return
  <1>5. CASE Abandon(p) \/ Panic(p) \/ \E failure \in Failures : Exhaust(p, failure)
    <2>1. \A failure \in Failures : failure # "answered"
      BY RequestsAssumption
    <2> QED BY <1>4, <1>5, <2>1 DEF Abandon, Panic, Exhaust
  <1> QED BY <1>1, <1>2, <1>3, <1>5, DeliverAnswers DEF Work

LEMMA AnswerStep ==
  ASSUME GatewayInv, AnswerInv, [Next]_vars
  PROVE  AnswerInv'
  <1>1. CASE UNCHANGED <<handlerVars, workVars, group>>
    BY <1>1 DEF AnswerInv, Sharing, Waiters, SameKey, Singles, OwnResults, SharedResults,
       handlerVars, workVars
  <1>2. ASSUME NEW h \in Handlers, NEW r \in Asked[h], Arrive(h, r) PROVE AnswerInv'
    <2>1. r \in Requests
      BY DEF Requests
    <2>2. /\ pc[h] = "idle" /\ h \notin group /\ waitsOn[h] = NoCall /\ received[h] = NoOutcome
          /\ pc' = [pc EXCEPT ![h] = "arrived"]
          /\ request' = [request EXCEPT ![h] = r]
          /\ UNCHANGED <<waitsOn, received, group, work, result>>
      BY <1>2 DEF Arrive, workVars, GatewayInv, Unstarted
    <2>3. Sharing'
      <3>0. /\ group \subseteq Handlers /\ NoCall \notin Handlers
            /\ pc \in [Handlers -> {"idle", "arrived", "waiting", "forwarding", "done"}]
            /\ waitsOn \in [Handlers -> Handlers \union {NoCall}]
            /\ \A g \in Handlers : g # h => request'[g] = request[g]
            /\ request'[h] = r
            /\ Waiters /\ SameKey /\ Singles
        BY <2>2, RequestsAssumption
        DEF GatewayInv, WorkTypeOK, AnswerInv, Sharing, NoCall, Handlers
      <3>1. Waiters'
        BY <2>2, <3>0 DEF Waiters
      <3>2. SameKey'
        BY <2>2, <3>0 DEF SameKey
      <3>3. Singles'
        BY <2>1, <2>2, <3>0 DEF Singles
      <3> QED BY <3>1, <3>2, <3>3 DEF Sharing
    <2>4. OwnResults'
      BY <2>2 DEF GatewayInv, WorkTypeOK, AnswerInv, OwnResults
    <2>5. SharedResults'
      BY <2>2 DEF GatewayInv, WorkTypeOK, AnswerInv, SharedResults
    <2> QED BY <2>3, <2>4, <2>5 DEF AnswerInv
  <1>3. ASSUME NEW h \in Handlers, Leave(h) PROVE AnswerInv'
    BY <1>3 DEF Leave, workVars, AnswerInv, Sharing, Waiters, SameKey, Singles, OwnResults,
       SharedResults
  <1> QED BY <1>1, <1>2, <1>3, HandleAnswers, WorkAnswers DEF Next, Step, Metrics, vars

\* A response knows the call it answers, and a result has its id.
LEMMA ResponsesOfCall ==
  ASSUME NEW r, NEW i, NEW x \in Responses(r, i)
  PROVE  x.call = i /\ (x.ok => x.id = r.calls[i].id)
  <1>1. CASE x = [id |-> r.calls[i].id, ok |-> TRUE, call |-> i]
    BY <1>1
  <1>2. CASE \E id : x = [id |-> id, ok |-> FALSE, call |-> i]
    BY <1>2
  <1> QED BY <1>1, <1>2 DEF Responses

\* An answer has one response for every call, in some order.
LEMMA AnswersAreOrdered ==
  ASSUME NEW r, NEW answer \in Answers(r)
  PROVE  /\ DOMAIN answer = DOMAIN r.calls
         /\ \E order \in Orders(Len(r.calls)) : \A k \in DOMAIN r.calls : answer[k].call = order[k]
  <1>1. PICK order \in Orders(Len(r.calls)) :
          /\ DOMAIN answer = DOMAIN r.calls
          /\ \A k \in DOMAIN r.calls : answer[k] \in Responses(r, order[k])
    BY DEF Answers
  <1>2. \A k \in DOMAIN r.calls : answer[k].call = order[k]
    BY <1>1, ResponsesOfCall
  <1> QED BY <1>1, <1>2

LEMMA OrdersAreOnto ==
  ASSUME NEW n \in Nat, NEW order \in Orders(n)
  PROVE  \A i \in 1..n : \E k \in 1..n : order[k] = i
  <1>1. IsFiniteSet(1..n)
    BY FS_Interval
  <1>2. order \in Injection(1..n, 1..n)
    BY DEF Orders, Injection, IsInjective
  <1>3. order \in Surjection(1..n, 1..n)
    BY <1>1, <1>2, FS_Injection
  <1> QED BY <1>3 DEF Surjection

LEMMA AnswersOwn == GatewayInv /\ AnswerInv => OwnAnswer
  <1> SUFFICES ASSUME GatewayInv, AnswerInv, NEW h \in Handlers
      PROVE  /\ SharedIsReady(h) /\ received[h].kind = "answered" =>
                  LET response == Stamped(h, received[h])[1]
                  IN  /\ Asks(response.call) = Asks(request[h].calls[1])
                      /\ response.id = request[h].calls[1].id
             /\ OwnIsReady(h) /\ result[h].kind = "answered" =>
                  {response.call : response \in Range(Given(result[h]))} = Range(request[h].calls)
    BY DEF OwnAnswer
  <1>1. ASSUME SharedIsReady(h), received[h].kind = "answered"
        PROVE  LET response == Stamped(h, received[h])[1]
               IN  /\ Asks(response.call) = Asks(request[h].calls[1])
                   /\ response.id = request[h].calls[1].id
    <2> DEFINE answer == received[h].answer
    <2>1. PICK r : /\ Single(r) /\ Key(r) = Key(request[h])
                   /\ received[h].request = r /\ answer \in Answers(r)
      BY <1>1 DEF SharedIsReady, AnswerInv, SharedResults, IsAnswerTo
    <2>2. DOMAIN r.calls = 1..1
      BY <2>1, RequestsAssumption DEF Single
    <2>3. DOMAIN answer = 1..1 /\ answer[1].call = 1
      BY <2>1, <2>2, AnswersAreOrdered DEF Single, Orders
    <2>4. Given(received[h])[1] = [id |-> answer[1].id, call |-> r.calls[1]]
      BY <2>1, <2>3 DEF Given
    <2>5. Stamped(h, received[h])[1] = [id |-> request[h].calls[1].id, call |-> r.calls[1]]
      BY <2>4 DEF Stamped
    <2> QED BY <2>1, <2>5 DEF Asks, Key
  <1>2. ASSUME OwnIsReady(h), result[h].kind = "answered"
        PROVE  {response.call : response \in Range(Given(result[h]))} = Range(request[h].calls)
    <2> DEFINE answer == result[h].answer
               calls == request[h].calls
    <2>1. result[h].request = request[h] /\ answer \in Answers(request[h])
      BY <1>2 DEF OwnIsReady, AnswerInv, OwnResults, IsAnswerTo
    <2>2. Len(calls) \in Nat /\ DOMAIN calls = 1..Len(calls)
      BY RequestsAssumption DEF GatewayInv, WorkTypeOK, NoRequest, Undecoded
    <2>3. PICK order \in Orders(Len(calls)) :
            DOMAIN answer = DOMAIN calls /\ \A k \in DOMAIN calls : answer[k].call = order[k]
      BY <2>1, AnswersAreOrdered
    <2>4. {response.call : response \in Range(Given(result[h]))}
            = {calls[order[k]] : k \in DOMAIN calls}
      <3>1. \A k \in DOMAIN calls : Given(result[h])[k].call = calls[order[k]]
        BY <2>1, <2>3 DEF Given
      <3>2. DOMAIN Given(result[h]) = DOMAIN calls
        BY <2>3 DEF Given
      <3> QED BY <3>1, <3>2 DEF Range
    <2>5. {calls[order[k]] : k \in DOMAIN calls} = Range(calls)
      <3>1. \A k \in DOMAIN calls : order[k] \in DOMAIN calls
        BY <2>2, <2>3 DEF Orders
      <3>2. \A i \in DOMAIN calls : \E k \in DOMAIN calls : order[k] = i
        <4>1. \A i \in 1..Len(calls) : \E k \in 1..Len(calls) : order[k] = i
          BY <2>2, OrdersAreOnto
        <4> QED BY <2>2, <4>1
      <3> QED BY <3>1, <3>2 DEF Range
    <2> QED BY <2>4, <2>5
  <1> QED BY <1>1, <1>2

\* Gateway.OwnAnswer: each client is sent the answer to what it asked, under its own id.
THEOREM AnswersTheirOwn == Spec => []OwnAnswer
  <1>1. Init => AnswerInv
    BY RequestsAssumption DEF Init, AnswerInv, Sharing, Waiters, SameKey, Singles, OwnResults, SharedResults, Handlers, NoCall
  <1> QED BY <1>1, AnswerStep, AnswersOwn, GatewayInvariant, PTL DEF Spec

-----------------------------------------------------------------------------
(***************************************************************************)
(* No wakeup is lost.  A call of the group runs until Deliver, which takes *)
(* it out of the group and sends its result to all who wait on it.         *)
(***************************************************************************)
WakeInv == NobodyIsForgotten /\ \A l \in group : Runs(l) /\ pc[l] \in {"waiting", "done"}

LEMMA HandleWakes ==
  ASSUME GatewayInv, WakeInv, NEW h \in Handlers, Handle(h)
  PROVE  WakeInv'
  <1>1. CASE Done(h)
    BY <1>1 DEF Done, GatewayInv, WorkTypeOK, WakeInv, NobodyIsForgotten, Runs
  <1>2. CASE Forward(h)
    BY <1>2 DEF Forward, Admitted, Accepts, GatewayInv, WorkTypeOK, Unstarted, WakeInv,
       NobodyIsForgotten, Runs
  <1>3. CASE Coalesce(h)
    <2>1. /\ pc[h] = "arrived" /\ pc' = [pc EXCEPT ![h] = "waiting"] /\ received' = received
          /\ h \notin group
      BY <1>3 DEF Coalesce, Admitted, Accepts, GatewayInv, Unstarted
    <2>2. CASE UNCHANGED <<group, work>> /\ \E l \in group : waitsOn' = [waitsOn EXCEPT ![h] = l]
      BY <2>1, <2>2 DEF GatewayInv, WorkTypeOK, WakeInv, NobodyIsForgotten, Runs
    <2>3. CASE /\ waitsOn' = [waitsOn EXCEPT ![h] = h]
               /\ group' = group \union {h}
               /\ work' = [work EXCEPT ![h] = "forwarding"]
      BY <2>1, <2>3 DEF GatewayInv, WorkTypeOK, WakeInv, NobodyIsForgotten, Runs
    <2> QED BY <1>3, <2>2, <2>3 DEF Coalesce, UnderWay
  <1> QED BY <1>1, <1>2, <1>3 DEF Handle, Refuse, Abort, Reject, GiveUp, TakeShared, WriteOwn

LEMMA WorkWakes ==
  ASSUME GatewayInv, WakeInv, NEW p \in Handlers, Work(p)
  PROVE  WakeInv'
  <1>1. CASE Deliver(p)
    <2>1. /\ p \in group /\ result[p] # NoOutcome
          /\ received' = [h \in Handlers |-> IF h \in WaitingOn(p) THEN result[p] ELSE received[h]]
          /\ work' = [work EXCEPT ![p] = "ended"]
          /\ group' = group \ {p}
          /\ UNCHANGED <<pc, waitsOn>>
      BY <1>1, OutcomeKind DEF Deliver, SendResult, Forget, GatewayInv, Outcomes
    <2>2. \A h \in Handlers : pc[h] = "forwarding" => h # p
      BY <1>1 DEF Deliver, SendResult, WakeInv
    <2> QED BY <2>1, <2>2 DEF WaitingOn, GatewayInv, WorkTypeOK, WakeInv, NobodyIsForgotten, Runs
  <1>2. CASE ~Deliver(p)
    <2>1. /\ UNCHANGED <<pc, received, waitsOn, group>>
          /\ \E stage \in {"forwarding", "recording", "returned"} :
                work' = [work EXCEPT ![p] = stage]
      BY <1>2 DEF Work, Exchange, TryNextProvider, Settle, Abandon, Panic, Exhaust, Return,
         handlerVars
    <2> QED BY <2>1 DEF GatewayInv, WorkTypeOK, WakeInv, NobodyIsForgotten, Runs
  <1> QED BY <1>1, <1>2

\* Gateway.NobodyIsForgotten: who waits has its result, or a call that still runs for it.
THEOREM NoLostWakeup == Spec => []NobodyIsForgotten
  <1>1. Init => WakeInv
    BY DEF Init, WakeInv, NobodyIsForgotten
  <1>2. ASSUME GatewayInv, WakeInv, [Next]_vars PROVE WakeInv'
    <2>1. CASE UNCHANGED <<handlerVars, workVars, group>>
      BY <1>2, <2>1 DEF WakeInv, NobodyIsForgotten, Runs, handlerVars, workVars
    <2>2. ASSUME NEW h \in Handlers, (\E r \in Asked[h] : Arrive(h, r)) \/ Leave(h)
          PROVE  WakeInv'
      BY <1>2, <2>2 DEF Arrive, Leave, workVars, GatewayInv, WorkTypeOK, WakeInv,
         NobodyIsForgotten, Runs
    <2> QED BY <1>2, <2>1, <2>2, HandleWakes, WorkWakes DEF Next, Step, Metrics, vars
  <1> QED BY <1>1, <1>2, GatewayInvariant, PTL DEF Spec, WakeInv

-----------------------------------------------------------------------------
(***************************************************************************)
(* What is admitted.  A result echoes the id of its call: unless calls     *)
(* lack an id or share one, the code finds the call it answers.            *)
(***************************************************************************)
LEMMA SequenceShape ==
  ASSUME NEW S
  PROVE  /\ \A s \in Seq(S) : /\ Len(s) \in Nat /\ DOMAIN s = 1..Len(s)
                              /\ \A i \in DOMAIN s : s[i] \in S
         /\ \A n \in Nat : \A f \in [1..n -> S] : f \in Seq(S)
  OBVIOUS

LEMMA RequestShape ==
  ASSUME NEW r \in Requests \union {NoRequest}
  PROVE  /\ r.batch \in BOOLEAN /\ Len(r.calls) \in Nat /\ DOMAIN r.calls = 1..Len(r.calls)
         /\ \A i \in DOMAIN r.calls : r.calls[i].method \in STRING
  <1>1. CASE r = NoRequest
    BY <1>1 DEF NoRequest, Undecoded
  <1>2. CASE r \in Requests
    <2>1. r.batch \in BOOLEAN /\ r.calls \in Seq([method : STRING, params : Int, id : Int])
      BY <1>2, RequestsAssumption
    <2>2. \A i \in DOMAIN r.calls : r.calls[i] \in [method : STRING, params : Int, id : Int]
      BY <2>1, SequenceShape
    <2>3. \A i \in DOMAIN r.calls : r.calls[i].method \in STRING
      BY <2>2
    <2> QED BY <2>1, <2>3
  <1> QED BY <1>1, <1>2

\* The ids an answer carries, which is what the code attributes it by.
IdsOf(answer) == [k \in DOMAIN answer |-> answer[k].id]

LEMMA AttributesByCall ==
  ASSUME NEW r \in Requests \union {NoRequest}, ~Untraceable(r.calls),
         NEW answer \in Answers(r), NEW k \in DOMAIN answer, answer[k].ok
  PROVE  /\ answer[k].call \in DOMAIN r.calls
         /\ ResponseMethods(r.calls, IdsOf(answer))[k] = r.calls[answer[k].call].method
  <1> DEFINE calls == r.calls
             ids == IdsOf(answer)
  <1>1. DOMAIN calls = 1..Len(calls) /\ Len(calls) \in Nat
    BY RequestShape
  <1>2. PICK order \in Orders(Len(calls)) :
          /\ DOMAIN answer = DOMAIN calls
          /\ \A i \in DOMAIN calls : answer[i] \in Responses(r, order[i])
    BY DEF Answers
  <1> DEFINE i == order[k]
  <1>3. i \in DOMAIN calls /\ answer[k].call = i /\ ids[k] = calls[i].id
    BY <1>1, <1>2, ResponsesOfCall DEF Orders, IdsOf
  <1>4. ResponseMethods(calls, ids)[k] =
          IF ids[k] # NoId /\ \E j \in DOMAIN calls : Carriers(calls, ids[k]) = {j}
          THEN calls[CHOOSE j \in DOMAIN calls : Carriers(calls, ids[k]) = {j}].method
          ELSE calls[k].method
    BY DEF ResponseMethods, IdsOf
  <1>5. CASE Len(calls) > 1
    <2>1. Carriers(calls, ids[k]) = {i} /\ ids[k] # NoId
      BY <1>3, <1>5 DEF Untraceable
    <2>2. (CHOOSE j \in DOMAIN calls : Carriers(calls, ids[k]) = {j}) = i
      BY <1>3, <2>1
    <2> QED BY <1>3, <1>4, <2>1, <2>2
  <1>6. CASE ~(Len(calls) > 1)
    <2>1. \A j \in DOMAIN calls : j = k
      BY <1>1, <1>2, <1>6
    <2>2. (\E j \in DOMAIN calls : Carriers(calls, ids[k]) = {j}) =>
            (CHOOSE j \in DOMAIN calls : Carriers(calls, ids[k]) = {j}) \in DOMAIN calls
      OBVIOUS
    <2> QED BY <1>3, <1>4, <2>1, <2>2
  <1> QED BY <1>5, <1>6

AdmitInv == AdmitsAnsweredMethods /\ toAdmit \in [Handlers -> Seq(STRING)]

\* The names of a loop's answer that are left to admit never grow while it records them.
LEMMA RecordingKept ==
  ASSUME AdmitInv, toAdmit' \in [Handlers -> Seq(STRING)],
         \A p \in Handlers : work'[p] = "recording" =>
            /\ work[p] = "recording" /\ request'[p] = request[p] /\ result'[p] = result[p]
            /\ Range(toAdmit'[p]) \subseteq Range(toAdmit[p])
  PROVE  AdmitInv'
  <1>1. ASSUME NEW p \in Handlers, work'[p] = "recording", ~Untraceable(request'[p].calls)
        PROVE  Range(toAdmit'[p]) \subseteq {call.method : call \in AnsweredCalls(p)}'
    <2>1. /\ work[p] = "recording" /\ ~Untraceable(request[p].calls)
          /\ Range(toAdmit'[p]) \subseteq Range(toAdmit[p])
          /\ request'[p] = request[p] /\ result'[p] = result[p]
      BY <1>1 DEF Untraceable
    <2>2. {call.method : call \in AnsweredCalls(p)}' = {call.method : call \in AnsweredCalls(p)}
      BY <2>1 DEF AnsweredCalls
    <2>3. Range(toAdmit[p]) \subseteq {call.method : call \in AnsweredCalls(p)}
      BY <2>1 DEF AdmitInv, AdmitsAnsweredMethods
    <2> QED BY <2>1, <2>2, <2>3
  <1>2. AdmitsAnsweredMethods'
    BY <1>1 DEF AdmitsAnsweredMethods, Untraceable
  <1> QED BY <1>2 DEF AdmitInv

LEMMA ExchangeAdmits ==
  ASSUME GatewayInv, AdmitInv, NEW p \in Handlers, NEW answer \in MayAnswer[request[p]],
         Exchange(p, answer)
  PROVE  AdmitInv'
  <1> DEFINE r == request[p]
             ok == {k \in DOMAIN answer : answer[k].ok}
             methods == ResponseMethods(r.calls, IdsOf(answer))
  <1>1. r \in Requests \union {NoRequest} /\ answer \in Answers(r)
    BY DEF GatewayInv, WorkTypeOK, MayAnswer
  <1>2. PICK good \in InOrder(ok) :
          toAdmit' = [toAdmit EXCEPT ![p] = [k \in DOMAIN good |-> methods[good[k]]]]
    BY DEF Exchange, IdsOf
  <1>3. /\ UNCHANGED request
        /\ work' = [work EXCEPT ![p] = "recording"]
        /\ result' = [result EXCEPT ![p] = Outcome("answered", r, answer)]
    BY DEF Exchange, handlerVars
  <1>4. good \in [1..Cardinality(ok) -> ok] /\ Cardinality(ok) \in Nat
    <2>1. good \in [1..Cardinality(ok) -> ok]
      BY DEF InOrder
    <2>2. DOMAIN answer = 1..Len(r.calls) /\ Len(r.calls) \in Nat
      BY <1>1, RequestShape DEF Answers
    <2>3. IsFiniteSet(DOMAIN answer) /\ ok \in SUBSET DOMAIN answer
      BY <2>2, FS_Interval
    <2>4. IsFiniteSet(ok)
      BY <2>3, FS_Subset
    <2> QED BY <2>1, <2>4, FS_CardinalityType
  <1>5. ASSUME NEW k \in ok PROVE methods[k] \in STRING
    <2>1. DOMAIN answer = DOMAIN r.calls
      BY <1>1 DEF Answers
    <2>2. \A i \in DOMAIN r.calls : r.calls[i].method \in STRING
      BY <1>1, RequestShape
    <2>3. \E i \in DOMAIN r.calls : methods[k] = r.calls[i].method
      <3> DEFINE sole == {i \in DOMAIN r.calls : Carriers(r.calls, answer[k].id) = {i}}
      <3>1. methods[k] = IF answer[k].id # NoId /\ sole # {}
                         THEN r.calls[CHOOSE i \in DOMAIN r.calls :
                                        Carriers(r.calls, answer[k].id) = {i}].method
                         ELSE r.calls[k].method
        BY DEF ResponseMethods, IdsOf
      <3>2. sole # {} => (CHOOSE i \in DOMAIN r.calls :
                            Carriers(r.calls, answer[k].id) = {i}) \in DOMAIN r.calls
        OBVIOUS
      <3> QED BY <2>1, <3>1, <3>2
    <2> QED BY <2>2, <2>3
  <1>6. [k \in DOMAIN good |-> methods[good[k]]] \in Seq(STRING)
    <2> DEFINE named == [k \in DOMAIN good |-> methods[good[k]]]
    <2>1. DOMAIN good = 1..Cardinality(ok) /\ \A k \in DOMAIN good : good[k] \in ok
      BY <1>4
    <2>2. named \in [1..Cardinality(ok) -> STRING]
      BY <1>5, <2>1
    <2> HIDE DEF named
    <2>3. named \in Seq(STRING)
      BY <1>4, <2>2, SequenceShape
    <2> QED BY <2>3 DEF named
  <1>7. toAdmit' \in [Handlers -> Seq(STRING)]
    BY <1>2, <1>6 DEF AdmitInv
  <1>8. ASSUME ~Untraceable(r.calls)
        PROVE  Range(toAdmit'[p]) \subseteq {call.method : call \in AnsweredCalls(p)'}
    <2>1. AnsweredCalls(p)' = {r.calls[response.call] : response \in {x \in Range(answer) : x.ok}}
      <3>1. request'[p] = r /\ result'[p].answer = answer
        BY <1>3 DEF GatewayInv, WorkTypeOK, Outcome
      <3> QED BY <3>1 DEF AnsweredCalls
    <2>2. \A k \in ok : methods[k] = r.calls[answer[k].call].method /\ answer[k] \in Range(answer)
      BY <1>1, <1>8, AttributesByCall DEF Range
    <2>3. \A k \in ok : methods[k] \in {call.method : call \in AnsweredCalls(p)'}
      BY <2>1, <2>2
    <2>4. Range(toAdmit'[p]) = {methods[good[k]] : k \in DOMAIN good}
      BY <1>2, <1>4 DEF AdmitInv, Range
    <2> QED BY <1>4, <2>3, <2>4
  <1>9. ASSUME NEW q \in Handlers, q # p
        PROVE  /\ work'[q] = work[q] /\ toAdmit'[q] = toAdmit[q] /\ request'[q] = request[q]
               /\ AnsweredCalls(q)' = AnsweredCalls(q)
    BY <1>2, <1>3, <1>9 DEF GatewayInv, WorkTypeOK, AdmitInv, AnsweredCalls
  <1>10. ASSUME NEW q \in Handlers, work'[q] = "recording", ~Untraceable(request'[q].calls)
         PROVE  Range(toAdmit'[q]) \subseteq {call.method : call \in AnsweredCalls(q)'}
    <2>1. CASE q = p
      BY <1>3, <1>8, <1>10, <2>1 DEF Untraceable
    <2>2. CASE q # p
      <3>1. Range(toAdmit[q]) \subseteq {call.method : call \in AnsweredCalls(q)}
        BY <1>9, <1>10, <2>2 DEF AdmitInv, AdmitsAnsweredMethods, Untraceable
      <3> QED BY <1>9, <2>2, <3>1
    <2> QED BY <2>1, <2>2
  <1>11. AdmitsAnsweredMethods'
    BY <1>10 DEF AdmitsAnsweredMethods, Untraceable
  <1> QED BY <1>7, <1>11 DEF AdmitInv

\* A name that is admitted, or given up, is the first of those that were left.
LEMMA TailShrinks ==
  ASSUME NEW S, NEW s \in Seq(S), s # <<>>
  PROVE  Tail(s) \in Seq(S) /\ Range(Tail(s)) \subseteq Range(s)
  BY DEF Range

LEMMA MetricsAdmits ==
  ASSUME GatewayInv, AdmitInv, NEW h \in Handlers, Metrics(h)
  PROVE  AdmitInv'
  <1>1. /\ UNCHANGED <<work, request, result>>
        /\ \/ toAdmit' = toAdmit
           \/ toAdmit[h] # <<>> /\ toAdmit' = [toAdmit EXCEPT ![h] = Tail(@)]
    BY DEF Metrics, AdmitStep, LookUp, Count, Store, Uncount, AtStage, GoTo, Admit, handlerVars,
       workVars
  <1>2. toAdmit[h] # <<>> => /\ Tail(toAdmit[h]) \in Seq(STRING)
                             /\ Range(Tail(toAdmit[h])) \subseteq Range(toAdmit[h])
    BY TailShrinks DEF AdmitInv
  <1>3. /\ toAdmit' \in [Handlers -> Seq(STRING)]
        /\ \A p \in Handlers : Range(toAdmit'[p]) \subseteq Range(toAdmit[p])
    BY <1>1, <1>2 DEF AdmitInv
  <1> QED BY <1>1, <1>3, RecordingKept

LEMMA AdmitStepKept ==
  ASSUME GatewayInv, AdmitInv, [Next]_vars
  PROVE  AdmitInv'
  <1>1. ASSUME UNCHANGED toAdmit,
               \A p \in Handlers : work'[p] = "recording" =>
                  work[p] = "recording" /\ request'[p] = request[p] /\ result'[p] = result[p]
        PROVE  AdmitInv'
    <2>1. toAdmit' \in [Handlers -> Seq(STRING)]
      BY <1>1 DEF AdmitInv
    <2>2. \A p \in Handlers : Range(toAdmit'[p]) \subseteq Range(toAdmit[p])
      BY <1>1
    <2> QED BY <1>1, <2>1, <2>2, RecordingKept
  <1>2. ASSUME NEW h \in Handlers, Handle(h) PROVE AdmitInv'
    <2>1. h \notin group => work[h] # "recording" \/ pc[h] = "forwarding"
      BY DEF GatewayInv, WorkTypeOK, Unstarted, Awaited
    <2>2. CASE Done(h) /\ (h \in group \/ work[h] # "recording")
      BY <1>1, <2>2 DEF Done, labelVars, GatewayInv, WorkTypeOK
    <2>3. CASE Coalesce(h) \/ Forward(h)
      BY <1>1, <2>3 DEF Coalesce, Forward, labelVars, GatewayInv, WorkTypeOK
    <2> QED BY <1>2, <2>1, <2>2, <2>3
        DEF Handle, Refuse, Abort, Reject, Accepts, GiveUp, TakeShared, WriteOwn, SharedIsReady,
            OwnIsReady
  <1>3. ASSUME NEW p \in Handlers, Work(p) PROVE AdmitInv'
    <2>1. CASE \E answer \in MayAnswer[request[p]] : Exchange(p, answer)
      BY <2>1, ExchangeAdmits
    <2>2. CASE Deliver(p)
      BY <1>1, <2>2 DEF Deliver, SendResult, Forget, labelVars, GatewayInv, WorkTypeOK
    <2>3. CASE TryNextProvider(p)
      BY <1>1, <2>3 DEF TryNextProvider, labelVars, handlerVars, GatewayInv, WorkTypeOK
    <2>4. ASSUME NEW outcome, Return(p, outcome) PROVE AdmitInv'
      BY <1>1, <2>4 DEF Return, labelVars, handlerVars, GatewayInv, WorkTypeOK
    <2> QED BY <1>3, <2>1, <2>2, <2>3, <2>4 DEF Work, Settle, Abandon, Panic, Exhaust
  <1>4. ASSUME NEW h \in Handlers, (\E r \in Asked[h] : Arrive(h, r)) \/ Leave(h) PROVE AdmitInv'
    BY <1>1, <1>4 DEF Arrive, Leave, labelVars, workVars, GatewayInv, WorkTypeOK, Unstarted
  <1>5. CASE UNCHANGED vars
    BY <1>1, <1>5 DEF vars, handlerVars, workVars, labelVars
  <1> QED BY <1>2, <1>3, <1>4, <1>5, MetricsAdmits DEF Next, Step

\* Gateway.AdmitsAnsweredMethods: a label is a method that a provider answered.
THEOREM LabelsAreAnswered == Spec => []AdmitsAnsweredMethods
  <1>1. Init => AdmitInv
    <2>1. <<>> \in Seq(STRING)
      OBVIOUS
    <2> QED BY <2>1, HandlersFinite DEF Init, InitLabels, AdmitInv, AdmitsAnsweredMethods
  <1> QED BY <1>1, AdmitStepKept, GatewayInvariant, PTL DEF Spec, AdmitInv
=============================================================================
