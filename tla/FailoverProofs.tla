--------------------------- MODULE FailoverProofs ---------------------------
(***************************************************************************)
(* Theorems about Failover, for any number of requests and providers and   *)
(* any replies: its type invariant first, then its safety properties from  *)
(* one inductive invariant, and last that it implements Walk and ends.     *)
(***************************************************************************)
EXTENDS Failover, ProviderProofs, SequenceTheorems

-----------------------------------------------------------------------------
\* A request always asks for something.
LEMMA BatchNonEmpty ==
  \A b \in Batches :
    /\ b \in Seq([method : Methods, id : Int]) /\ Len(b) \in Nat \ {0} /\ DOMAIN b = 1..Len(b)
    /\ \A i \in DOMAIN b : b[i].method \in Methods
    /\ MethodsOf(b) \subseteq Methods
  <1>1. ASSUME NEW b \in Batches
        PROVE  /\ b \in Seq([method : Methods, id : Int]) /\ Len(b) \in Nat \ {0}
               /\ DOMAIN b = 1..Len(b)
    BY RequestAssumption, EmptySeq, LenProperties
  <1>2. ASSUME NEW b \in Batches, NEW i \in DOMAIN b PROVE b[i].method \in Methods
    <2>1. b[i] \in [method : Methods, id : Int]
      BY <1>1, ElementOfSeq
    <2> QED BY <2>1
  <1> QED BY <1>1, <1>2 DEF MethodsOf

\* The errors MarkUnhealthy is called with.
LEMMA ErrType ==
  /\ Failure \in [limited : BOOLEAN, retryAfter : Nat]
  /\ \A t \in Nat : Limited(t) \in [limited : BOOLEAN, retryAfter : Nat]
  BY DEF Failure, Limited

LEMMA NoAnswerType ==
  /\ NoAnswer \in Readings /\ Fail("failed") \in Readings
  BY DEF NoAnswer, Fail, Readings, Errors

\* SendRPCBatchRequest returns an answer whatever the provider replies.
LEMMA AnswerType == \A x \in Replies : SendRPCBatchRequest(x) \in Answers
  <1>1. \A body \in Bodies : body \in Seq(Results)
    BY UpstreamAssumption, IsASeq DEF Bodies
  <1>2. <<>> \in Seq(Results)
    OBVIOUS
  <1>3. \A err \in Errors : Fail(err) \in Answers
    BY <1>2 DEF Fail, Answers
  <1>4. \A body \in Seq(Results) : Decoded(body) \in Answers
    BY DEF Decoded, Answers, Errors
  <1>5. ASSUME NEW x \in Replies PROVE SendRPCBatchRequest(x) \in Answers
    <2>1. x.results \in Seq(Results) /\ x.retryAfter \in RetryAfters \union {0}
      BY <1>1, <1>2 DEF Replies, ReplySet
    <2>2. LimitedFor(x.retryAfter) \in Answers
      BY <2>1, <1>2 DEF LimitedFor, Answers, Errors
    <2>3. StatusError(x.status) \in Answers
      BY <1>3 DEF StatusError, Errors
    <2> QED BY <2>1, <2>2, <2>3, <1>3, <1>4 DEF SendRPCBatchRequest, Errors
  <1> QED BY <1>5

LEMMA RetryAfterType == \A a \in Readings : a.retryAfter \in Nat
  <1>1. RetryAfters \union {0} \subseteq Nat
    BY UpstreamAssumption
  <1> QED BY <1>1 DEF Readings

-----------------------------------------------------------------------------
(***************************************************************************)
(* Attribution.  A response that says which call it answers is put down to *)
(* the method of that call: by its id, or by its place when its id is no   *)
(* call's or several calls'.                                               *)
(***************************************************************************)
LEMMA LegibleIsRight ==
  ASSUME NEW b \in Batches, NEW order \in Orders(Len(b)), NEW ids \in [DOMAIN b -> Int],
         NEW k \in DOMAIN b, Legible(b, order, ids, k)
  PROVE  ResponseMethods(b, ids)[k] = b[order[k]].method
  <1>1. DOMAIN b = 1..Len(b) /\ order[k] \in DOMAIN b
    BY BatchNonEmpty DEF Orders
  <1>2. ResponseMethods(b, ids)[k] =
          IF ids[k] # NoId /\ \E i \in DOMAIN b : Carriers(b, ids[k]) = {i}
          THEN b[CHOOSE i \in DOMAIN b : Carriers(b, ids[k]) = {i}].method
          ELSE b[k].method
    BY DEF ResponseMethods
  <1>3. ASSUME NEW j \in DOMAIN b, Carriers(b, ids[k]) = {j}
        PROVE  (CHOOSE i \in DOMAIN b : Carriers(b, ids[k]) = {i}) = j
    BY <1>3
  <1>4. CASE ids[k] # NoId /\ Carriers(b, ids[k]) = {order[k]}
    BY <1>1, <1>2, <1>3, <1>4
  <1>5. CASE order[k] = k /\ Carriers(b, ids[k]) = {}
    BY <1>2, <1>5
  <1>6. CASE order[k] = k /\ k \in Carriers(b, ids[k])
    <2>1. ASSUME NEW j \in DOMAIN b, Carriers(b, ids[k]) = {j} PROVE j = k
      BY <1>6, <2>1
    <2> QED BY <1>2, <1>3, <1>6, <2>1
  <1> QED BY <1>4, <1>5, <1>6 DEF Legible

\* Whatever the ids are, a response is put down to a method that was asked for.
LEMMA AttributedToAsked ==
  ASSUME NEW b \in Batches, NEW ids \in [DOMAIN b -> Int], NEW k \in DOMAIN b
  PROVE  ResponseMethods(b, ids)[k] \in Methods
  BY BatchNonEmpty DEF ResponseMethods

(***************************************************************************)
(* What the loop may hold of p's answer to b: a rejection is an error, and *)
(* names a method p lacks if p tells its rejections apart; a 501 is true.  *)
(***************************************************************************)
Honest(p, b, a) ==
    /\ p \in Clear => \A i \in DOMAIN a.results : a.results[i].rejects \subseteq Lacks[p]
    /\ \A i \in DOMAIN a.results : Verdict(a, i) = "nil" => a.results[i].rejects = {}
    /\ a.err = "methodNotSupported" => ~Has(p, b)

LEMMA NothingToReject ==
  ASSUME NEW p, NEW b, NEW a, a.results = <<>>, a.err = "methodNotSupported" => ~Has(p, b)
  PROVE  Honest(p, b, a)
  BY DEF Honest

\* An answer read under some ids and in some order.
LEMMA ReadIsHonest ==
  ASSUME NEW p \in Providers, NEW b \in Batches, NEW a \in Answers,
         a.err = "none", Len(a.results) = Len(b),
         NEW order \in Orders(Len(b)), NEW ids \in [DOMAIN b -> Int],
         MayGive(p, b, a.results, order, ids)
  PROVE  Read(a, b, ids) \in Readings /\ Honest(p, b, Read(a, b, ids))
  <1> DEFINE result(k) ==
               [code |-> a.results[k],
                rejects |-> IF Rejects(a.results[k]) THEN {ResponseMethods(b, ids)[k]} ELSE {}]
             x == [err |-> "none", retryAfter |-> a.retryAfter,
                   results |-> [k \in DOMAIN b |-> result(k)]]
  <1>1. a.results \in Seq(Results) /\ a.retryAfter \in RetryAfters \union {0}
    BY DEF Answers
  <1>2. DOMAIN b = 1..Len(b) /\ Len(b) \in Nat
    BY BatchNonEmpty
  <1>3. Read(a, b, ids) = x
    <2>1. \A given : [a EXCEPT !.results = given] =
                       [err |-> "none", retryAfter |-> a.retryAfter, results |-> given]
      BY DEF Answers
    <2> DEFINE given == [k \in DOMAIN b |-> result(k)]
    <2>2. Read(a, b, ids) = [a EXCEPT !.results = given]
      BY DEF Read
    <2> HIDE DEF given
    <2>3. [a EXCEPT !.results = given] =
            [err |-> "none", retryAfter |-> a.retryAfter, results |-> given]
      BY <2>1
    <2> QED BY <2>2, <2>3 DEF given
  <1>4. ASSUME NEW k \in DOMAIN b
        PROVE  result(k) \in [code : Results, rejects : SUBSET Methods]
    <2>1. a.results[k] \in Results
      BY <1>1, <1>2, ElementOfSeq
    <2>2. ResponseMethods(b, ids)[k] \in Methods
      BY AttributedToAsked
    <2> QED BY <2>1, <2>2
  <1>5. ASSUME NEW k \in DOMAIN b, p \in Clear PROVE result(k).rejects \subseteq Lacks[p]
    <2>1. ASSUME Rejects(a.results[k]) PROVE ResponseMethods(b, ids)[k] \in Lacks[p]
      <3>1. b[order[k]].method \in Lacks[p] /\ Legible(b, order, ids, k)
        BY <1>5, <2>1 DEF MayGive
      <3>2. ResponseMethods(b, ids)[k] = b[order[k]].method
        BY <3>1, LegibleIsRight
      <3> QED BY <3>1, <3>2
    <2> QED BY <2>1
  <1>6. ASSUME NEW k \in DOMAIN b, Disposition(Kind, result(k).code) = "nil"
        PROVE  result(k).rejects = {}
    BY <1>6 DEF Rejects
  <1> HIDE DEF result
  <1>7. x \in Readings
    <2>1. x.results \in Seq([code : Results, rejects : SUBSET Methods])
      BY <1>2, <1>4, IsASeq
    <2> QED BY <1>1, <2>1 DEF Readings, Errors
  <1>8. Honest(p, b, x)
    BY <1>5, <1>6 DEF Honest, Verdict
  <1> QED BY <1>3, <1>7, <1>8

\* So every answer a request may receive is one the loop can hold.
LEMMA ReceivedIsHonest ==
  ASSUME NEW p \in Providers, NEW b \in Batches, NEW a \in MayAnswer[p][b]
  PROVE  a \in Readings /\ Honest(p, b, a)
  <1>1. PICK x \in Replies : a \in ReadingsOf(p, b, SendRPCBatchRequest(x))
    BY DEF MayAnswer
  <1>2. a.err = "methodNotSupported" => ~Has(p, b)
    BY DEF MayAnswer
  <1> DEFINE got == SendRPCBatchRequest(x)
  <1>3. got \in Answers
    BY AnswerType
  <1> HIDE DEF got
  <1>4. CASE got.err = "none" /\ Len(got.results) = Len(b)
    <2>1. PICK ids \in [DOMAIN b -> IdsOf(b)], order \in Orders(Len(b)) :
            MayGive(p, b, got.results, order, ids) /\ a = Read(got, b, ids)
      BY <1>1, <1>4 DEF ReadingsOf, got
    <2>2. ids \in [DOMAIN b -> Int]
      <3>1. \A i \in DOMAIN b : b[i] \in [method : Methods, id : Int]
        BY BatchNonEmpty, ElementOfSeq
      <3>2. IdsOf(b) \subseteq Int
        BY <3>1 DEF IdsOf, NullId
      <3> QED BY <2>1, <3>2
    <2> QED BY <1>3, <1>4, <2>1, <2>2, ReadIsHonest
  <1>5. CASE ~(got.err = "none" /\ Len(got.results) = Len(b))
    <2>1. a = [got EXCEPT !.results = <<>>]
      BY <1>1, <1>5 DEF ReadingsOf, got
    <2>2. a = [err |-> got.err, retryAfter |-> got.retryAfter, results |-> <<>>]
      BY <1>3, <2>1 DEF Answers
    <2>3. a \in Readings
      BY <1>3, <2>2 DEF Answers, Readings
    <2> QED BY <1>2, <2>2, <2>3, NothingToReject
  <1> QED BY <1>4, <1>5

\* What a request receives from the provider it is at, or for having been cancelled.
LEMMA CanReceiveType ==
  ASSUME NEW r \in Requests, at[r] \in Providers, batch[r] \in Batches,
         NEW a \in CanReceive(r)
  PROVE  a \in Readings /\ Honest(at[r], batch[r], a)
  <1>1. Honest(at[r], batch[r], Fail("failed"))
    BY NothingToReject DEF Fail
  <1> QED BY <1>1, NoAnswerType, ReceivedIsHonest DEF CanReceive

-----------------------------------------------------------------------------
(***************************************************************************)
(* Types.  The loop's index stays in range because a request is at a       *)
(* provider whenever it is past the loop's head (Placed).                  *)
(***************************************************************************)
RequestTypeOK ==
    /\ pc \in [Requests -> Active \union {"idle", "done"}]
    /\ batch \in [Requests -> Batches \union {<<>>}]
    /\ at \in [Requests -> 1..(NProviders + 1)]
    /\ answer \in [Requests -> Readings]
    /\ cancelled \in [Requests -> BOOLEAN]
    /\ unsupportedAt \in [Requests -> SUBSET Providers]
    /\ tooLargeAt \in [Requests -> SUBSET Providers]
    /\ lastTryNext \in [Requests -> 0..NProviders]
    /\ response \in [Requests -> Responses]

AtProvider == {"capability", "sent", "answered", "marking"}

Placed ==
    \A r \in Requests :
        /\ pc[r] \in Active => batch[r] \in Batches
        /\ pc[r] \in AtProvider => at[r] \in Providers

TypeInv == HealthInv /\ FlagsTypeOK /\ RequestTypeOK /\ Placed

LEMMA ResponseType ==
  /\ NoResponse \in Responses
  /\ Respond(ClientGone, 0, {}) \in Responses /\ Respond(Aborted, 0, {}) \in Responses
  /\ \A p \in Providers : Respond(HTTPOK, p, {}) \in Responses
  /\ \A ms \in SUBSET Methods : Respond(NotImplemented, 0, ms) \in Responses
  /\ Respond(TooLarge, 0, {}) \in Responses
  /\ Respond(ServiceUnavailable, 0, {}) \in Responses
  <1>1. 0 \in 0..NProviders /\ Providers \subseteq 0..NProviders
    BY NProvidersAssumption DEF Providers
  <1> QED BY <1>1 DEF NoResponse, Respond, Responses

\* The three ways the loop moves on keep the request's own state well typed.
LEMMA GoToNextType ==
  ASSUME RequestTypeOK, Placed, NEW r \in Requests, GoToNext(r),
         at[r] \in Providers, batch[r] \in Batches,
         unsupportedAt' \in [Requests -> SUBSET Providers],
         tooLargeAt' \in [Requests -> SUBSET Providers],
         lastTryNext' \in [Requests -> 0..NProviders]
  PROVE  RequestTypeOK' /\ Placed'
  <1>1. at[r] + 1 \in 1..(NProviders + 1)
    BY NProvidersAssumption DEF Providers
  <1>2. RequestTypeOK'
    BY <1>1, NoAnswerType DEF GoToNext, RequestTypeOK, Active
  <1>3. Placed'
    BY DEF GoToNext, RequestTypeOK, Placed, Active, AtProvider
  <1> QED BY <1>2, <1>3

LEMMA GoToType ==
  ASSUME RequestTypeOK, Placed, NEW r \in Requests, NEW label \in Active, GoTo(r, label),
         at[r] \in Providers, batch[r] \in Batches,
         answer' \in [Requests -> Readings]
  PROVE  RequestTypeOK' /\ Placed'
  BY DEF GoTo, RequestTypeOK, Placed, Active, AtProvider

LEMMA FinishType ==
  ASSUME RequestTypeOK, Placed, NEW r \in Requests, NEW res \in Responses, Finish(r, res)
  PROVE  RequestTypeOK' /\ Placed'
  <1>1. 1 \in 1..(NProviders + 1) /\ 0 \in 0..NProviders
    BY NProvidersAssumption
  <1> QED BY <1>1, NoAnswerType DEF Finish, RequestTypeOK, Placed, Active, AtProvider

LEMMA TypeInit == Init => TypeInv
  <1> SUFFICES ASSUME Init PROVE TypeInv
    OBVIOUS
  <1>1. /\ 0 \in 0..AttemptCap /\ 1 \in 0..AttemptCap /\ 0 \in Ages
        /\ 0 \in 0..DefaultUnsupportedMethodTTL
        /\ 1 \in 1..(NProviders + 1) /\ 0 \in 0..NProviders
    BY CapAssumption, TTLAssumption, NProvidersAssumption DEF Ages, Never
  <1>2. HealthInv /\ FlagsTypeOK
    <2>1. PICK passed \in SUBSET Providers :
            /\ online = [p \in Providers |-> p \in passed]
            /\ attempt = [p \in Providers |-> IF p \in passed THEN 0 ELSE 1]
      BY DEF Init, AfterStartup
    <2>2. online \in [Providers -> BOOLEAN]
      BY <2>1
    <2>3. attempt \in [Providers -> 0..AttemptCap] /\ OnlineResetsAttempts
      BY <1>1, <2>1 DEF OnlineResetsAttempts
    <2>4. unsupportedFor \in [Providers -> [Methods -> 0..DefaultUnsupportedMethodTTL]]
      BY <1>1 DEF Init, AfterStartup
    <2> QED BY <1>1, <2>2, <2>3, <2>4 DEF Init, AfterStartup, HealthInv,
           HealthTypeOK, FlagsTypeOK
  <1>3. RequestTypeOK
    BY <1>1, NoAnswerType, ResponseType DEF Init, InitRequests, RequestTypeOK
  <1>4. Placed
    BY DEF Init, InitRequests, Placed, Active, AtProvider
  <1> QED BY <1>2, <1>3, <1>4 DEF TypeInv

\* A step that leaves the providers alone leaves what TypeInv says of them.
LEMMA FlagsUnchanged ==
  ASSUME FlagsTypeOK, UNCHANGED unsupportedFor PROVE FlagsTypeOK'
  BY DEF FlagsTypeOK

LEMMA HealthUnchanged ==
  ASSUME HealthInv, UNCHANGED health PROVE HealthInv'
  BY DEF HealthInv, HealthTypeOK, OnlineResetsAttempts, health

LEMMA ProvidersUnchanged ==
  ASSUME HealthInv, FlagsTypeOK, UNCHANGED providerVars
  PROVE  HealthInv' /\ FlagsTypeOK'
  BY DEF HealthInv, HealthTypeOK, FlagsTypeOK, OnlineResetsAttempts, providerVars

\* Flagging methods and losing the provider, in one scan.
LEMMA ScanMarks ==
  ASSUME HealthInv, FlagsTypeOK, NEW p \in Providers, NEW ms, NEW limited,
         MarkMethodUnsupported(p, ms),
         \/ UNCHANGED health
         \/ MarkUnhealthy(p, IF limited THEN Limited(0) ELSE Failure)
  PROVE  HealthInv' /\ FlagsTypeOK'
  <1>1. HealthInv'
    <2>1. CASE UNCHANGED health
      BY <2>1 DEF HealthInv, HealthTypeOK, OnlineResetsAttempts, health
    <2>2. CASE MarkUnhealthy(p, Limited(0))
      BY <2>2, ErrType, MarkUnhealthyInvariant
    <2>3. CASE MarkUnhealthy(p, Failure)
      BY <2>3, ErrType, MarkUnhealthyInvariant
    <2> QED BY <2>1, <2>2, <2>3
  <1>2. FlagsTypeOK'
    BY MarkMethodUnsupportedInvariant
  <1> QED BY <1>1, <1>2

\* One step of the goroutine that serves r.
LEMMA StepType ==
  ASSUME TypeInv, NEW r \in Requests, Step(r)
  PROVE  TypeInv'
  <1> USE DEF TypeInv
  <1>1. /\ pc[r] \in Active => batch[r] \in Batches
        /\ pc[r] \in AtProvider => at[r] \in Providers
    BY DEF Placed
  <1>2. /\ unsupportedAt[r] \in SUBSET Providers /\ tooLargeAt[r] \in SUBSET Providers
        /\ lastTryNext[r] \in 0..NProviders /\ answer[r] \in Readings
    BY DEF RequestTypeOK
  <1>3. CASE SkipOffline(r)
    <2>1. at[r] \in Providers /\ batch[r] \in Batches
      BY <1>1, <1>3 DEF SkipOffline, Active
    <2> QED BY <1>3, <2>1, GoToNextType, ProvidersUnchanged DEF SkipOffline, RequestTypeOK
  <1>4. CASE FoundOnline(r)
    <2>1. at[r] \in Providers /\ batch[r] \in Batches
      BY <1>1, <1>4 DEF FoundOnline, Active
    <2>2. "capability" \in Active
      BY DEF Active
    <2> QED BY <1>4, <2>1, <2>2, GoToType, ProvidersUnchanged DEF FoundOnline, RequestTypeOK
  <1>5. CASE SkipUnsupported(r)
    <2>1. at[r] \in Providers /\ batch[r] \in Batches
      BY <1>1, <1>5 DEF SkipUnsupported, Active, AtProvider
    <2> QED BY <1>2, <1>5, <2>1, GoToNextType, ProvidersUnchanged DEF SkipUnsupported, RequestTypeOK
  <1>6. CASE Send(r)
    <2>1. at[r] \in Providers /\ batch[r] \in Batches
      BY <1>1, <1>6 DEF Send, Active, AtProvider
    <2>2. "sent" \in Active
      BY DEF Active
    <2> QED BY <1>6, <2>1, <2>2, GoToType, ProvidersUnchanged DEF Send, RequestTypeOK
  <1>7. CASE Answer(r)
    <2>1. at[r] \in Providers /\ batch[r] \in Batches
      BY <1>1, <1>7 DEF Answer, Active, AtProvider
    <2>2. PICK a \in Readings :
            /\ answer' = [answer EXCEPT ![r] = a]
            /\ IF a.err = "rateLimited" THEN HandleTooManyRequests(at[r], a.retryAfter)
               ELSE UNCHANGED rateLimitedFor
      BY <1>7, <2>1, CanReceiveType DEF Answer
    <2>3. a.retryAfter \in Nat
      BY RetryAfterType
    <2>4. HealthInv' /\ FlagsTypeOK'
      <3>1. CASE HandleTooManyRequests(at[r], a.retryAfter)
        BY <1>7, <2>1, <2>3, <3>1, HandleTooManyRequestsInvariant, FlagsUnchanged DEF Answer
      <3>2. CASE UNCHANGED rateLimitedFor
        BY <1>7, <3>2, ProvidersUnchanged DEF Answer, providerVars
      <3> QED BY <2>2, <3>1, <3>2
    <2>5. answer' \in [Requests -> Readings]
      BY <2>2 DEF RequestTypeOK
    <2>6. "answered" \in Active
      BY DEF Active
    <2> QED BY <1>7, <2>1, <2>4, <2>5, <2>6, GoToType DEF Answer
  <1>8. CASE ReturnCancelled(r)
    BY <1>8, ResponseType, FinishType, ProvidersUnchanged DEF ReturnCancelled
  <1>8a. CASE Panic(r)
    BY <1>8a, ResponseType, FinishType, ProvidersUnchanged DEF Panic
  <1>9. ASSUME Looking(r) PROVE at[r] \in Providers /\ batch[r] \in Batches
    BY <1>1, <1>9 DEF Looking, Active, AtProvider
  <1>10. CASE FailOverUnsupported(r)
    BY <1>2, <1>9, <1>10, GoToNextType, HealthUnchanged, MarkMethodUnsupportedInvariant
       DEF FailOverUnsupported, RequestTypeOK
  <1>11. CASE FailOverTooLarge(r)
    BY <1>2, <1>9, <1>11, GoToNextType, ProvidersUnchanged DEF FailOverTooLarge, RequestTypeOK
  <1>12. CASE FailOverError(r)
    <2>1. CASE GoTo(r, "marking") /\ UNCHANGED answer
      <3>1. "marking" \in Active
        BY DEF Active
      <3> QED BY <1>9, <1>12, <2>1, <3>1, GoToType, ProvidersUnchanged
              DEF FailOverError, RequestTypeOK
    <2>2. CASE GoToNext(r) /\ UNCHANGED <<unsupportedAt, tooLargeAt, lastTryNext>>
      BY <1>9, <1>12, <2>2, GoToNextType, ProvidersUnchanged DEF FailOverError, RequestTypeOK
    <2> QED BY <1>12, <2>1, <2>2 DEF FailOverError
  <1>13. CASE MarkFailed(r)
    <2>1. at[r] \in Providers /\ batch[r] \in Batches
      BY <1>1, <1>13 DEF MarkFailed, Active, AtProvider
    <2>2. answer[r].retryAfter \in Nat
      BY <1>2, RetryAfterType
    <2>3. PICK err \in [limited : BOOLEAN, retryAfter : Nat] : MarkUnhealthy(at[r], err)
      BY <1>13, <2>2, ErrType DEF MarkFailed
    <2>4. HealthInv' /\ FlagsTypeOK'
      BY <1>13, <2>1, <2>3, MarkUnhealthyInvariant, FlagsUnchanged DEF MarkFailed
    <2> QED BY <1>13, <2>1, <2>4, GoToNextType DEF MarkFailed, RequestTypeOK
  <1>14. CASE FailOverMismatch(r)
    <2>1. HealthInv' /\ FlagsTypeOK'
      BY <1>9, <1>14, ErrType, MarkUnhealthyInvariant, FlagsUnchanged
         DEF FailOverMismatch
    <2> QED BY <1>9, <1>14, <2>1, GoToNextType DEF FailOverMismatch, RequestTypeOK
  <1>15. CASE ScanEndsEarly(r)
    <2>1. Looking(r)
      BY <1>15 DEF ScanEndsEarly, Scanning
    <2>2. PICK i \in DOMAIN answer[r].results :
            /\ RecordReported(r, Reported(r, i))
            /\ IF Verdict(answer[r], i) = "tryNext"
               THEN Remember(r) /\ UNCHANGED health
               ELSE /\ MarkUnhealthy(at[r], IF Verdict(answer[r], i) = "rateLimited"
                                            THEN Limited(0) ELSE Failure)
                    /\ UNCHANGED lastTryNext
      BY <1>15 DEF ScanEndsEarly
    <2>3. unsupportedAt' \in [Requests -> SUBSET Providers]
      BY <1>2, <1>9, <2>1, <2>2 DEF RecordReported, RequestTypeOK
    <2>4. lastTryNext' \in [Requests -> 0..NProviders]
      BY <1>9, <2>1, <2>2 DEF Remember, RequestTypeOK, Providers
    <2>5. HealthInv' /\ FlagsTypeOK'
      BY <1>9, <2>1, <2>2, ScanMarks DEF RecordReported
    <2> QED BY <1>9, <1>15, <2>1, <2>3, <2>4, <2>5, GoToNextType
            DEF ScanEndsEarly, RequestTypeOK
  <1>16. CASE ScanFindsUnsupported(r)
    <2>1. Looking(r)
      BY <1>16 DEF ScanFindsUnsupported, Scanning
    <2>2. unsupportedAt' \in [Requests -> SUBSET Providers]
      BY <1>2, <1>9, <1>16, <2>1 DEF ScanFindsUnsupported, RecordReported, RequestTypeOK
    <2>3. HealthInv' /\ FlagsTypeOK'
      BY <1>9, <1>16, <2>1, HealthUnchanged, MarkMethodUnsupportedInvariant
         DEF ScanFindsUnsupported, RecordReported
    <2> QED BY <1>9, <1>16, <2>1, <2>2, <2>3, GoToNextType
            DEF ScanFindsUnsupported, RequestTypeOK
  <1>17. CASE Serve(r)
    BY <1>9, <1>17, ResponseType, FinishType, ProvidersUnchanged DEF Serve, Scanning
  <1>18. CASE \/ RespondNoProviderForMethod(r) \/ RespondTooLarge(r)
              \/ RespondLastTryNext(r) \/ RespondNoProviders(r)
    <2>1. MethodsWithoutProvider(batch[r]) \in SUBSET Methods
      <3>1. batch[r] \in Batches
        BY <1>1, <1>18 DEF RespondNoProviderForMethod, RespondTooLarge,
           RespondLastTryNext, RespondNoProviders, Exhausted, Active
      <3> QED BY <3>1, BatchNonEmpty DEF MethodsWithoutProvider
    <2>2. lastTryNext[r] # 0 => lastTryNext[r] \in Providers
      BY <1>2, NProvidersAssumption DEF Providers
    <2>3. PICK res \in Responses : Finish(r, res)
      BY <1>18, <2>1, <2>2, ResponseType DEF RespondNoProviderForMethod,
         RespondTooLarge, RespondLastTryNext, RespondNoProviders
    <2>4. UNCHANGED providerVars
      BY <1>18 DEF RespondNoProviderForMethod, RespondTooLarge,
         RespondLastTryNext, RespondNoProviders
    <2> QED BY <2>3, <2>4, FinishType, ProvidersUnchanged
  <1> QED BY <1>3, <1>4, <1>5, <1>6, <1>7, <1>8, <1>8a, <1>10, <1>11, <1>12,
             <1>13, <1>14, <1>15, <1>16, <1>17, <1>18 DEF Step

LEMMA RequestsUnchanged ==
  ASSUME RequestTypeOK, Placed, UNCHANGED requestVars
  PROVE  RequestTypeOK' /\ Placed'
  BY DEF RequestTypeOK, Placed, requestVars

LEMMA NextType == TypeInv /\ [Next]_vars => TypeInv'
  <1> SUFFICES ASSUME TypeInv, [Next]_vars PROVE TypeInv'
    OBVIOUS
  <1> USE DEF TypeInv
  <1>1. ASSUME NEW r \in Requests, Arrive(r) PROVE TypeInv'
    <2>1. RequestTypeOK' /\ Placed'
      BY <1>1, ResponseType DEF Arrive, RequestTypeOK, Placed, Active, AtProvider
    <2> QED BY <1>1, <2>1, ProvidersUnchanged DEF Arrive
  <1>2. ASSUME NEW r \in Requests, Cancel(r) PROVE TypeInv'
    <2>1. RequestTypeOK' /\ Placed'
      BY <1>2 DEF Cancel, RequestTypeOK, Placed
    <2> QED BY <1>2, <2>1, ProvidersUnchanged DEF Cancel
  <1>3. ASSUME NEW r \in Requests, Step(r) PROVE TypeInv'
    BY <1>3, StepType
  <1>4. ASSUME NEW p \in Providers, CheckPasses(p) PROVE TypeInv'
    BY <1>4, MarkHealthyInvariant, FlagsUnchanged, RequestsUnchanged DEF CheckPasses
  <1>5. ASSUME NEW p \in Providers, CheckFails(p) PROVE TypeInv'
    <2>1. PICK err \in [limited : BOOLEAN, retryAfter : Nat] : MarkUnhealthy(p, err)
      BY <1>5, ErrType DEF CheckFails
    <2> QED BY <1>5, <2>1, MarkUnhealthyInvariant, FlagsUnchanged, RequestsUnchanged
            DEF CheckFails
  <1>6. CASE Tick
    BY <1>6, TickInvariant, RequestsUnchanged DEF Tick
  <1>7. CASE UNCHANGED vars
    BY <1>7, ProvidersUnchanged, RequestsUnchanged DEF vars
  <1> QED BY <1>1, <1>2, <1>3, <1>4, <1>5, <1>6, <1>7 DEF Next

LEMMA TypeAlways == Spec => []TypeInv
  BY TypeInit, NextType, PTL DEF Spec

\* Every variable of Failover keeps its type, whatever the providers reply.
THEOREM TypeCorrect == Spec => []TypeOK
  <1>1. TypeInv => TypeOK
    BY DEF TypeInv, TypeOK, RequestTypeOK, HealthInv, ProviderTypeOK
  <1> QED BY <1>1, TypeAlways, PTL

\* However requests and checks interleave in MarkUnhealthy and MarkHealthy, a
\* provider in rotation has no failed attempts on its record.
THEOREM AttemptsStartOver == Spec => []OnlineResetsAttempts
  <1>1. TypeInv => OnlineResetsAttempts
    BY DEF TypeInv, HealthInv
  <1> QED BY <1>1, TypeAlways, PTL

-----------------------------------------------------------------------------
(***************************************************************************)
(* Capabilities.  A flag is raised only from what the loop holds of an     *)
(* answer, and that is honest (Received): where rejections can be told     *)
(* apart, their attribution has been right (LegibleIsRight).               *)
(***************************************************************************)
Received ==
    \A r \in Requests :
        pc[r] = "answered" => Honest(at[r], batch[r], answer[r])

CapabilityInv == FlagsAreReported /\ Received /\ NotFoundIsTrue

LEMMA FlagsKept ==
  ASSUME FlagsAreReported, UNCHANGED unsupportedFor PROVE FlagsAreReported'
  BY DEF FlagsAreReported

\* Of the results looked at, those that report a method name one the provider lacks.
LEMMA ReportedAreLacking ==
  ASSUME NEW r \in Requests, Scanning(r), Received,
         NEW n \in 0..Len(batch[r]), answer[r] \in Readings, at[r] \in Clear
  PROVE  Reported(r, n) \subseteq Lacks[at[r]]
  <1>1. Honest(at[r], batch[r], answer[r]) /\ WellFormed(answer[r], batch[r])
    BY DEF Scanning, Looking, Received
  <1>2. DOMAIN answer[r].results = 1..Len(answer[r].results)
    BY DEF Readings
  <1>3. 1..n \subseteq DOMAIN answer[r].results
    BY <1>1, <1>2 DEF WellFormed
  <1> QED BY <1>1, <1>3 DEF Reported, Honest

LEMMA MarkReported ==
  ASSUME FlagsTypeOK, FlagsAreReported, NEW p \in Providers, NEW ms,
         p \in Clear => ms \subseteq Lacks[p], MarkMethodUnsupported(p, ms)
  PROVE  FlagsAreReported'
  <1>1. Clear \subseteq Providers
    BY ProvidersAssumption
  <1> QED BY <1>1 DEF FlagsTypeOK, FlagsAreReported, MarkMethodUnsupported

LEMMA StepFlags ==
  ASSUME TypeInv, CapabilityInv, NEW r \in Requests, Step(r)
  PROVE  FlagsAreReported'
  <1> USE DEF TypeInv, CapabilityInv
  <1>1. answer[r] \in Readings
    BY DEF RequestTypeOK
  <1>2. ASSUME Looking(r)
        PROVE  at[r] \in Providers /\ batch[r] \in Batches /\ Len(batch[r]) \in Nat
    BY <1>2, BatchNonEmpty DEF Looking, Placed, Active, AtProvider
  <1>3. CASE FailOverUnsupported(r)
    <2>1. Looking(r) /\ answer[r].err = "methodNotSupported" /\ Len(batch[r]) = 1
      BY <1>3 DEF FailOverUnsupported
    <2>2. MethodsOf(batch[r]) = {batch[r][1].method}
      BY <1>2, <2>1, BatchNonEmpty DEF MethodsOf
    <2>3. MethodsOf(batch[r]) \intersect Lacks[at[r]] # {}
      BY <2>1 DEF Looking, Received, Honest, Has
    <2>4. MethodsOf(batch[r]) \subseteq Lacks[at[r]]
      BY <2>2, <2>3
    <2> QED BY <1>2, <1>3, <2>1, <2>4, MarkReported DEF FailOverUnsupported
  <1>4. CASE ScanEndsEarly(r)
    <2>1. Scanning(r) /\ Looking(r)
      BY <1>4 DEF ScanEndsEarly, Scanning
    <2>2. PICK i \in DOMAIN answer[r].results : MarkMethodUnsupported(at[r], Reported(r, i))
      BY <1>4 DEF ScanEndsEarly, RecordReported
    <2>3. i \in 0..Len(batch[r])
      BY <1>1, <2>1, <2>2 DEF Scanning, WellFormed, Readings
    <2>4. at[r] \in Clear => Reported(r, i) \subseteq Lacks[at[r]]
      BY <1>1, <2>1, <2>3, ReportedAreLacking
    <2> QED BY <1>2, <2>1, <2>2, <2>4, MarkReported
  <1>5. CASE ScanFindsUnsupported(r)
    <2>1. Scanning(r) /\ Looking(r)
      BY <1>5 DEF ScanFindsUnsupported, Scanning
    <2>2. Len(batch[r]) \in 0..Len(batch[r])
      BY <1>2, <2>1
    <2>3. at[r] \in Clear => Reported(r, Len(batch[r])) \subseteq Lacks[at[r]]
      BY <1>1, <2>1, <2>2, ReportedAreLacking
    <2> QED BY <1>2, <1>5, <2>1, <2>3, MarkReported
            DEF ScanFindsUnsupported, RecordReported
  <1>6. CASE UNCHANGED unsupportedFor
    BY <1>6, FlagsKept
  <1> QED BY <1>3, <1>4, <1>5, <1>6 DEF Step, SkipOffline, FoundOnline, SkipUnsupported,
          Send, Answer, ReturnCancelled, Panic, FailOverTooLarge, FailOverError,
          MarkFailed, FailOverMismatch, Serve, RespondNoProviderForMethod, RespondTooLarge,
          RespondLastTryNext, RespondNoProviders, providerVars

\* What the goroutine's step does to the request's own variables.
LEMMA StepShape ==
  ASSUME NEW r \in Requests, Step(r)
  PROVE  \/ GoToNext(r)
         \/ \E label \in {"capability", "sent", "answered", "marking"} : GoTo(r, label)
         \/ \E res : Finish(r, res)
  BY DEF Step, SkipOffline, FoundOnline, SkipUnsupported, Send, Answer, ReturnCancelled, Panic,
     FailOverUnsupported, FailOverTooLarge, FailOverError, MarkFailed, FailOverMismatch,
     ScanEndsEarly, ScanFindsUnsupported, Serve, RespondNoProviderForMethod,
     RespondTooLarge, RespondLastTryNext, RespondNoProviders

LEMMA StepReceived ==
  ASSUME TypeInv, CapabilityInv, NEW r \in Requests, Step(r)
  PROVE  Received'
  <1> USE DEF TypeInv, CapabilityInv
  <1>1. CASE Answer(r)
    <2>1. PICK a \in CanReceive(r) : answer' = [answer EXCEPT ![r] = a]
      BY <1>1 DEF Answer
    <2>2. Honest(at[r], batch[r], a)
      <3>1. at[r] \in Providers /\ batch[r] \in Batches
        BY <1>1 DEF Answer, Placed, AtProvider, Active
      <3> QED BY <2>1, <3>1, CanReceiveType
    <2> QED BY <1>1, <2>1, <2>2 DEF Answer, GoTo, Received, RequestTypeOK
  <1>2. CASE GoToNext(r)
    BY <1>2 DEF GoToNext, Received, RequestTypeOK
  <1>3. CASE \E res : Finish(r, res)
    BY <1>3 DEF Finish, Received, RequestTypeOK
  <1>4. CASE /\ UNCHANGED answer
             /\ \E label \in {"capability", "sent", "marking"} : GoTo(r, label)
    BY <1>4 DEF GoTo, Received, RequestTypeOK
  <1> QED BY <1>1, <1>2, <1>3, <1>4 DEF Step, SkipOffline, FoundOnline, SkipUnsupported,
          Send, ReturnCancelled, Panic, FailOverUnsupported, FailOverTooLarge,
          FailOverError, MarkFailed, FailOverMismatch, ScanEndsEarly, ScanFindsUnsupported, Serve,
          RespondNoProviderForMethod, RespondTooLarge, RespondLastTryNext,
          RespondNoProviders

LEMMA StepNotFound ==
  ASSUME TypeInv, CapabilityInv, NEW r \in Requests, Step(r)
  PROVE  NotFoundIsTrue'
  <1> USE DEF TypeInv, CapabilityInv
  <1>1. CASE RespondNoProviderForMethod(r)
    <2> DEFINE missing == MethodsWithoutProvider(batch[r])
    <2>1. missing # {} /\ Finish(r, Respond(NotImplemented, 0, missing))
      BY <1>1 DEF RespondNoProviderForMethod, NoProviderForMethod
    <2>2. batch[r] \in Batches
      BY <1>1 DEF RespondNoProviderForMethod, Exhausted, Placed, Active
    <2>3. MethodsOf(batch[r]) \subseteq Methods
      BY <2>2, BatchNonEmpty
    <2>4. ASSUME NEW m \in missing, NEW p \in Clear PROVE m \in Lacks[p]
      <3>1. m \in Methods /\ unsupportedFor[p][m] # 0
        BY <2>3, <2>4, ProvidersAssumption DEF MethodsWithoutProvider, SupportsMethod
      <3>2. unsupportedFor[p][m] > 0
        BY <2>4, <3>1, ProvidersAssumption, TTLAssumption DEF FlagsTypeOK
      <3> QED BY <2>4, <3>1, <3>2 DEF FlagsAreReported
    <2>5. missing \subseteq MethodsOf(batch[r])
      BY DEF MethodsWithoutProvider
    <2> QED BY <2>1, <2>4, <2>5 DEF Finish, Respond, NotFoundIsTrue, RequestTypeOK
  <1>2. CASE UNCHANGED <<batch, response>>
    BY <1>2 DEF NotFoundIsTrue
  <1>3. CASE \E status \in {HTTPOK, ClientGone, Aborted, TooLarge, ServiceUnavailable} :
               \E by : Finish(r, Respond(status, by, {}))
    <2>1. NotImplemented \notin {HTTPOK, ClientGone, Aborted, TooLarge, ServiceUnavailable}
      BY DEF NotImplemented, HTTPOK, ClientGone, Aborted, TooLarge, ServiceUnavailable
    <2> QED BY <1>3, <2>1 DEF Finish, Respond, NotFoundIsTrue, RequestTypeOK
  <1>4. CASE Finish(r, Respond(ClientGone, 0, {})) \/ Finish(r, Respond(HTTPOK, at[r], {}))
             \/ Finish(r, Respond(Aborted, 0, {}))
             \/ Finish(r, Respond(TooLarge, 0, {}))
             \/ Finish(r, Respond(HTTPOK, lastTryNext[r], {}))
             \/ Finish(r, Respond(ServiceUnavailable, 0, {}))
    BY <1>3, <1>4
  <1>5. CASE GoToNext(r) \/ \E label : GoTo(r, label)
    BY <1>2, <1>5 DEF GoToNext, GoTo
  <1> QED BY <1>1, <1>4, <1>5 DEF Step, SkipOffline, FoundOnline, SkipUnsupported, Send,
          Answer, ReturnCancelled, Panic, FailOverUnsupported, FailOverTooLarge, FailOverError,
          MarkFailed, FailOverMismatch, ScanEndsEarly, ScanFindsUnsupported, Serve,
          RespondTooLarge, RespondLastTryNext, RespondNoProviders

LEMMA CapabilityInit == Init => CapabilityInv
  BY ProvidersAssumption DEF Init, AfterStartup, InitRequests, CapabilityInv, FlagsAreReported, Received,
     NotFoundIsTrue, NoResponse, Respond, NotImplemented

LEMMA CapabilityNext == TypeInv /\ CapabilityInv /\ [Next]_vars => CapabilityInv'
  <1> SUFFICES ASSUME TypeInv, CapabilityInv, [Next]_vars PROVE CapabilityInv'
    OBVIOUS
  <1> USE DEF CapabilityInv
  <1>1. ASSUME NEW r \in Requests, Arrive(r) PROVE CapabilityInv'
    <2>1. FlagsAreReported'
      BY <1>1, FlagsKept DEF Arrive, providerVars
    <2>2. Received'
      BY <1>1 DEF Arrive, Received, TypeInv, RequestTypeOK
    <2>3. NotFoundIsTrue'
      BY <1>1 DEF Arrive, NotFoundIsTrue, TypeInv, RequestTypeOK, NoResponse, Respond,
         NotImplemented
    <2> QED BY <2>1, <2>2, <2>3
  <1>2. ASSUME NEW r \in Requests, Step(r) PROVE CapabilityInv'
    BY <1>2, StepFlags, StepReceived, StepNotFound
  <1>3. CASE UNCHANGED <<unsupportedFor, pc, batch, at, answer, response>>
    BY <1>3 DEF FlagsAreReported, Received, NotFoundIsTrue
  <1>4. CASE Tick
    <2>1. FlagsAreReported'
      BY <1>4, ProvidersAssumption
         DEF Tick, TickProviders, CountDown, FlagsAreReported, TypeInv, FlagsTypeOK
    <2> QED BY <1>4, <2>1 DEF Tick, requestVars, Received, NotFoundIsTrue
  <1> QED BY <1>1, <1>2, <1>3, <1>4 DEF Next, Cancel, CheckPasses, CheckFails,
          requestVars, providerVars, vars

LEMMA CapabilityAlways == Spec => []CapabilityInv
  BY CapabilityInit, CapabilityNext, TypeAlways, PTL DEF Spec

(***************************************************************************)
(* A provider whose answers say which call each rejection is for is never  *)
(* flagged for a method it has: its batches may be answered in any order   *)
(* and under any ids, shared, missing or null (responseMethods, and the    *)
(* fallback to a response's place).                                        *)
(***************************************************************************)
THEOREM FlagsAlwaysReported == Spec => []FlagsAreReported
  BY CapabilityAlways, PTL DEF CapabilityInv

\* A 501 names methods the client asked for, and no provider that tells its
\* rejections apart has them.
THEOREM NotFoundAlwaysTrue == Spec => []NotFoundIsTrue
  BY CapabilityAlways, PTL DEF CapabilityInv

-----------------------------------------------------------------------------
(***************************************************************************)
(* Availability.  A reliable provider stays online, and is not flagged for *)
(* what it has if it is clear about what it rejects, so the loop of a      *)
(* request it has the methods of never gets past it; what it answered a    *)
(* client that stayed is no fault and is never held against it.            *)
(***************************************************************************)
StaysOnline == \A p \in Reliable : online[p]

NotPassedOver ==
    \A r \in Requests : \A p \in Reliable \intersect Clear :
        pc[r] \in Active /\ Has(p, batch[r]) => at[r] <= p

ReliableAnswer(r) ==
    at[r] \in Reliable /\ ~cancelled[r] =>
        /\ ~IsFault(answer[r], batch[r])
        /\ Has(at[r], batch[r]) => Serves(answer[r], batch[r])

Blameless ==
    \A r \in Requests :
        /\ pc[r] = "answered" => ReliableAnswer(r)
        /\ pc[r] = "marking" => at[r] \notin Reliable /\ SendFailed(r)
        /\ pc[r] \notin Active => at[r] = 1

AvailabilityInv == StaysOnline /\ NotPassedOver /\ Blameless /\ ServedByReliable

\* The errors that cost a provider its place are faults.
LEMMA FailureIsFault ==
  ASSUME NEW r \in Requests, TypeInv, batch[r] \in Batches, SendFailed(r)
  PROVE  IsFault(answer[r], batch[r])
  <1>1. Len(batch[r]) \in Nat \ {0}
    BY BatchNonEmpty
  <1>2. answer[r].err \in Errors
    BY DEF TypeInv, RequestTypeOK, Readings
  <1>3. CASE answer[r].err = "methodNotSupported"
    <2>1. Len(batch[r]) # 1
      BY <1>3 DEF SendFailed
    <2>2. \A n \in Nat \ {0} : n # 1 => n > 1
      OBVIOUS
    <2>3. Len(batch[r]) > 1
      BY <1>1, <2>1, <2>2
    <2> QED BY <1>3, <2>3 DEF IsFault
  <1>4. CASE answer[r].err \in {"rateLimited", "failed", "panic"}
    BY <1>4 DEF IsFault
  <1> QED BY <1>2, <1>3, <1>4 DEF SendFailed, Errors

\* An answer without fault is no reason to mark the provider.
LEMMA NoFaultNoMark ==
  ASSUME NEW r \in Requests, TypeInv, AvailabilityInv, Step(r), at[r] \in Reliable
  PROVE  online'[at[r]]
  <1> USE DEF TypeInv, AvailabilityInv
  <1>1. online[at[r]] /\ online \in [Providers -> BOOLEAN]
    BY DEF StaysOnline, HealthInv, HealthTypeOK
  <1>2. ~MarkFailed(r)
    BY DEF MarkFailed, Blameless
  <1>3. ASSUME Looking(r) PROVE ~IsFault(answer[r], batch[r])
    BY <1>3 DEF Looking, Blameless, ReliableAnswer
  <1>4. ~FailOverMismatch(r)
    BY <1>3 DEF FailOverMismatch, IsFault, WellFormed
  <1>5. CASE ScanEndsEarly(r)
    <2>1. Looking(r) /\ answer[r].err = "none"
      BY <1>5 DEF ScanEndsEarly, Scanning, WellFormed
    <2>2. PICK i \in DOMAIN answer[r].results :
            /\ EndsScan(answer[r], i)
            /\ Verdict(answer[r], i) = "tryNext" => UNCHANGED health
      BY <1>5 DEF ScanEndsEarly
    <2>3. Verdict(answer[r], i) \notin {"unhealthy", "rateLimited"}
      BY <1>3, <2>1, <2>2 DEF IsFault
    <2> QED BY <1>1, <2>2, <2>3 DEF EndsScan, health
  <1>6. CASE UNCHANGED online
    BY <1>1, <1>6
  <1> QED BY <1>2, <1>4, <1>5, <1>6 DEF Step, SkipOffline, FoundOnline, SkipUnsupported,
          Send, Answer, ReturnCancelled, Panic, FailOverUnsupported, FailOverTooLarge,
          FailOverError, ScanFindsUnsupported, Serve, RespondNoProviderForMethod,
          RespondTooLarge, RespondLastTryNext, RespondNoProviders, providerVars, health

\* A step of r changes the health of no other provider than the one it is at.
LEMMA OnlyAt ==
  ASSUME NEW r \in Requests, TypeInv, Step(r), NEW p \in Providers, p # at[r]
  PROVE  online'[p] = online[p]
  <1>1. online \in [Providers -> BOOLEAN]
    BY DEF TypeInv, HealthInv, HealthTypeOK
  <1>2. CASE \E err : MarkUnhealthy(at[r], err)
    BY <1>1, <1>2 DEF MarkUnhealthy
  <1>3. CASE UNCHANGED online
    BY <1>3
  <1>4. CASE ScanEndsEarly(r)
    BY <1>2, <1>4 DEF ScanEndsEarly, health
  <1> QED BY <1>2, <1>3, <1>4 DEF Step, SkipOffline, FoundOnline, SkipUnsupported, Send,
          Answer, ReturnCancelled, Panic, FailOverUnsupported, FailOverTooLarge, FailOverError,
          MarkFailed, FailOverMismatch, ScanFindsUnsupported, Serve, RespondTooLarge,
          RespondNoProviderForMethod, RespondLastTryNext, RespondNoProviders,
          providerVars, health

\* The loop does not go on from a reliable provider that has the methods.
LEMMA ServesOrLeaves ==
  ASSUME NEW r \in Requests, TypeInv, CapabilityInv, AvailabilityInv,
         at[r] \in Reliable \intersect Clear, Has(at[r], batch[r]), GoToNext(r), Step(r)
  PROVE  FALSE
  <1> USE DEF TypeInv, AvailabilityInv
  <1>1. online[at[r]] /\ at[r] \in Providers
    BY ProvidersAssumption DEF StaysOnline
  <1>2. answer[r] \in Readings
    BY DEF RequestTypeOK
  <1>3. ASSUME Looking(r)
        PROVE  /\ Serves(answer[r], batch[r]) /\ batch[r] \in Batches
               /\ Honest(at[r], batch[r], answer[r])
    BY <1>3 DEF Looking, Blameless, ReliableAnswer, Placed, Active, CapabilityInv, Received
  <1>4. ~SkipOffline(r)
    BY <1>1 DEF SkipOffline
  <1>5. ~SkipUnsupported(r)
    <2>1. SUFFICES ASSUME pc[r] = "capability" PROVE SupportsAllMethods(at[r], batch[r])
      BY DEF SkipUnsupported
    <2>2. MethodsOf(batch[r]) \subseteq Methods
      BY <2>1, BatchNonEmpty DEF Placed, Active
    <2>3. ASSUME NEW m \in MethodsOf(batch[r]) PROVE unsupportedFor[at[r]][m] = 0
      <3>1. ~(unsupportedFor[at[r]][m] > 0)
        BY <1>1, <2>2 DEF Has, CapabilityInv, FlagsAreReported
      <3> QED BY <1>1, <2>2, <3>1, TTLAssumption DEF FlagsTypeOK
    <2> QED BY <2>3 DEF SupportsAllMethods, SupportsMethod
  <1>6. ~FailOverUnsupported(r) /\ ~FailOverTooLarge(r) /\ ~FailOverError(r)
    BY <1>3 DEF FailOverUnsupported, FailOverTooLarge, FailOverError, SendFailed,
       Serves, WellFormed
  <1>7. ~MarkFailed(r)
    BY DEF MarkFailed, Blameless
  <1>8. ~FailOverMismatch(r)
    BY <1>3 DEF FailOverMismatch, Serves
  <1>9. ~ScanEndsEarly(r)
    BY <1>3 DEF ScanEndsEarly, Scanning, Serves, EndsScan
  <1>10. ~ScanFindsUnsupported(r)
    <2>1. SUFFICES ASSUME Scanning(r) PROVE Reported(r, Len(batch[r])) = {}
      BY DEF ScanFindsUnsupported
    <2>2. Looking(r)
      BY <2>1 DEF Scanning
    <2>3. DOMAIN answer[r].results = 1..Len(batch[r])
      BY <1>2, <2>1 DEF Scanning, WellFormed, Readings
    <2> QED BY <1>3, <2>2, <2>3 DEF Reported, Serves, Honest
  <1>11. pc'[r] = "next" /\ at'[r] = at[r] + 1 /\ at[r] \in 1..NProviders
    BY <1>1 DEF GoToNext, RequestTypeOK, Providers
  <1>12. at'[r] # at[r] /\ pc'[r] # "done"
    BY <1>11
  <1>13. ~FoundOnline(r) /\ ~Send(r) /\ ~Answer(r)
    BY <1>11 DEF FoundOnline, Send, Answer, GoTo, RequestTypeOK
  <1>14. \A res : ~Finish(r, res)
    BY <1>12 DEF Finish, RequestTypeOK
  <1> QED BY <1>4, <1>5, <1>6, <1>7, <1>8, <1>9, <1>10, <1>13, <1>14
          DEF Step, ReturnCancelled, Panic, Serve, RespondNoProviderForMethod, RespondTooLarge,
              RespondLastTryNext, RespondNoProviders

LEMMA StepAvailability ==
  ASSUME TypeInv, CapabilityInv, AvailabilityInv, NEW r \in Requests, Step(r)
  PROVE  AvailabilityInv'
  <1> USE DEF TypeInv, AvailabilityInv
  <1>1. StaysOnline'
    BY NoFaultNoMark, OnlyAt, ProvidersAssumption DEF StaysOnline
  <1>2. CASE GoToNext(r)
    <2>1. ASSUME NEW p \in Reliable \intersect Clear, Has(p, batch[r])
          PROVE  at[r] + 1 <= p
      <3>1. pc[r] \in Active /\ at[r] # p
        BY <1>2, <2>1, ServesOrLeaves DEF Step, SkipOffline, FoundOnline, SkipUnsupported,
           Send, Answer, ReturnCancelled, Panic, MeetsNil, FailOverUnsupported,
           FailOverTooLarge, FailOverError, MarkFailed, FailOverMismatch, ScanEndsEarly,
           ScanFindsUnsupported, Serve, Scanning, Looking, Exhausted, Active,
           RespondNoProviderForMethod, RespondTooLarge, RespondLastTryNext,
           RespondNoProviders
      <3>2. at[r] <= p /\ at[r] \in Nat /\ p \in Nat
        BY <2>1, <3>1, ProvidersAssumption DEF NotPassedOver, RequestTypeOK, Providers
      <3> QED BY <3>1, <3>2
    <2>2. NotPassedOver'
      BY <1>2, <2>1 DEF GoToNext, NotPassedOver, RequestTypeOK
    <2>3. Blameless' /\ ServedByReliable'
      BY <1>2 DEF GoToNext, Blameless, ServedByReliable, RequestTypeOK, Active,
         ReliableAnswer, SendFailed
    <2> QED BY <1>1, <2>2, <2>3
  <1>3. CASE Answer(r)
    <2>1. PICK a \in CanReceive(r) : answer' = [answer EXCEPT ![r] = a]
      BY <1>3 DEF Answer
    <2>2. at[r] \in Reliable /\ ~cancelled[r] =>
             ~IsFault(a, batch[r]) /\ (Has(at[r], batch[r]) => Serves(a, batch[r]))
      <3>1. at[r] \in Providers /\ batch[r] \in Batches
        BY <1>3 DEF Answer, Placed, AtProvider, Active
      <3> QED BY <2>1, <3>1 DEF CanReceive, MayAnswer
    <2>3. Blameless'
      BY <1>3, <2>1, <2>2 DEF Answer, GoTo, Blameless, RequestTypeOK, Active,
         ReliableAnswer, SendFailed
    <2>4. NotPassedOver' /\ ServedByReliable'
      BY <1>3 DEF Answer, GoTo, NotPassedOver, ServedByReliable, RequestTypeOK, Active
    <2> QED BY <1>1, <2>3, <2>4
  <1>4. CASE FailOverError(r) /\ GoTo(r, "marking") /\ UNCHANGED answer
    <2>1. batch[r] \in Batches
      BY <1>4 DEF FailOverError, Looking, Placed, Active
    <2>2. IsFault(answer[r], batch[r]) /\ Looking(r) /\ SendFailed(r)
      BY <1>4, <2>1, FailureIsFault DEF FailOverError
    <2>3. at[r] \notin Reliable
      BY <2>2 DEF Looking, Blameless, ReliableAnswer
    <2>4. Blameless'
      BY <1>4, <2>2, <2>3 DEF GoTo, Blameless, RequestTypeOK, Active, ReliableAnswer,
         SendFailed
    <2>5. NotPassedOver' /\ ServedByReliable'
      BY <1>4, <2>2 DEF GoTo, Looking, NotPassedOver, ServedByReliable, RequestTypeOK, Active
    <2> QED BY <1>1, <2>4, <2>5
  <1>5. CASE FoundOnline(r) \/ Send(r)
    <2>1. pc[r] \in Active /\ UNCHANGED answer
          /\ \E label \in {"capability", "sent"} : GoTo(r, label)
      BY <1>5 DEF FoundOnline, Send, Active
    <2>2. Blameless' /\ NotPassedOver' /\ ServedByReliable'
      BY <2>1 DEF GoTo, Blameless, NotPassedOver, ServedByReliable, RequestTypeOK, Active,
         ReliableAnswer, SendFailed
    <2> QED BY <1>1, <2>2
  <1>6. CASE Serve(r) \/ ReturnCancelled(r) \/ Panic(r)
    <2>1. PICK res : Finish(r, res) /\ res.status \in {HTTPOK, ClientGone, Aborted}
      BY <1>6 DEF Serve, ReturnCancelled, Panic, Respond
    <2> QED BY <1>1, <2>1 DEF Finish, Blameless, NotPassedOver, ServedByReliable,
          RequestTypeOK, Active, ReliableAnswer, SendFailed
  <1>7. CASE \/ RespondNoProviderForMethod(r) \/ RespondTooLarge(r)
             \/ RespondLastTryNext(r) \/ RespondNoProviders(r)
    <2>1. Exhausted(r) /\ \E res : Finish(r, res)
      BY <1>7 DEF RespondNoProviderForMethod, RespondTooLarge, RespondLastTryNext,
         RespondNoProviders
    <2>2. \A p \in Reliable \intersect Clear : ~Has(p, batch[r])
      <3>1. pc[r] \in Active /\ at[r] \notin Providers
        BY <2>1 DEF Exhausted, Active
      <3>2. \A p \in Reliable : ~(at[r] <= p)
        BY <3>1, ProvidersAssumption, NProvidersAssumption DEF RequestTypeOK, Providers
      <3> QED BY <3>1, <3>2 DEF NotPassedOver
    <2> QED BY <1>1, <2>1, <2>2 DEF Finish, Blameless, NotPassedOver, ServedByReliable,
          RequestTypeOK, Active, ReliableAnswer, SendFailed
  <1> QED BY <1>2, <1>3, <1>4, <1>5, <1>6, <1>7 DEF Step, SkipOffline, SkipUnsupported,
          FailOverUnsupported, FailOverTooLarge, FailOverError, MarkFailed,
          FailOverMismatch, ScanEndsEarly, ScanFindsUnsupported

LEMMA AvailabilityInit == Init => AvailabilityInv
  <1> SUFFICES ASSUME Init PROVE AvailabilityInv
    OBVIOUS
  <1>1. StaysOnline
    BY ProvidersAssumption DEF Init, AfterStartup, StaysOnline
  <1>2. NotPassedOver /\ Blameless /\ ServedByReliable
    BY DEF Init, InitRequests, NotPassedOver, Blameless, ServedByReliable, Active
  <1> QED BY <1>1, <1>2 DEF AvailabilityInv

\* Nothing is asked of a request whose variables do not change.
LEMMA AvailabilityKept ==
  ASSUME AvailabilityInv, UNCHANGED <<pc, batch, at, answer, response>>,
         \A r \in Requests : cancelled[r] => cancelled'[r], StaysOnline'
  PROVE  AvailabilityInv'
  BY DEF AvailabilityInv, NotPassedOver, Blameless, ServedByReliable, ReliableAnswer,
     SendFailed

LEMMA AvailabilityNext ==
  TypeInv /\ CapabilityInv /\ AvailabilityInv /\ [Next]_vars => AvailabilityInv'
  <1> SUFFICES ASSUME TypeInv, CapabilityInv, AvailabilityInv, [Next]_vars
               PROVE  AvailabilityInv'
    OBVIOUS
  <1> USE DEF TypeInv
  <1>1. ASSUME NEW r \in Requests, Arrive(r) PROVE AvailabilityInv'
    <2>1. StaysOnline'
      BY <1>1 DEF Arrive, providerVars, AvailabilityInv, StaysOnline
    <2>2. at[r] = 1
      BY <1>1 DEF Arrive, AvailabilityInv, Blameless, Active
    <2>3. NotPassedOver'
      BY <1>1, <2>2, ProvidersAssumption
         DEF Arrive, AvailabilityInv, NotPassedOver, RequestTypeOK, Providers
    <2>4. Blameless' /\ ServedByReliable'
      BY <1>1 DEF Arrive, AvailabilityInv, Blameless, ServedByReliable, RequestTypeOK,
         Active, ReliableAnswer, SendFailed
    <2> QED BY <2>1, <2>3, <2>4 DEF AvailabilityInv
  <1>2. ASSUME NEW r \in Requests, Cancel(r) PROVE AvailabilityInv'
    <2>1. \A s \in Requests : cancelled[s] => cancelled'[s]
      BY <1>2 DEF Cancel, RequestTypeOK
    <2> QED BY <1>2, <2>1, AvailabilityKept
            DEF Cancel, providerVars, AvailabilityInv, StaysOnline
  <1>3. ASSUME NEW r \in Requests, Step(r) PROVE AvailabilityInv'
    BY <1>3, StepAvailability
  <1>4. ASSUME NEW p \in Providers, CheckPasses(p) PROVE AvailabilityInv'
    <2>1. StaysOnline'
      BY <1>4, ProvidersAssumption DEF CheckPasses, MarkHealthy, health, AvailabilityInv,
         StaysOnline, HealthInv, HealthTypeOK
    <2> QED BY <1>4, <2>1, AvailabilityKept DEF CheckPasses, requestVars
  <1>5. ASSUME NEW p \in Providers, CheckFails(p) PROVE AvailabilityInv'
    <2>1. StaysOnline'
      BY <1>5, ProvidersAssumption DEF CheckFails, MarkUnhealthy, AvailabilityInv,
         StaysOnline, HealthInv, HealthTypeOK
    <2> QED BY <1>5, <2>1, AvailabilityKept DEF CheckFails, requestVars
  <1>6. CASE Tick \/ UNCHANGED vars
    <2>1. StaysOnline'
      BY <1>6 DEF Tick, TickProviders, vars, providerVars, AvailabilityInv, StaysOnline
    <2> QED BY <1>6, <2>1, AvailabilityKept DEF Tick, vars, requestVars
  <1> QED BY <1>1, <1>2, <1>3, <1>4, <1>5, <1>6 DEF Next

LEMMA AvailabilityAlways == Spec => []AvailabilityInv
  BY AvailabilityInit, AvailabilityNext, TypeAlways, CapabilityAlways, PTL DEF Spec

\* A request that some reliable provider has the methods of, one that is clear about
\* what it rejects, is served by someone, whatever the other clients and providers do,
\* unless one of these puts null for a response and the goroutine panics.
THEOREM ReliableServes == Spec => []ServedByReliable
  BY AvailabilityAlways, PTL DEF AvailabilityInv

-----------------------------------------------------------------------------
LEMMA LostInStep ==
  ASSUME TypeInv, AvailabilityInv, NEW r \in Requests, Step(r),
         NEW p \in Providers, online[p], ~online'[p]
  PROVE  LostForAFault(p)
  <1> USE DEF TypeInv
  <1>1. p = at[r]
    BY OnlyAt
  <1>2. CASE MarkFailed(r)
    <2>1. batch[r] \in Batches /\ SendFailed(r) /\ pc[r] = "marking"
      BY <1>2 DEF MarkFailed, Placed, Active, AvailabilityInv, Blameless
    <2> QED BY <1>1, <2>1, FailureIsFault DEF LostForAFault
  <1>3. CASE FailOverMismatch(r)
    <2>1. Looking(r) /\ IsFault(answer[r], batch[r])
      BY <1>3 DEF FailOverMismatch, WellFormed, IsFault
    <2> QED BY <1>1, <2>1 DEF LostForAFault, Looking
  <1>4. CASE ScanEndsEarly(r)
    <2>1. Looking(r) /\ answer[r].err = "none"
      BY <1>4 DEF ScanEndsEarly, Scanning, WellFormed
    <2>2. PICK i \in DOMAIN answer[r].results :
            EndsScan(answer[r], i) /\ Verdict(answer[r], i) # "tryNext"
      BY <1>4 DEF ScanEndsEarly, health
    <2>3. IsFault(answer[r], batch[r])
      BY <2>1, <2>2 DEF EndsScan, IsFault
    <2> QED BY <1>1, <2>1, <2>3 DEF LostForAFault, Looking
  <1>5. CASE UNCHANGED online
    BY <1>5
  <1> QED BY <1>2, <1>3, <1>4, <1>5 DEF Step, SkipOffline, FoundOnline, SkipUnsupported,
          Send, Answer, ReturnCancelled, Panic, FailOverUnsupported, FailOverTooLarge,
          FailOverError, ScanFindsUnsupported, Serve, RespondNoProviderForMethod,
          RespondTooLarge, RespondLastTryNext, RespondNoProviders, providerVars, health

\* Neither a 413, nor a missing method, nor missing data, nor a client's own
\* error, nor a client that left takes a provider out of rotation.
THEOREM FaultsOnly == Spec => OnlyFaultsTakeOffline
  <1> DEFINE Lost == \A p \in Providers : online[p] /\ ~online'[p] => LostForAFault(p)
  <1>1. ASSUME TypeInv, AvailabilityInv, [Next]_vars PROVE [Lost]_vars
    <2>1. SUFFICES ASSUME Next, NEW p \in Providers, online[p], ~online'[p]
                   PROVE  LostForAFault(p)
      BY <1>1
    <2>2. ASSUME NEW r \in Requests, Step(r) PROVE LostForAFault(p)
      BY <1>1, <2>1, <2>2, LostInStep
    <2>3. ASSUME NEW q \in Providers, CheckFails(q) PROVE LostForAFault(p)
      <3>1. p = q
        BY <1>1, <2>1, <2>3 DEF CheckFails, MarkUnhealthy, TypeInv, HealthInv, HealthTypeOK
      <3> QED BY <2>3, <3>1 DEF LostForAFault
    <2>4. ASSUME NEW q \in Providers, CheckPasses(q) PROVE FALSE
      BY <1>1, <2>1, <2>4
         DEF CheckPasses, MarkHealthy, health, TypeInv, HealthInv, HealthTypeOK
    <2>5. CASE UNCHANGED online
      BY <2>1, <2>5
    <2> QED BY <2>1, <2>2, <2>3, <2>4, <2>5
            DEF Next, Arrive, Cancel, Tick, TickProviders, providerVars
  <1>2. TypeInv /\ AvailabilityInv /\ [Next]_vars => [Lost]_vars
    BY <1>1
  <1> QED BY <1>2, TypeAlways, AvailabilityAlways, PTL DEF Spec, OnlyFaultsTakeOffline

-----------------------------------------------------------------------------
(***************************************************************************)
(* Failover implements Walk.  A request that is on its way has been told   *)
(* nothing, and remembers only answers of providers it has been past.      *)
(***************************************************************************)
OnItsWay ==
    \A r \in Requests :
        /\ pc[r] \in Active => response[r] = NoResponse /\ lastTryNext[r] < at[r]
        /\ pc[r] \notin Active => at[r] = 1 /\ lastTryNext[r] = 0
        /\ pc[r] = "idle" => response[r] = NoResponse

\* What a step does to the variables OnItsWay and the walk read.
MovesOn(r) ==
    /\ pc[r] \in Active /\ pc' = [pc EXCEPT ![r] = "next"] /\ at[r] \in Providers
    /\ at' = [at EXCEPT ![r] = at[r] + 1] /\ UNCHANGED response
    /\ lastTryNext' = lastTryNext \/ lastTryNext' = [lastTryNext EXCEPT ![r] = at[r]]

Dwells(r) ==
    /\ at[r] \in Providers /\ UNCHANGED <<at, response, lastTryNext>>
    /\ \/ pc[r] = "next" /\ pc' = [pc EXCEPT ![r] = "capability"]
       \/ pc[r] = "capability" /\ pc' = [pc EXCEPT ![r] = "sent"]
       \/ pc[r] = "sent" /\ pc' = [pc EXCEPT ![r] = "answered"]
       \/ pc[r] = "answered" /\ pc' = [pc EXCEPT ![r] = "marking"]

Ends(r, res) ==
    /\ pc[r] \in Active /\ pc' = [pc EXCEPT ![r] = "done"]
    /\ at' = [at EXCEPT ![r] = 1] /\ lastTryNext' = [lastTryNext EXCEPT ![r] = 0]
    /\ response' = [response EXCEPT ![r] = res]

EndsWell(r) ==
    \/ \E p \in 1..at[r] : p \in Providers /\ Ends(r, Respond(HTTPOK, p, {}))
    \/ \E status \in {ClientGone, Aborted} : Ends(r, Respond(status, 0, {}))
    \/ /\ at[r] = NProviders + 1
       /\ \E status \in {NotImplemented, TooLarge, ServiceUnavailable}, ms \in SUBSET Methods :
            Ends(r, Respond(status, 0, ms))

LEMMA StepWalks ==
  ASSUME TypeInv, OnItsWay, NEW r \in Requests, Step(r)
  PROVE  MovesOn(r) \/ Dwells(r) \/ EndsWell(r)
  <1> USE DEF TypeInv
  <1>1. /\ pc[r] \in Active => batch[r] \in Batches
        /\ pc[r] \in AtProvider => at[r] \in Providers
        /\ at[r] \in 1..NProviders + 1 /\ lastTryNext[r] \in 0..NProviders
    BY DEF Placed, RequestTypeOK
  <1>2. CASE \/ SkipOffline(r) \/ SkipUnsupported(r) \/ FailOverUnsupported(r)
             \/ FailOverTooLarge(r) \/ MarkFailed(r) \/ FailOverMismatch(r)
             \/ ScanEndsEarly(r) \/ ScanFindsUnsupported(r)
             \/ (FailOverError(r) /\ ~online[at[r]])
    <2>1. /\ pc[r] \in Active /\ at[r] \in Providers /\ GoToNext(r)
          /\ lastTryNext' = lastTryNext \/ lastTryNext' = [lastTryNext EXCEPT ![r] = at[r]]
      BY <1>1, <1>2 DEF SkipOffline, SkipUnsupported, FailOverUnsupported, FailOverTooLarge,
         MarkFailed, FailOverMismatch, ScanEndsEarly, ScanFindsUnsupported, FailOverError,
         Remember, Scanning, Looking, Active, AtProvider
    <2> QED BY <2>1 DEF MovesOn, GoToNext
  <1>3. CASE FoundOnline(r) \/ Send(r) \/ Answer(r) \/ (FailOverError(r) /\ online[at[r]])
    BY <1>1, <1>3 DEF FoundOnline, Send, Answer, FailOverError, Looking, GoTo, Dwells, AtProvider
  <1>4. CASE Serve(r)
    <2>1. at[r] \in Providers /\ pc[r] \in Active /\ Finish(r, Respond(HTTPOK, at[r], {}))
      BY <1>1, <1>4 DEF Serve, Scanning, Looking, AtProvider, Active
    <2>2. at[r] \in 1..at[r]
      BY <2>1 DEF Providers
    <2> QED BY <2>1, <2>2 DEF EndsWell, Ends, Finish
  <1>5. CASE ReturnCancelled(r) \/ Panic(r)
    BY <1>5 DEF ReturnCancelled, Panic, MeetsNil, Looking, EndsWell, Ends, Finish, Active
  <1>6. ASSUME Exhausted(r) PROVE at[r] = NProviders + 1 /\ pc[r] \in Active
    BY <1>1, <1>6, NProvidersAssumption DEF Exhausted, Providers, Active
  <1>7. CASE RespondLastTryNext(r)
    <2>1. lastTryNext[r] \in 1..at[r] /\ lastTryNext[r] \in Providers
      BY <1>1, <1>6, <1>7, NProvidersAssumption DEF RespondLastTryNext, Providers
    <2> QED BY <1>6, <1>7, <2>1 DEF RespondLastTryNext, EndsWell, Ends, Finish
  <1>8. CASE RespondNoProviderForMethod(r)
    <2>1. MethodsWithoutProvider(batch[r]) \in SUBSET Methods
      <3>1. batch[r] \in Batches
        BY <1>1, <1>6, <1>8 DEF RespondNoProviderForMethod
      <3> QED BY <3>1, BatchNonEmpty DEF MethodsWithoutProvider
    <2> QED BY <1>6, <1>8, <2>1 DEF RespondNoProviderForMethod, EndsWell, Ends, Finish
  <1>9. CASE RespondTooLarge(r) \/ RespondNoProviders(r)
    BY <1>6, <1>9 DEF RespondTooLarge, RespondNoProviders, EndsWell, Ends, Finish
  <1> QED BY <1>2, <1>3, <1>4, <1>5, <1>7, <1>8, <1>9 DEF Step

\* The same for a request that begins.
Begins(r) ==
    /\ pc[r] \notin Active /\ pc' = [pc EXCEPT ![r] = "next"]
    /\ response' = [response EXCEPT ![r] = NoResponse] /\ UNCHANGED <<at, lastTryNext>>

LEMMA NextWalks ==
  ASSUME TypeInv, OnItsWay, [Next]_vars
  PROVE  \/ \E r \in Requests : Begins(r) \/ MovesOn(r) \/ Dwells(r) \/ EndsWell(r)
         \/ UNCHANGED <<pc, at, lastTryNext, response>>
  <1>1. ASSUME NEW r \in Requests, Arrive(r) PROVE Begins(r)
    BY <1>1 DEF Arrive, Begins, Active
  <1>2. CASE UNCHANGED requestVars \/ \E r \in Requests : Cancel(r)
    BY <1>2 DEF requestVars, Cancel
  <1> QED BY <1>1, <1>2, StepWalks DEF Next, CheckPasses, CheckFails, Tick, vars

LEMMA OnItsWayNext ==
  ASSUME TypeInv, OnItsWay, [Next]_vars
  PROVE  OnItsWay'
  <1>0. /\ pc \in [Requests -> Active \union {"idle", "done"}]
        /\ at \in [Requests -> 1..NProviders + 1] /\ NProviders \in Nat
        /\ lastTryNext \in [Requests -> 0..NProviders] /\ response \in [Requests -> Responses]
        /\ "next" \in Active /\ "done" \notin Active
    BY NProvidersAssumption DEF TypeInv, RequestTypeOK, Active
  <1>1. ASSUME NEW r \in Requests, Begins(r) PROVE OnItsWay'
    BY <1>0, <1>1 DEF Begins, OnItsWay
  <1>2. ASSUME NEW r \in Requests, MovesOn(r) PROVE OnItsWay'
    <2>1. lastTryNext'[r] < at[r] + 1
      BY <1>0, <1>2 DEF MovesOn, OnItsWay
    <2> QED BY <1>0, <1>2, <2>1 DEF MovesOn, OnItsWay
  <1>3. ASSUME NEW r \in Requests, Dwells(r) PROVE OnItsWay'
    BY <1>0, <1>3 DEF Dwells, OnItsWay, Active
  <1>4. ASSUME NEW r \in Requests, EndsWell(r) PROVE OnItsWay'
    <2>1. PICK res : Ends(r, res)
      BY <1>4 DEF EndsWell
    <2> QED BY <1>0, <2>1 DEF Ends, OnItsWay
  <1>5. CASE UNCHANGED <<pc, at, lastTryNext, response>>
    BY <1>5 DEF OnItsWay
  <1> QED BY <1>1, <1>2, <1>3, <1>4, <1>5, NextWalks

LEMMA OnItsWayAlways == Spec => []OnItsWay
  <1>1. Init => OnItsWay
    BY DEF Init, InitRequests, OnItsWay, Active
  <1>2. TypeInv /\ OnItsWay /\ [Next]_vars => OnItsWay'
    BY OnItsWayNext
  <1> QED BY <1>1, <1>2, TypeAlways, PTL DEF Spec

-----------------------------------------------------------------------------
\* What Walk is told of r after a step that only changes r's variables.
Becomes(r, label, i, res) ==
    /\ pc' = [pc EXCEPT ![r] = label] /\ at' = [at EXCEPT ![r] = i]
    /\ response' = [response EXCEPT ![r] = res]

LEMMA WalkVarsAfter ==
  ASSUME TypeInv, NEW r \in Requests, NEW label, NEW i, NEW res, Becomes(r, label, i, res)
  PROVE  /\ pc'[r] = label /\ at'[r] = i /\ response'[r] = res
         /\ \A s \in Requests : s # r =>
              Place(s)' = Place(s) /\ Patience(s)' = Patience(s) /\ Told(s)' = Told(s)
                /\ response'[s] = response[s]
  <1>1. /\ pc \in [Requests -> Active \union {"idle", "done"}]
        /\ at \in [Requests -> 1..NProviders + 1] /\ response \in [Requests -> Responses]
    BY DEF TypeInv, RequestTypeOK
  <1>2. \A s \in Requests : s # r => pc'[s] = pc[s] /\ at'[s] = at[s] /\ response'[s] = response[s]
    BY <1>1 DEF Becomes
  <1> QED BY <1>1, <1>2 DEF Becomes, Place, Patience, Told

PlaceOf == [r \in Requests |-> Place(r)]
PatienceOf == [r \in Requests |-> Patience(r)]
ToldOf == [r \in Requests |-> Told(r)]
ByOf == [r \in Requests |-> response[r].by]

LEMMA WalkFunctions ==
  ASSUME TypeInv, NEW r \in Requests, NEW label, NEW i, NEW res, Becomes(r, label, i, res)
  PROVE  /\ PlaceOf' = [PlaceOf EXCEPT ![r] = Place(r)']
         /\ PatienceOf' = [PatienceOf EXCEPT ![r] = Patience(r)']
         /\ ToldOf' = [ToldOf EXCEPT ![r] = Told(r)']
         /\ ByOf' = [ByOf EXCEPT ![r] = res.by]
  <1>1. /\ response'[r] = res
        /\ \A s \in Requests : s # r =>
             Place(s)' = Place(s) /\ Patience(s)' = Patience(s) /\ Told(s)' = Told(s)
               /\ response'[s] = response[s]
    BY WalkVarsAfter
  <1>2. PlaceOf' = [PlaceOf EXCEPT ![r] = Place(r)']
    BY <1>1 DEF PlaceOf
  <1>3. PatienceOf' = [PatienceOf EXCEPT ![r] = Patience(r)']
    BY <1>1 DEF PatienceOf
  <1>4. ToldOf' = [ToldOf EXCEPT ![r] = Told(r)']
    BY <1>1 DEF ToldOf
  <1>5. ByOf' = [ByOf EXCEPT ![r] = res.by]
    <2> DEFINE by(s) == response[s].by
    <2>1. by(r)' = res.by /\ \A s \in Requests : s # r => by(s)' = by(s)
      BY <1>1
    <2> HIDE DEF by
    <2>2. [s \in Requests |-> by(s)'] = [[s \in Requests |-> by(s)] EXCEPT ![r] = res.by]
      BY <2>1
    <2> QED BY <2>2 DEF ByOf, by
  <1> QED BY <1>2, <1>3, <1>4, <1>5

\* The values that matter.
LEMMA WalkValues ==
  ASSUME NEW r \in Requests
  PROVE  /\ PlaceOf[r] = Place(r) /\ PatienceOf[r] = Patience(r)
         /\ ToldOf[r] = Told(r) /\ ByOf[r] = response[r].by
         /\ pc[r] \in Active => Place(r) = at[r]
         /\ pc[r] \notin Active => Place(r) = 0
         /\ response[r] = NoResponse => Told(r) = "nothing" /\ response[r].by = 0
  <1>1. /\ PlaceOf[r] = Place(r) /\ PatienceOf[r] = Patience(r)
        /\ ToldOf[r] = Told(r) /\ ByOf[r] = response[r].by
    BY DEF PlaceOf, PatienceOf, ToldOf, ByOf
  <1>2. /\ pc[r] \in Active => Place(r) = at[r]
        /\ pc[r] \notin Active => Place(r) = 0
    BY DEF Place
  <1>3. response[r] = NoResponse => Told(r) = "nothing" /\ response[r].by = 0
    <2>1. NoResponse.status = 0 /\ NoResponse.by = 0
      BY DEF NoResponse, Respond
    <2> QED BY <2>1 DEF Told, HTTPOK, ClientGone, Aborted
  <1> QED BY <1>1, <1>2, <1>3

LEMMA ToldValues ==
  ASSUME NEW r \in Requests
  PROVE  /\ \A p : response'[r] = Respond(HTTPOK, p, {}) => Told(r)' = "served"
         /\ \A status \in {ClientGone, Aborted} :
              response'[r] = Respond(status, 0, {}) => Told(r)' = "left"
         /\ \A status \in {NotImplemented, TooLarge, ServiceUnavailable} : \A ms :
              response'[r] = Respond(status, 0, ms) => Told(r)' = "refused"
         /\ response'[r] = NoResponse => Told(r)' = "nothing"
  BY DEF Told, Respond, NoResponse, HTTPOK, ClientGone, Aborted, NotImplemented, TooLarge,
     ServiceUnavailable

\* Each thing a request does, as a step of Walk.
LEMMA BeginsIsStart ==
  ASSUME TypeInv, OnItsWay, NEW r \in Requests, Begins(r)
  PROVE  Walks!Start(r)
  <1>1. /\ pc[r] \notin Active /\ at[r] = 1 /\ pc' = [pc EXCEPT ![r] = "next"]
        /\ response' = [response EXCEPT ![r] = NoResponse]
    BY DEF Begins, OnItsWay
  <1>2. at' = [at EXCEPT ![r] = 1]
    BY <1>1 DEF Begins, TypeInv, RequestTypeOK
  <1>2a. Becomes(r, "next", 1, NoResponse)
    BY <1>1, <1>2 DEF Becomes
  <1>3. pc'[r] = "next" /\ at'[r] = 1 /\ response'[r] = NoResponse
    BY <1>2a, WalkVarsAfter
  <1>4. /\ PlaceOf[r] = 0 /\ Place(r)' = 1 /\ Patience(r)' = 4 /\ Told(r)' = "nothing"
        /\ NoResponse.by = 0
    BY <1>1, <1>3, WalkValues, ToldValues DEF Place, Patience, Active, NoResponse, Respond
  <1>5. /\ PlaceOf' = [PlaceOf EXCEPT ![r] = 1] /\ PatienceOf' = [PatienceOf EXCEPT ![r] = 4]
        /\ ToldOf' = [ToldOf EXCEPT ![r] = "nothing"] /\ ByOf' = [ByOf EXCEPT ![r] = 0]
    BY <1>2a, <1>4, WalkFunctions
  <1> QED BY <1>4, <1>5
          DEF Walks!Start, Walks!GoTo, Walks!Tell, PlaceOf, PatienceOf, ToldOf, ByOf

\* The steps that tell the client nothing.
LEMMA ToldKept ==
  ASSUME UNCHANGED response
  PROVE  UNCHANGED <<ToldOf, ByOf>>
  BY DEF ToldOf, ByOf, Told

LEMMA MovesOnIsMove ==
  ASSUME TypeInv, NEW r \in Requests, MovesOn(r)
  PROVE  Walks!Move(r)
  <1>1. /\ pc[r] \in Active /\ at[r] \in Providers /\ pc' = [pc EXCEPT ![r] = "next"]
        /\ at' = [at EXCEPT ![r] = at[r] + 1] /\ UNCHANGED response
    BY DEF MovesOn
  <1>2. response' = [response EXCEPT ![r] = response[r]]
    BY <1>1 DEF TypeInv, RequestTypeOK
  <1>2a. Becomes(r, "next", at[r] + 1, response[r])
    BY <1>1, <1>2 DEF Becomes
  <1>3. pc'[r] = "next" /\ at'[r] = at[r] + 1
    BY <1>2a, WalkVarsAfter
  <1>4. PlaceOf[r] = at[r] /\ Place(r)' = at[r] + 1 /\ Patience(r)' = 4
    BY <1>1, <1>3, WalkValues DEF Place, Patience, Active
  <1>5. /\ PlaceOf' = [PlaceOf EXCEPT ![r] = PlaceOf[r] + 1]
        /\ PatienceOf' = [PatienceOf EXCEPT ![r] = 4]
    BY <1>2a, <1>4, WalkFunctions
  <1>6. PlaceOf[r] \in 1..NProviders
    BY <1>1, <1>4 DEF Providers
  <1> QED BY <1>1, <1>5, <1>6, ToldKept
          DEF Walks!Move, Walks!GoTo, Walks!Providers, PlaceOf, PatienceOf, ToldOf, ByOf

LEMMA DwellsIsDwell ==
  ASSUME TypeInv, NEW r \in Requests, Dwells(r)
  PROVE  Walks!Dwell(r)
  <1>1. at[r] \in Providers /\ UNCHANGED <<at, response>>
    BY DEF Dwells
  <1>2. at' = [at EXCEPT ![r] = at[r]] /\ response' = [response EXCEPT ![r] = response[r]]
    BY <1>1 DEF TypeInv, RequestTypeOK
  <1>3. PICK label \in Active :
          /\ pc[r] \in Active /\ pc' = [pc EXCEPT ![r] = label]
          /\ \/ pc[r] = "next" /\ label = "capability"
             \/ pc[r] = "capability" /\ label = "sent"
             \/ pc[r] = "sent" /\ label = "answered"
             \/ pc[r] = "answered" /\ label = "marking"
    BY DEF Dwells, Active
  <1>2a. Becomes(r, label, at[r], response[r])
    BY <1>2, <1>3 DEF Becomes
  <1>4. pc'[r] = label /\ at'[r] = at[r]
    BY <1>2a, WalkVarsAfter
  <1>5. PlaceOf[r] = at[r] /\ Place(r)' = at[r]
    BY <1>3, <1>4, WalkValues DEF Place
  <1>6. PatienceOf[r] > 0 /\ Patience(r)' = PatienceOf[r] - 1
    BY <1>3, <1>4, WalkValues DEF Patience
  <1>7. /\ PlaceOf' = [PlaceOf EXCEPT ![r] = at[r]]
        /\ PatienceOf' = [PatienceOf EXCEPT ![r] = PatienceOf[r] - 1]
    BY <1>2a, <1>5, <1>6, WalkFunctions
  <1>8. UNCHANGED PlaceOf
    BY <1>5, <1>7 DEF PlaceOf
  <1>9. PlaceOf[r] \in 1..NProviders
    BY <1>1, <1>5 DEF Providers
  <1> QED BY <1>1, <1>6, <1>7, <1>8, <1>9, ToldKept
          DEF Walks!Dwell, Walks!Providers, PlaceOf, PatienceOf, ToldOf, ByOf

LEMMA EndsGoesHome ==
  ASSUME TypeInv, NEW r \in Requests, NEW res, Ends(r, res), NEW what, Told(r)' = what
  PROVE  /\ Walks!GoHome(r) /\ Walks!Tell(r, what, res.by)
         /\ PlaceOf[r] = at[r] /\ at[r] \in 1..NProviders + 1
  <1>1. /\ pc[r] \in Active /\ pc' = [pc EXCEPT ![r] = "done"]
        /\ at' = [at EXCEPT ![r] = 1] /\ response' = [response EXCEPT ![r] = res]
    BY DEF Ends
  <1>2a. Becomes(r, "done", 1, res)
    BY <1>1 DEF Becomes
  <1>2. pc'[r] = "done"
    BY <1>2a, WalkVarsAfter
  <1>3. Place(r)' = 0 /\ Patience(r)' = 0
    BY <1>2 DEF Place, Patience, Active
  <1>4. /\ PlaceOf' = [PlaceOf EXCEPT ![r] = 0] /\ PatienceOf' = [PatienceOf EXCEPT ![r] = 0]
        /\ ToldOf' = [ToldOf EXCEPT ![r] = what] /\ ByOf' = [ByOf EXCEPT ![r] = res.by]
    BY <1>2a, <1>3, WalkFunctions
  <1>5. PlaceOf[r] = at[r] /\ at[r] \in 1..NProviders + 1
    BY <1>1, WalkValues DEF TypeInv, RequestTypeOK
  <1> QED BY <1>4, <1>5 DEF Walks!GoHome, Walks!Tell, PlaceOf, PatienceOf, ToldOf, ByOf

LEMMA EndsWellIsEnd ==
  ASSUME TypeInv, NEW r \in Requests, EndsWell(r)
  PROVE  Walks!Serve(r) \/ Walks!Leave(r) \/ Walks!Refuse(r)
  <1>0. \A res : Ends(r, res) => response'[r] = res
    BY DEF Ends, TypeInv, RequestTypeOK
  <1>1. ASSUME NEW p \in 1..at[r], p \in Providers, Ends(r, Respond(HTTPOK, p, {}))
        PROVE  Walks!Serve(r)
    <2>1. Told(r)' = "served" /\ Respond(HTTPOK, p, {}).by = p
      BY <1>0, <1>1, ToldValues DEF Respond
    <2>2. Walks!GoHome(r) /\ Walks!Tell(r, "served", p) /\ PlaceOf[r] = at[r]
      BY <1>1, <2>1, EndsGoesHome
    <2> QED BY <1>1, <2>2 DEF Walks!Serve, Walks!Providers, Providers, PlaceOf
  <1>2. ASSUME NEW status \in {ClientGone, Aborted}, Ends(r, Respond(status, 0, {}))
        PROVE  Walks!Leave(r)
    <2>1. Told(r)' = "left" /\ Respond(status, 0, {}).by = 0
      BY <1>0, <1>2, ToldValues DEF Respond
    <2>2. /\ Walks!GoHome(r) /\ Walks!Tell(r, "left", 0)
          /\ PlaceOf[r] = at[r] /\ at[r] \in 1..NProviders + 1
      BY <1>2, <2>1, EndsGoesHome
    <2>3. PlaceOf[r] > 0
      BY <2>2, NProvidersAssumption
    <2> QED BY <2>2, <2>3 DEF Walks!Leave, PlaceOf
  <1>3. ASSUME at[r] = NProviders + 1, NEW ms \in SUBSET Methods,
               NEW status \in {NotImplemented, TooLarge, ServiceUnavailable},
               Ends(r, Respond(status, 0, ms))
        PROVE  Walks!Refuse(r)
    <2>1. Told(r)' = "refused" /\ Respond(status, 0, ms).by = 0
      BY <1>0, <1>3, ToldValues DEF Respond
    <2>2. Walks!GoHome(r) /\ Walks!Tell(r, "refused", 0) /\ PlaceOf[r] = at[r]
      BY <1>3, <2>1, EndsGoesHome
    <2> QED BY <1>3, <2>2 DEF Walks!Refuse, PlaceOf
  <1> QED BY <1>1, <1>2, <1>3 DEF EndsWell

(***************************************************************************)
(* Whatever the requests, the healthchecks and the clock do, every request *)
(* walks the providers in failover order, asks each at most once, is       *)
(* served by one it has been at, and is refused only past the last one     *)
(* (the NextProvider loop of forwardWithFailover).                         *)
(***************************************************************************)
THEOREM ImplementsWalk == Spec => WalksInOrder
  <1>1. Init => Walks!Init
    <2>1. ASSUME Init, NEW r \in Requests
          PROVE  Place(r) = 0 /\ Patience(r) = 0 /\ Told(r) = "nothing" /\ response[r].by = 0
      <3>1. pc[r] = "idle" /\ response[r] = NoResponse
        BY <2>1 DEF Init, InitRequests
      <3> QED BY <3>1, WalkValues DEF Patience, Active
    <2> QED BY <2>1 DEF Walks!Init
  <1>2. TypeInv /\ OnItsWay /\ [Next]_vars => [Walks!Next]_(Walks!vars)
    <2> SUFFICES ASSUME TypeInv, OnItsWay, [Next]_vars PROVE [Walks!Next]_(Walks!vars)
      OBVIOUS
    <2>1. ASSUME NEW r \in Requests, Begins(r) \/ MovesOn(r) \/ Dwells(r) \/ EndsWell(r)
          PROVE  Walks!Next
      BY <2>1, BeginsIsStart, MovesOnIsMove, DwellsIsDwell, EndsWellIsEnd DEF Walks!Next
    <2>2. CASE UNCHANGED <<pc, at, lastTryNext, response>>
      BY <2>2 DEF Walks!vars, Place, Patience, Told
    <2> QED BY <2>1, <2>2, NextWalks
  <1> QED BY <1>1, <1>2, TypeAlways, OnItsWayAlways, PTL DEF Spec, WalksInOrder, Walks!Spec

-----------------------------------------------------------------------------
(***************************************************************************)
(* What is left of the loop: five things at each provider to come, and     *)
(* what is still to be done at this one.                                   *)
(***************************************************************************)
Rank(r) == 5 * (NProviders + 1 - at[r]) + Patience(r)

ComesNearer(r) == pc'[r] = "done" \/ Rank(r)' < Rank(r)

\* Each step of a request's goroutine brings it nearer to its end, and no other sets it back.
NeverSetBack ==
    [][\A r \in Requests : pc[r] \in Active =>
         /\ Step(r) => ComesNearer(r)
         /\ UNCHANGED <<pc[r], at[r]>> \/ ComesNearer(r)]_vars

LEMMA RankType ==
  ASSUME TypeInv, NEW r \in Requests
  PROVE  Rank(r) \in Nat /\ Patience(r) \in 0..4 /\ at[r] \in 1..NProviders + 1
  <1>1. at[r] \in 1..NProviders + 1
    BY DEF TypeInv, RequestTypeOK
  <1>2. Patience(r) \in 0..4
    BY DEF Patience
  <1> QED BY <1>1, <1>2, NProvidersAssumption DEF Rank

LEMMA WalkersComeNearer ==
  ASSUME TypeInv, NEW r \in Requests, MovesOn(r) \/ Dwells(r) \/ EndsWell(r)
  PROVE  ComesNearer(r)
  <1>. Patience(r)' \in 0..4
    BY DEF Patience
  <1>0. /\ at[r] \in 1..NProviders + 1 /\ NProviders \in Nat
        /\ Patience(r) \in 0..4 /\ Patience(r)' \in 0..4
        /\ pc \in [Requests -> Active \union {"idle", "done"}]
        /\ at \in [Requests -> 1..NProviders + 1]
    BY RankType, NProvidersAssumption DEF TypeInv, RequestTypeOK
  <1>1. ASSUME MovesOn(r) PROVE ComesNearer(r)
    <2>1. at'[r] = at[r] + 1 /\ pc'[r] = "next"
      BY <1>0, <1>1 DEF MovesOn
    <2>2. Patience(r)' <= 4
      BY <1>0
    <2> QED BY <1>0, <2>1, <2>2 DEF ComesNearer, Rank
  <1>2. ASSUME Dwells(r) PROVE ComesNearer(r)
    <2>1. at'[r] = at[r] /\ Patience(r)' < Patience(r)
      BY <1>0, <1>2 DEF Dwells, Patience
    <2> QED BY <1>0, <2>1 DEF ComesNearer, Rank
  <1>3. ASSUME EndsWell(r) PROVE ComesNearer(r)
    BY <1>0, <1>3 DEF EndsWell, Ends, ComesNearer
  <1> QED BY <1>1, <1>2, <1>3

(***************************************************************************)
(* The safety half of RequestsEnd: what is left of a request's loop is a   *)
(* natural number, each step of its goroutine makes it smaller or ends the *)
(* request, and no other goroutine, check or tick makes it larger.  So it  *)
(* ends after at most 5 * NProviders + 5 steps of its own.                 *)
(***************************************************************************)
THEOREM LoopIsBounded == Spec => NeverSetBack /\ [](\A r \in Requests : Rank(r) \in Nat)
  <1> DEFINE Nearer == \A r \in Requests : pc[r] \in Active =>
                         /\ Step(r) => ComesNearer(r)
                         /\ UNCHANGED <<pc[r], at[r]>> \/ ComesNearer(r)
             Ranked == \A r \in Requests : Rank(r) \in Nat
  <1>1. TypeInv => Ranked
    BY RankType
  <1>2. ASSUME TypeInv, OnItsWay, [Next]_vars PROVE [Nearer]_vars
    <2>1. SUFFICES ASSUME NEW r \in Requests, pc[r] \in Active
                   PROVE  /\ Step(r) => ComesNearer(r)
                          /\ UNCHANGED <<pc[r], at[r]>> \/ ComesNearer(r)
      OBVIOUS
    <2>2. Step(r) => ComesNearer(r)
      BY <1>2, StepWalks, WalkersComeNearer
    <2>3. UNCHANGED <<pc[r], at[r]>> \/ ComesNearer(r)
      <3>1. ASSUME NEW s \in Requests, Begins(s) \/ MovesOn(s) \/ Dwells(s) \/ EndsWell(s)
            PROVE  UNCHANGED <<pc[r], at[r]>> \/ ComesNearer(r)
        <4>1. CASE s = r
          BY <1>2, <2>1, <3>1, <4>1, WalkersComeNearer DEF Begins
        <4>2. CASE s # r
          BY <1>2, <3>1, <4>2 DEF TypeInv, RequestTypeOK, Begins, MovesOn, Dwells, EndsWell, Ends
        <4> QED BY <4>1, <4>2
      <3> QED BY <1>2, <3>1, NextWalks
    <2> QED BY <2>2, <2>3
  <1>3. TypeInv /\ OnItsWay /\ [Next]_vars => [Nearer]_vars
    BY <1>2
  <1> QED BY <1>1, <1>3, TypeAlways, OnItsWayAlways, PTL DEF Spec, NeverSetBack
=============================================================================
