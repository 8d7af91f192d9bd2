------------------------------ MODULE Upstream ------------------------------
(***************************************************************************)
(* One HTTP exchange with a provider (httpx/httpx.go): the replies that    *)
(* may come back, and what SendRPCBatchRequest makes of them.              *)
(***************************************************************************)
EXTENDS ChainErrors, Sequences

CONSTANTS
    Kind,         \* the endpoint's chain
    Codes,        \* error codes the providers' replies may carry
    Statuses,     \* HTTP statuses the providers may reply with
    RetryAfters,  \* ticks a 429 asks for; 0: no usable Retry-After
    MaxResponses  \* most responses in one reply

Unreachable == 0   \* no reply: refused, timed out, unreadable, cancelled
HTTPOK == 200
QuotaExceeded == 402
TooLarge == 413
TooManyRequests == 429
NotImplemented == 501
ServiceUnavailable == 503

LimitStatuses == {TooManyRequests, QuotaExceeded}

ASSUME UpstreamAssumption ==
    /\ Kind \in Kinds
    /\ Codes \subseteq Int \ {OK}
    /\ Statuses \subseteq Nat \ {Unreachable}
    /\ RetryAfters \subseteq Nat
    /\ MaxResponses \in Nat

Results == Codes \union {OK}

(***************************************************************************)
(* A body is JSON-RPC, one result for each response in it, or it is not.   *)
(* Of a 429 or 402 only the Retry-After header is looked at.               *)
(***************************************************************************)
Bodies == UNION {[1..n -> Results] : n \in 0..MaxResponses}

ReplySet(statuses, json, bodies, retryAfters) ==
    [status : statuses, json : {json}, results : bodies, retryAfter : retryAfters]

Replies ==
    ReplySet({Unreachable}, FALSE, {<<>>}, {0})
    \union ReplySet(Statuses \intersect LimitStatuses, FALSE, {<<>>}, RetryAfters)
    \union ReplySet(Statuses \ LimitStatuses, FALSE, {<<>>}, {0})
    \union ReplySet(Statuses \ LimitStatuses, TRUE, Bodies, {0})

\* responseHasError, when it returns ...
HasError(x) == x.json /\ \E i \in DOMAIN x.results : IsError(x.results[i])

\* ... which it does not if it meets a null before the first error.
MeetsNull(x) ==
    x.json /\ \E i \in DOMAIN x.results :
                x.results[i] = Null /\ \A j \in 1..(i - 1) : x.results[j] = OK

(***************************************************************************)
(* What the caller gets: an error, or (err "none") the decoded responses,  *)
(* or nothing at all because the exchange ends in a panic (err "panic").   *)
(* The code's rate-limit error carries the backoff HandleTooManyRequests   *)
(* settled on; here retryAfter is what the reply asked for, and Provider's *)
(* Backoff settles it.                                                     *)
(***************************************************************************)
Errors == {"none", "rateLimited", "methodNotSupported", "tooLarge", "failed", "panic"}

Answers == [err : Errors, retryAfter : RetryAfters \union {0}, results : Seq(Results)]

Fail(err) == [err |-> err, retryAfter |-> 0, results |-> <<>>]
LimitedFor(retryAfter) == [err |-> "rateLimited", retryAfter |-> retryAfter, results |-> <<>>]
Decoded(results) == [err |-> "none", retryAfter |-> 0, results |-> results]

StatusError(status) ==
    CASE status = NotImplemented -> Fail("methodNotSupported")
      [] status = TooLarge -> Fail("tooLarge")
      [] OTHER -> Fail("failed")

SendRPCBatchRequest(x) ==
    CASE x.status = Unreachable -> Fail("failed")
      [] x.status \in LimitStatuses -> LimitedFor(x.retryAfter)
      [] x.status = HTTPOK -> IF x.json THEN Decoded(x.results) ELSE Fail("failed")
      [] OTHER -> IF MeetsNull(x) THEN Fail("panic")
                  ELSE IF HasError(x) THEN Decoded(x.results) ELSE StatusError(x.status)
=============================================================================
