----------------------------- MODULE Transports -----------------------------
(***************************************************************************)
(* The two other ways to a provider, beside the JSON-RPC failover loop:    *)
(* TRON's HTTP API (IncomingHTTPAPIHandler, internal/http.go) and the      *)
(* WebSocket dial (DialAnyProvider, ws/ws.go) with what a proxied          *)
(* connection does to the health records while it is open.  Both walk the  *)
(* providers in order and share the records of module Provider with each   *)
(* other and with the healthcheck workers, which are their environment     *)
(* here: a worker may take any provider out of the rotation or put it      *)
(* back, but a reliable one passes every check.                            *)
(***************************************************************************)
EXTENDS Provider, ChainErrors, Sequences, FiniteSets

CONSTANTS
    ApiCalls,        \* requests to the HTTP API, each a goroutine
    Sessions,        \* WebSocket clients
    Incoming,        \* the HTTP requests they may begin with
    EndpointKinds,   \* the chain the endpoint may be configured for
    HasWs,           \* providers with a WebSocket URL
    Reliable,        \* providers that serve everything they are asked
    Lacks,           \* methods each provider does not support
    Codes,           \* what the providers answer on a WebSocket: OK, or an error
    Ids,             \* ids clients give their requests on a WebSocket, beside
                     \* NoId and NullId
    MaxInFlight,     \* bound: requests in flight on a connection
    AliveThreshold   \* PrimaryProviderAliveThreshold; 5 min

Actors == ApiCalls \union Sessions
NoId == 0         \* the id is missing, "" to the code
NullId == -1      \* the id is null, "null" to the code: a key like any other
Keys == Ids \union {NullId}
AnyId == Keys \union {NoId}
NoMethod == ""    \* a response nobody is known to have asked for
Nobody == 0       \* no provider
Primary == 1      \* endpoint.Providers[0]

ASSUME TransportsAssumption ==
    /\ ApiCalls \intersect Sessions = {}
    /\ HasWs \subseteq Providers /\ Reliable \subseteq Providers
    /\ Lacks \in [Providers -> SUBSET Methods]
    /\ NoMethod \notin Methods /\ {NoId, NullId} \intersect Ids = {}
    /\ EndpointKinds \subseteq Kinds /\ Codes \subseteq Int
    /\ MaxInFlight \in Nat /\ AliveThreshold \in Nat /\ AliveThreshold < LongAgo

VARIABLES
    kind,         \* endpoint.Kind; the configuration is read once
    at,           \* where each actor is
    cursor,       \* the provider its walk is at; in the end, who serves it
    answer,       \* how its exchange with that provider ended
    gone,         \* its client has left: ctx is done
    lastError,    \* lastServerErrorProvider
    inFlight,     \* requests a session's provider has got: [id, method]
    pending,      \* the pump's map from id to method
    careless      \* history: a session's client has given null for an id, or an id
                  \* to two requests in flight

walkVars == <<at, cursor, answer, gone, lastError>>
pumpVars == <<inFlight, pending, careless>>
vars == <<kind, providerVars, walkVars, pumpVars>>

NoAnswer == [how |-> "none", err |-> Failure]
Ended(how, err) == [how |-> how, err |-> err]
Walking == {"walking", "asking", "judging", "marking"}
EmptyPending == [id \in Keys |-> NoMethod]

\* After the startup checks (main.go), which every provider has had.
Init ==
    /\ kind \in EndpointKinds
    /\ \E up \in SUBSET Providers :
         /\ Reliable \subseteq up
         /\ online = [p \in Providers |-> p \in up]
         /\ attempt = [p \in Providers |-> IF p \in up THEN 0 ELSE 1]
    /\ rateLimitedFor = [p \in Providers |-> 0]
    /\ sinceStateChange = [p \in Providers |-> 0]
    /\ unsupportedFor = [p \in Providers |-> [m \in Methods |-> 0]]
    /\ at = [a \in Actors |-> "idle"]
    /\ cursor = [a \in Actors |-> Nobody]
    /\ answer = [a \in Actors |-> NoAnswer]
    /\ gone = [a \in Actors |-> FALSE]
    /\ lastError = [a \in Actors |-> Nobody]
    /\ inFlight = [s \in Sessions |-> {}]
    /\ pending = [s \in Sessions |-> EmptyPending]
    /\ careless = [s \in Sessions |-> FALSE]

-----------------------------------------------------------------------------
(***************************************************************************)
(* requestHandler (main.go): an HTTP request is [known, authorized, path,  *)
(* upgrade, verb, body], its path the segments after the endpoint's name.  *)
(***************************************************************************)
Route(r) ==
    CASE ~r.known -> "notFound"
      [] r.known /\ ~r.authorized -> "unauthorized"
      [] r.known /\ r.authorized /\ r.path # <<>> ->
            IF kind = "tron" THEN "api" ELSE "notFound"
      [] OTHER ->
            IF r.upgrade THEN IF HasWs # {} THEN "session" ELSE "notFound" ELSE "rpc"

HTTPAPIPrefixes == {"wallet", "walletsolidity", "walletpbft"}

AllowedHTTPAPIPath(path) ==
    /\ \A i \in DOMAIN path : path[i] \notin {"", ".", ".."}
    /\ Len(path) > 1 /\ path[1] \in HTTPAPIPrefixes

\* Neither the verb, nor the path, nor the body stands in its way.
AcceptsApiCall(r) ==
    r.verb \in {"GET", "POST"} /\ AllowedHTTPAPIPath(r.path) /\ r.body = "read"

Begin(a, r) ==
    /\ at[a] = "idle"
    /\ \/ a \in ApiCalls /\ Route(r) = "api" /\ AcceptsApiCall(r)
       \/ a \in Sessions /\ Route(r) = "session"
    /\ at' = [at EXCEPT ![a] = "walking"]
    /\ cursor' = [cursor EXCEPT ![a] = 1]
    /\ UNCHANGED <<answer, gone, lastError, providerVars, pumpVars>>

Leave(a) ==
    /\ at[a] \in Walking /\ ~gone[a]
    /\ gone' = [gone EXCEPT ![a] = TRUE]
    /\ UNCHANGED <<at, cursor, answer, lastError, providerVars, pumpVars>>

-----------------------------------------------------------------------------
Usable(a, p) == online[p] /\ (a \in Sessions => p \in HasWs)

\* What p may do to a: a 429 (and a 402, of the HTTP API) says for how long.
Faults(a) ==
    {Ended("limited", Limited(n)) : n \in 0..DefaultRateLimitBackoff}
    \union {Ended("failed", Failure)}
    \union (IF a \in ApiCalls THEN {Ended("serverError", Failure)} ELSE {})

Exchanges(a, p) ==
    {Ended("served", Failure)}
    \union (IF p \in Reliable THEN {} ELSE Faults(a))
    \union (IF gone[a] THEN {Ended("cancelled", Failure)} ELSE {})

\* Broken: the first provider that cannot serve ends the walk.
StopAtFirst(a) ==
    /\ at' = [at EXCEPT ![a] = "walking"]
    /\ cursor' = [cursor EXCEPT ![a] = NProviders + 1]
    /\ answer' = [answer EXCEPT ![a] = NoAnswer]

\* On to the next provider of the walk.
Advance(a) ==
    /\ at' = [at EXCEPT ![a] = "walking"]
    /\ cursor' = [cursor EXCEPT ![a] = @ + 1]
    /\ answer' = [answer EXCEPT ![a] = NoAnswer]

Skip(a) ==
    /\ at[a] = "walking" /\ cursor[a] \in Providers /\ ~Usable(a, cursor[a])
    /\ Advance(a)
    /\ UNCHANGED <<gone, lastError, providerVars, pumpVars>>

Ask(a) ==
    /\ at[a] = "walking" /\ cursor[a] \in Providers /\ Usable(a, cursor[a])
    /\ at' = [at EXCEPT ![a] = "asking"]
    /\ UNCHANGED <<cursor, answer, gone, lastError, providerVars, pumpVars>>

\* ForwardHTTPRequest, or DialProvider, returns.
ExchangeEnds(a, x) ==
    /\ at[a] = "asking"
    /\ at' = [at EXCEPT ![a] = "judging"]
    /\ answer' = [answer EXCEPT ![a] = x]
    /\ IF x.how = "limited"
       THEN HandleTooManyRequests(cursor[a], x.err.retryAfter)
       ELSE UNCHANGED rateLimitedFor
    /\ UNCHANGED <<online, attempt, sinceStateChange, unsupportedFor>>
    /\ UNCHANGED <<cursor, gone, lastError, pumpVars>>

\* The handler returns, and with it all it held; its client may come again.
Return(a) ==
    /\ at' = [at EXCEPT ![a] = "idle"]
    /\ cursor' = [cursor EXCEPT ![a] = Nobody]
    /\ answer' = [answer EXCEPT ![a] = NoAnswer]
    /\ gone' = [gone EXCEPT ![a] = FALSE]
    /\ lastError' = [lastError EXCEPT ![a] = Nobody]

\* The client left meanwhile: whatever came of the exchange is dropped.
GiveUp(a) ==
    /\ at[a] = "judging" /\ gone[a]
    /\ Return(a)
    /\ UNCHANGED <<providerVars, pumpVars>>

Served(a) ==
    /\ at[a] = "judging" /\ ~gone[a] /\ answer[a].how = "served"
    /\ \/ a \in ApiCalls /\ Return(a)
       \/ /\ a \in Sessions
          /\ at' = [at EXCEPT ![a] = "open"]
          /\ answer' = [answer EXCEPT ![a] = NoAnswer]
          /\ UNCHANGED <<cursor, gone, lastError>>
    /\ UNCHANGED <<providerVars, pumpVars>>

\* The last 5xx is kept for a client nobody can serve.
NoteServerError(a) ==
    lastError' = IF answer[a].how = "serverError"
                 THEN [lastError EXCEPT ![a] = cursor[a]] ELSE lastError

\* Broken: the client is taken to be there.
LookAgainRegardless(a) ==
    /\ at[a] = "judging" /\ answer[a].how # "served"
    /\ IF online[cursor[a]]
       THEN at' = [at EXCEPT ![a] = "marking"] /\ UNCHANGED <<cursor, answer, lastError>>
       ELSE Advance(a) /\ NoteServerError(a)
    /\ UNCHANGED <<gone, providerVars, pumpVars>>

\* A failure: another request may have taken the provider offline by now.
LookAgain(a) ==
    /\ at[a] = "judging" /\ ~gone[a] /\ answer[a].how # "served"
    /\ IF online[cursor[a]]
       THEN at' = [at EXCEPT ![a] = "marking"] /\ UNCHANGED <<cursor, answer, lastError>>
       ELSE Advance(a) /\ NoteServerError(a)
    /\ UNCHANGED <<gone, providerVars, pumpVars>>

Mark(a) ==
    /\ at[a] = "marking"
    /\ MarkUnhealthy(cursor[a], answer[a].err)
    /\ Advance(a) /\ NoteServerError(a)
    /\ UNCHANGED <<gone, unsupportedFor, pumpVars>>

\* The last 5xx, or else 503.
Exhausted(a) == at[a] = "walking" /\ cursor[a] \notin Providers

Exhaust(a) ==
    /\ Exhausted(a)
    /\ Return(a)
    /\ UNCHANGED <<providerVars, pumpVars>>
-----------------------------------------------------------------------------
(***************************************************************************)
(* An open connection.  The provider's pump sends on what the client asks  *)
(* (pumpProvider, ws/ws.go) and looks at every response; the handler looks *)
(* at the primary once in a while.  A request may have no id, null, or one *)
(* that another request in flight has too, and an error need not carry the *)
(* id of its request.  Requests in flight that are alike are kept as one.  *)
(***************************************************************************)
Provides(s) == cursor[s]

TrackPending(s, id, m) ==
    pending' = IF id = NoId THEN pending ELSE [pending EXCEPT ![s][id] = m]

\* An id under which the answer could be taken for another request's.
IsAmbiguous(s, id) == id = NullId \/ (id # NoId /\ \E r \in inFlight[s] : r.id = id)

SendRequest(s, id, m) ==
    /\ at[s] = "open" /\ Cardinality(inFlight[s]) < MaxInFlight
    /\ inFlight' = [inFlight EXCEPT ![s] = @ \union {[id |-> id, method |-> m]}]
    /\ TrackPending(s, id, m)
    /\ careless' = IF IsAmbiguous(s, id) THEN [careless EXCEPT ![s] = TRUE] ELSE careless
    /\ UNCHANGED <<walkVars, providerVars>>

MethodNotFound == -32601

Takes(d) == d \in {"unhealthy", "rateLimited"}

\* What p may answer; it says of exactly the methods it lacks that it does.
Replies(p, m) ==
    {c \in Codes : /\ m \in Lacks[p] => c = MethodNotFound
                   /\ Disposition(kind, c) = "methodNotSupported" => m \in Lacks[p]
                   /\ p \in Reliable => ~Takes(Disposition(kind, c))}

\* Broken: an error without an id is put down to some request in flight.
MethodOfAny(s, id) ==
    IF id = NoId
    THEN LET known == {pending[s][i] : i \in Keys} \ {NoMethod}
         IN  IF known = {} THEN NoMethod ELSE CHOOSE m \in known : TRUE
    ELSE pending[s][id]

MethodOf(s, id) == IF id = NoId THEN NoMethod ELSE pending[s][id]

CloseSession(s) ==
    /\ Return(s)
    /\ inFlight' = [inFlight EXCEPT ![s] = {}]
    /\ pending' = [pending EXCEPT ![s] = EmptyPending]
    /\ careless' = [careless EXCEPT ![s] = FALSE]

\* Request r is answered, an error under its id, under none or under null.
Respond(s, r, id, c) ==
    LET d == Disposition(kind, c)
    IN  /\ at[s] = "open" /\ r \in inFlight[s] /\ c \in Replies(Provides(s), r.method)
        /\ id = r.id \/ (id \in {NoId, NullId} /\ IsError(c))
        /\ IF Takes(d)
           THEN /\ MarkUnhealthy(Provides(s),
                       IF d = "rateLimited" THEN Limited(0) ELSE Failure)
                /\ CloseSession(s)
                /\ UNCHANGED unsupportedFor
           ELSE /\ inFlight' = [inFlight EXCEPT ![s] = @ \ {r}]
                /\ pending' = [pending EXCEPT ![s] =
                                 [i \in Keys |-> IF i = id THEN NoMethod ELSE @[i]]]
                /\ IF d = "methodNotSupported"
                   THEN MarkMethodUnsupported(Provides(s), {MethodOf(s, id)})
                   ELSE UNCHANGED unsupportedFor
                /\ UNCHANGED <<careless, walkVars, health>>

\* The client or the provider closes, or the connection breaks.
HangUp(s) ==
    /\ at[s] = "open"
    /\ CloseSession(s)
    /\ UNCHANGED providerVars

\* Broken: the comparison the other way round.
PrimaryJustCameBack(s) ==
    /\ at[s] = "open" /\ cursor[s] # Primary /\ online[Primary]
    /\ sinceStateChange[Primary] < AliveThreshold

PrimaryIsBack(s) ==
    /\ at[s] = "open" /\ cursor[s] # Primary /\ online[Primary]
    /\ sinceStateChange[Primary] > AliveThreshold

CheckPrimary(s) ==
    /\ PrimaryIsBack(s)
    /\ CloseSession(s)
    /\ UNCHANGED providerVars

-----------------------------------------------------------------------------
\* Verdicts of the healthcheck workers; a check that is answered 429 opens a window.
CheckPasses(p) == MarkHealthy(p) /\ UNCHANGED <<unsupportedFor, walkVars, pumpVars>>

CheckFails(p) ==
    /\ p \notin Reliable
    /\ \E err \in {Failure, Limited(0)} : MarkUnhealthy(p, err)
    /\ UNCHANGED <<unsupportedFor, walkVars, pumpVars>>

Tick == TickProviders /\ UNCHANGED <<walkVars, pumpVars>>

WalkOn(a) ==
    \/ Skip(a) \/ Ask(a) \/ GiveUp(a) \/ Served(a)
    \/ LookAgain(a) \/ Mark(a) \/ Exhaust(a)
    \/ \E x \in Exchanges(a, cursor[a]) : ExchangeEnds(a, x)

Converse(s) ==
    \/ \E id \in AnyId, m \in Methods : SendRequest(s, id, m)
    \/ \E r \in inFlight[s], id \in AnyId, c \in Codes : Respond(s, r, id, c)
    \/ HangUp(s)

Next ==
    /\ UNCHANGED kind
    /\ \/ \E a \in Actors : WalkOn(a) \/ Leave(a) \/ \E r \in Incoming : Begin(a, r)
       \/ \E s \in Sessions : Converse(s) \/ CheckPrimary(s)
       \/ \E p \in Providers : CheckPasses(p) \/ CheckFails(p)
       \/ Tick

\* A handler's goroutine runs, an exchange ends at its timeout at the latest,
\* time passes and the ticker of a handler goes off.
Fairness ==
    /\ WF_vars(UNCHANGED kind /\ Tick)
    /\ \A a \in Actors : WF_vars(UNCHANGED kind /\ WalkOn(a))
    /\ \A s \in Sessions : WF_vars(UNCHANGED kind /\ CheckPrimary(s))

Spec == Init /\ [][Next]_vars
FairSpec == Spec /\ Fairness

-----------------------------------------------------------------------------
Places == Walking \union {"idle", "open"}
InFlight == [id : AnyId, method : Methods]
AnswerKinds == {"none", "served", "limited", "failed", "serverError", "cancelled"}
MarkErrors == {Failure} \union {Limited(n) : n \in 0..DefaultRateLimitBackoff}

TypeOK ==
    /\ kind \in EndpointKinds
    /\ ProviderTypeOK
    /\ at \in [Actors -> Places]
    /\ cursor \in [Actors -> 0..NProviders + 1]
    /\ answer \in [Actors -> [how : AnswerKinds, err : MarkErrors]]
    /\ gone \in [Actors -> BOOLEAN]
    /\ lastError \in [Actors -> Providers \union {Nobody}]
    /\ inFlight \in [Sessions -> SUBSET InFlight]
    /\ pending \in [Sessions -> [Keys -> Methods \union {NoMethod}]]
    /\ careless \in [Sessions -> BOOLEAN]

(***************************************************************************)
(* No client can take a working provider out of the rotation: not by       *)
(* leaving while the provider is asked or dialled, which fails the         *)
(* exchange (http.go, the select on ctx.Done; ws.go, DialAnyProvider), and *)
(* not by asking on a WebSocket for a method the provider lacks.           *)
(***************************************************************************)
ReliableStaysOnline == \A p \in Reliable : online[p]

(***************************************************************************)
(* Failover reaches every provider: nobody is told that no provider is     *)
(* available, nor given another provider's 5xx, while one that serves      *)
(* everything, and has been online all along, could have been asked.       *)
(***************************************************************************)
ReliableServes ==
    \A a \in Actors, p \in Reliable : Exhausted(a) => ~Usable(a, p)

(***************************************************************************)
(* A method is flagged as unsupported, and the flag renewed, only on a     *)
(* provider that lacks it: the error a provider sends on a WebSocket names *)
(* no method, and is put down to the one its request asked for, or to none *)
(* (pending, in pumpProvider), so that no JSON-RPC request skips the       *)
(* provider for it.  Only a client that gives null for an id, or the same  *)
(* id to two requests in flight, can have another method flagged, and only *)
(* on the provider it is connected to.                                     *)
(***************************************************************************)
Flagged(p, m) == unsupportedFor'[p][m] > unsupportedFor[p][m]
OfCareless(p) == \E s \in Sessions : at[s] = "open" /\ Provides(s) = p /\ careless[s]

FlagsAreAttributed ==
    [][\A p \in Providers, m \in Methods :
          Flagged(p, m) /\ m \notin Lacks[p] => OfCareless(p)]_vars

(***************************************************************************)
(* Connections to a secondary are closed so that their clients reconnect   *)
(* to the primary (PrimaryProviderAliveThreshold, ws.go): then the primary *)
(* must be one they can be given.                                          *)
(***************************************************************************)
CanReconnect == \A s \in Sessions : PrimaryIsBack(s) => Usable(s, Primary)

(***************************************************************************)
(* Once the primary stays online, every client ends up with it: no         *)
(* connection to a secondary stays open, and none is opened any more.      *)
(***************************************************************************)
OnSecondary(s) == at[s] = "open" /\ cursor[s] # Primary

ReturnsToPrimary ==
    <>[]online[Primary] => <>[](\A s \in Sessions : ~OnSecondary(s))
=============================================================================
