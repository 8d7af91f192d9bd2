# haprovider, verified

haprovider is a failover proxy for the JSON-RPC nodes of several chains
(Ethereum, Solana, TRON, Bitcoin). A client talks to one *endpoint*; the
endpoint has an ordered list of *providers*; a request goes to the first
provider that is online and supports the method, and moves on when that one
cannot serve it. WebSocket clients are joined to one provider for the life of
their connection.

This directory holds TLA+ modules of the program, TLC runs over small instances
of them, and TLAPS proofs of what holds for instances of every size. Code is
cited as `file.go:line`, relative to `src/internal/` unless said otherwise;
`PROJECT.json` names the lines each definition stands for, the hazards, the
runs, and for every property a mutation of the model that breaks it.

## 1. Inventory

| Component | State it keeps | Operations | Meets |
|---|---|---|---|
| Provider health record, `core/provider.go` | `online`, `attempt`, `RateLimitedUntil`, `lastStateChange`, `unsupportedMethods`, behind one mutex | `MarkHealthy`, `MarkUnhealthy`, `HandleTooManyRequests`, `MarkMethodUnsupported`, `SupportsMethod`, `IsOnline` | written by request loops, workers, WebSocket dials and pumps, all at once |
| Endpoint chain and tip, `core/endpoint.go` | `ChainID`, `highestBlock` (a mutex of their own) | `SetChainID`, `HighestBlock`, `ObserveBlock` | the workers of all its providers |
| Healthcheck workers, `healthcheck/`, startup in `src/cmd/haprovider/main.go` | one goroutine per provider, and what it remembers across a sleep | `Run`, `Worker`, `runOnce`, `nextAttemptDelay` | node, endpoint, health record |
| Chains, `chain/*` | none (constant tables) | `HandleError`, `Healthcheck`, `AllowMethod`, `Coalesceable` | request loops, workers, pumps |
| Upstream HTTP exchange, `httpx/httpx.go` | none | `SendHTTPRequest`, `SendRPCBatchRequest`, `ForwardHTTPRequest` | the provider; opens its rate-limit window |
| Request dispatch, `src/cmd/haprovider/main.go:28-86` | none | `requestHandler` | the three handlers below |
| JSON-RPC gateway, `http.go` | the singleflight group of the endpoint | `IncomingHttpRpcHandler`, `coalesceRequest`, `writeForwardError`, `responseMethods` | clients, HTTP failover, metrics labels |
| HTTP failover, `http.go` | the locals of one request | `forwardWithFailover`, `supportsAllMethods`, `methodsWithoutProvider` | everything above, and itself concurrently |
| TRON HTTP API, `http.go` | locals | `IncomingHTTPAPIHandler` | the health records |
| WebSocket connection, `ws/core.go` | two bounded channels, a context, a close channel, one socket | `Read`, `Write`, `Close`; the goroutines `readPump`, `writePump` | peer; users in `ws/ws.go` |
| WebSocket proxy, `ws/ws.go` | two connections, two channels, a context, `badRequests`, `pending` | dial, upgrade, `pumpClient`, `pumpProvider`, teardown | health record, tracker |
| Shutdown, `ws/shutdown.go` | `n`, `closing`, `shutdown`, `idle` | `add`, `done`, `closeAll`, `wait` | every WebSocket handler, main |
| Metrics labels, `metrics/labels.go` | a bounded set of admitted methods | `AdmitMethod` | every request |
| JSON-RPC encoding, `rpc/` | none | decode, encode, error values | everywhere |
| Configuration, auth, redaction | read once | loading, token comparison, formatting | startup, handlers |

**What is hard in it.**
*Shared health.* No operation holds the provider's mutex across a decision:
online, flags and windows are read, an upstream call of seconds follows, and the
answer is recorded against whatever the record says by then. Requests, workers
and WebSocket pumps interleave there.
*The endpoint.* The chain and the tip are decided by whichever worker comes
first, in three critical sections per check.
*Time.* Backoff, rate-limit windows, sleeps and flag lifetimes run at once and
move each other.
*Failure.* A provider fails by transport, status, rate limit, bad body, wrong
number of responses, or one bad member of a batch, and each has its own path; a
client may go away between any two steps.
*WebSockets.* Each proxied connection is a handler, two pumps and four
connection goroutines joined by bounded channels, and any of them may be the
first to notice the end.
*Sharing.* One upstream call may answer many clients, each with its own id, its
own patience and its own moment of arrival; a client that leaves, or a bug, must
not reach the others. The metrics labels are shared by all requests without a
lock.

**What makes each part correct.** Health record: an online provider starts its
backoff afresh; windows and flags end. Endpoint and workers: one chain, an
honest tip, a good node comes back and a bad one leaves. Failover: whoever can
be served is; only faults count; what a client is told is true; every request
ends. Connection: closes once, with one close frame, and leaves nothing behind.
Proxy: answers arrive, everything is torn down; a client can neither take a
provider from the others nor stay away from the primary for ever. Gateway: an
answer is fresh, complete and the client's own. Labels: bounded, and none lost
to a race. Shutdown: ends, and is final.

## 2. Modules

```
Provider ──┬── Failover ── MCFailover        (Failover also EXTENDS Attribution,
           │      ├─ FailoverProofs           and Upstream, which EXTENDS ChainErrors)
           │      └─ implements Walk
           ├── Healthcheck ── HealthcheckProofs
           ├── ProviderProofs (lemmas the proof modules of all three cite)
           └── Transports ──┬── MCTransports   (Transports also EXTENDS
                            └── TransportsProofs    ChainErrors)
Connection ──┬── WSClient ── WSClientProofs   (WSClient implements Connection)
             └── WSProxy ── WSProxyProofs     (built on two Connections)
RPCRequest ──┬── Gateway ──┬── MCGateway      (RPCRequest EXTENDS Attribution)
MethodLabels ┘             └── GatewayProofs  (which cites MethodLabelsProofs)
```

**Provider** is the health record: one operator per critical section of
`core/provider.go`. Deadlines are kept as the time that remains, which is all
the code reads of them; `TickProviders` moves them. Attempts are counted up to
`AttemptCap` and ages up to `LongAgo`, past which no decision tells them apart.
It has no `Next` of its own: its users compose the operations into theirs, so
both meet the same record.

**ChainErrors** is `HandleError` of the four chains, from error code to
disposition (nil, method not supported, try next, unhealthy, rate limited).
**Upstream** is what may come back from a provider and what
`SendRPCBatchRequest` makes of it, status by status. Bodies are sequences of
error codes; the text of a message is left out, and with it only the messages
that `HandleError` passes on without reading. In place of a response there may
be `null`, which decodes to a nil pointer that the first look into it
dereferences.

**Attribution** is `responseMethods` (`http.go:361-392`): which call of a batch
each response is put down to. A provider may answer in any order; the code sees
only the id a response carries, and takes its position when that id is missing,
unknown, or shared by several calls. An id is a number; a missing one is `NoId`,
and a null one `NullId`, which to the code is an id like any other
(`rpc/id.go:50`). `Legible` says when a response tells whose it is: by an id that
only its call has, or by its place. Failover (flags) and Gateway (labels) both
attribute through it.

**Failover** is `forwardWithFailover` (`http.go:186-359`). Each request is a
program counter: `SkipOffline`/`FoundOnline` is the `IsOnline` read,
`SkipUnsupported`/`Send` the capability check, `Answer` the upstream call (which
opens the window of a 429 before it returns), then one action per way the code
judges it: `ReturnCancelled`, `FailOverUnsupported`, `FailOverTooLarge`,
`FailOverError` and `MarkFailed` (the check `IsOnline` and the mark are two
steps), `FailOverMismatch`, `ScanEndsEarly`, `ScanFindsUnsupported`, `Serve`;
`Panic`, where null for a response ends the goroutine before anything is
recorded (`http.go:287`, `:384`, `httpx/httpx.go:227`); and one per answer of
the exhausted loop, `Respond...`. A provider gives its codes in any order and
under any ids it may (`MayGive`), and the loop reads them with `ResponseMethods`
(`ReadingsOf`). What a provider owes is: to call a method unsupported only if it
lacks it; the ones in `Clear` owe besides that each rejection is legible. A step
ends wherever shared state is read next, with three exceptions, each a run of
critical sections of one provider after another that is one step here:
`SupportsAllMethods` and `MethodsWithoutProvider`, which ask for one method at a
time, and the scan, which flags methods before it marks the provider. Workers
appear as their verdicts, `CheckPasses` and `CheckFails`; the clock as `Tick`.

**Walk** is the abstract specification of that loop as its client sees it: a
place among the providers that only goes up, one at a time; a bounded number of
things to do at each (`patience`); a client that is served by a provider the
walk has been at, refused only when it has been past every one, and told nothing
before. Nobody but the walker moves it. `Failover!WalksInOrder` is Walk under a
mapping: the place is `at` while the loop runs, the patience is what the program
counter still allows there (four steps after `next`), and what the client was
told is the class of its response.

**Healthcheck** is `main`'s startup checks, then `Worker`. `NodeAnswers` or
`NodeFails` is the chain's own `Healthcheck`, `SetChainID`, `CompareTip` and
`ObserveBlock` the three critical sections on the endpoint, then
`FirstCheckPassed/Failed` at startup or `CheckPassed`, `ReadAttempts`,
`CheckFailed` in `runOnce` (the delay is read before the failure is counted),
then sleep and the look at the rate-limit window (`WindowClosed`, `WindowOpen`,
`WindowEnds`, `Wake`). Client requests appear as what they do to health,
`RequestFails` and `RequestRecordsFault`. A node is on one chain, climbs, may do
anything while it is `Flaky`, and may settle.

**Connection** is the abstract specification of a `ws.Client`: two bounded
queues and a status, with two promises, `RoomIsMade` and `CloseEnds`.
**WSClient** is `ws/core.go` itself, with `Write` and `Close` called by any
number of goroutines, both pumps, Go's random `select`, and a peer that falls
silent (its buffers fill, writes run into their deadline) or leaves. Its run
checks `WSClient!FairSpec => Connection!Spec` under the mapping `Promise`, and
`RefinesConnection` proves the safety half of it for every size.

**WSProxy** is `IncomingWebsocketHandler`, `pumpClient`, `pumpProvider`, and the
tracker. A batch with null for a request (`TakeNullRequest`, `ws.go:350`) and
bad data before the upgrade (`Panics`) end the process, as nothing recovers
there. It uses its two connections only through the actions of Connection, which
is what WSClient is for. Messages are counted, not named. A pump waiting in a
`select`, with a message in its hands, closing connections or waiting for one of
them to end is a value of `at`. The handler in detail is one of several: the
others are `open`, and only add and leave.

**Transports** is the two other ways to a provider. `IncomingHTTPAPIHandler` and
`DialAnyProvider` are the same walk over the providers, with other faults and
other answers, so one set of actions has both, with `ApiCalls` and `Sessions`
where they differ: `Begin` (past `Route`, which is `requestHandler`, and past
the handler's own refusals), `Skip`/`Ask` (the `IsOnline` read), `ExchangeEnds`
(`ForwardHTTPRequest` or `DialProvider`, which open the window of a 429),
`GiveUp` (the client left), `Served`, `LookAgain` and `Mark` (two critical
sections), `Exhaust`. A session that is served stays `open`: `SendRequest` and
`Respond` are `pumpProvider` with its map `pending`, `CheckPrimary` the ticker.
A client may give any id, null and that of a request still in flight among them,
and an error may come back under its request's id, under null or under none. The
history variable `careless` notes the sessions whose client has given one of these; the
code does not have it and no action reads it. Here WSProxy's channels and
connections are one step, as WSProxy leaves the health records out.

**RPCRequest** is a client's request before any provider is asked: refusals, the
chains' allowlists, what is coalesced and under which key, and what a provider
may answer: each call once, in any order, a result under the call's id, an error
under that or under null.
**MethodLabels** is `AdmitMethod`, one action per atomic operation on its map
and its counter.
**Gateway** is `IncomingHttpRpcHandler` with `coalesceRequest`. A handler is
`pc`; the failover loop it runs, or shares, is `work`, taken by what may come of
it (Failover has its steps), and after each exchange it records its metrics
through MethodLabels. `Coalesce` is `DoChan`, `Deliver` the end of singleflight's
`doCall`, one critical section that sends the result to every channel and
forgets the key. Two handlers of one call are two waiters on one `work`. `Panic`
is a panic of the loop: a shared call recovers and everybody on it is told 500;
a handler that runs the loop itself (`http.go:102`) ends with it, and its client
is told nothing. `Abort` is the same before the loop, for a batch with null for a
request (`chain.go:89`).

## 3. Runs

`pass` runs are searched to the end; a `violation` run checks one sentence of
the repository's comments or tests, and TLC finds the behaviour that breaks it.

| Run | Distinct states | Question |
|---|---|---|
| `failover` | 1 237 000 | Who is served, what is flagged, what takes a provider offline |
| `failover_ends` | 141 000 | Does every request walk the providers in order, and does it end |
| `health` | 365 000 | One chain, an honest tip; does a good node come back, does a bad one leave |
| `ws_client` | 7 300 | The connection on its own, and that it keeps Connection's promise |
| `ws_proxy` | 210 000 | Answers, teardown, shutdown |
| `gateway` | 80 000 | Whose answer does a client get, how old is it, and which names become labels; does every request end |
| `transports` | 282 000 | What HTTP API and WebSocket clients do to the records, and whom they end up with |
| `failover_window` | violation | Does a 429 stop the use of a provider |
| `unknown_chain` | violation | Is a different chain always rejected |
| `ws_batch` | violation | One response for each member of a batch |
| `ws_wait` | violation | Are the connections closed when `Wait` returns |
| `ws_primary` | violation | Can a client reconnect to the primary it is sent to |

**The properties.**
`ServedByReliable`: one provider that passes its checks, has the methods, serves
what it has and is clear about what it rejects is enough for every client that
stays, whatever the others answer, short of null for a response, and however
requests interleave. `FlagsAreReported` and `NotFoundIsTrue`: a provider whose
rejections are legible is flagged for what it lacks and nothing else, in
whatever order it answers a batch and whichever ids are null or shared, and a
501 names methods that were asked for and that no such provider has. For a
provider that tells the truth but not of which call, neither holds (section 4).
`OnlyFaultsTakeOffline`: a 413, a missing method, missing data, a client's own
error or a client that left never count. `WalksInOrder`: Failover implements
Walk, so no interleaving makes a request ask a provider twice, or turn back, or
be refused before the last provider is behind it, or be answered in the name of
a provider it was not at; nor does the mark of one request move another.
`RequestsEnd`: the loop waits for nothing but the provider it is at. `OneChain`,
`TipIsReached`: whichever check wins the race, all online providers are on one
chain, and the tip is a height one of its nodes has. `Recovers`, `Leaves`:
settled nodes end up where they belong *for good*, through windows longer than
the sleeps and through late failures of old requests. `OneCloseFrame`,
`FlushNeverBlocks`, `ComesApart`, `CallsReturn`, `KeepsPromise`: a connection
ends with one close frame if its peer is well, writePump never waits for a
message it counted, both pumps and the socket go even if nobody reads, nobody
stays blocked in a call. `EndIsPassedOn`: whoever of the socket, writePump and a
call of `Close` is through has ended the context, or somebody who has still to
end it is on its way. `MessagesAreKept`: no step of a pump or of a connection
makes a message on its way to the client out of nothing, and none is lost while
both connections are open. `NothingLeftBehind`: when the handler has returned,
some pump is on its way to close each connection that is still open. `Answered`,
`TornDown`, `WaitIsFinal`, `ShutdownEnds`: see the module. `StayersAreAnswered`:
whoever stays is written an answer or an error, whoever else leaves, the starter
of a shared call included: always where the call is shared, and where it is not
unless its own goroutine panics. `OwnAnswer`: what a client is sent answers its
own calls, under its own id where the call was shared. `NotStale`: sharing is
not caching, a request never joins a call that had ended before it came.
`NobodyIsForgotten`: whoever waits has its result in its channel, or waits on a
call that is in the group and still runs. `AdmitsAnsweredMethods`: a name
becomes a label only if some provider answered it, in whatever order a batch
comes back; only in a batch whose calls lack an id or share one may a name be
taken by position (and then be wrong, as the code's comment admits).
`LabelsAreBounded`, `LabelCountSettles`: however the goroutines interleave
between counter and map, there are never too many labels, and no room is lost.
`ReliableStaysOnline`: no client, by leaving or by what it asks, takes a working
provider from the others. `ReliableServes`: a walk passes no provider that could
have served it. `FlagsAreAttributed`: an error on a WebSocket names no method,
and may come late, out of order, or without its id; a step that flags a provider
for a method it has is one of a connection whose client is careless, and no
other client's. `ReturnsToPrimary`: once the primary stays online, every session
ends up there.

**Bounds, and why they are enough.**
*failover*: two requests are the least that race on one record; a call and a
batch of two methods are the least that tell a member's rejection from
another's; one unreliable and one reliable provider give every order of failure
and rescue, and a request can do to a third provider nothing it did not do to
the first; the batch is answered in both orders, errors under their id and under
null, by one provider that is clear about them and one that need not be. A batch
whose calls share an id would double the run; the code treats it as it treats
null, and the proofs cover it. *failover_ends* has three providers and one
request instead. Codes are one per disposition, statuses one per path. Ticks of
length one suffice for what is safe whenever a deadline passes. *health*: two
workers, two chains, and two heights race for both critical values; a window of
two ticks against a sleep of one, so that 429s overtake sleeps, and thresholds
of one and two attempts for the code's 5 and 10; with attempts counted up to
two, each of the three delays is slept (`AttemptCap`, no less than
`SecondBackoff`). *ws_client*: queues of two hold a counted and an uncounted
message, two callers both close and both write. *ws_proxy*: channels of one fill
with one message, batches of two overfill them, two messages follow each other,
one other connection tells "this handler left" from "all did". Window = 2 does
not fill both channels, so `Answered` holds there; that it fails when they fill
is `ws_batch`, with a Window of 4. MaxMessages, MaxHeight, MaxOthers and MaxBad
bound the histories; nothing the properties ask depends on a later message than
those. *ws_batch* uses the least batch that fills both channels, `2*ChanCapacity
+ 2`: 4 there, 66 with the code's 32. *gateway*: two requests are the least that
share a call, and one that comes when the call has ended is there too; a batch
of two like calls, a batch of two methods and a read race over room for two
labels, on each side of the limit and for one name; a batch with null for a
member is among them; Bitcoin is the chain with an allowlist; a loop records one
answer and then fails over, fails, panics or settles, and what a second answer
would add is the proofs' part, which bound no number of them. *transports*: one
client of each kind over two providers, each kind of fault, a flag's lifetime
and a window of one tick, two requests in flight so that answers overtake one
another; the endpoint is TRON, where both kinds of client exist, or Ethereum,
where the dispositions differ and the HTTP API is refused. `ws_primary` is the
same with a WebSocket URL on the second provider only. Clients give no id, null,
or the one other id, which two requests in flight may then share.

**Deadlock.** Checked everywhere except for the proxy runs, whose handler, pumps
and messages do come to an end, and the gateway run, whose requests do.

**Fairness, and why the code justifies it.**
*Failover*: weak fairness of each request's goroutine; an upstream call counts
as a step because `SendHTTPRequest` runs under the provider's timeout.
*Healthcheck*: weak fairness of each worker for the same reason, of the
`WaitGroup`, and of the clock. Nodes and clients owe nothing.
*WSClient*: weak fairness of what a goroutine does when only that can happen;
strong fairness where a `select` in a loop has the case ready again and again,
since Go chooses among ready cases at random and the ping ticker makes the
loop go round. Peers owe nothing: a write to a silent one runs into its deadline.
*WSProxy*: the goroutines; that a closed connection ends and an open one makes
room, which Connection promises; that a client which has left is noticed; and
that the provider answers what it got. The last is needed by `Answered` alone.
*Gateway*: as long as some goroutine has a step, one is taken; clients need not
come or leave, and an exchange ends at its timeout. *Transports*: each handler's
goroutine, for the same reason; the clock; and the ticker of an open session.
Nodes, checks and clients owe nothing.

## 4. What the runs found

1. `failover_window`. `provider.go:191` says a 429 "stops using the provider
   until it's ready again". Opening the window and taking the provider offline
   are two steps of two functions, and a client that leaves in between
   (`http.go:223`) skips the second: the provider stays in rotation and its
   worker sleeps through the window.
2. `unknown_chain`. `endpoint.go:79` says a provider of a different chain is
   rejected. A node whose genesis hash is in no table reports the empty chain
   id, which reads as "not configured yet"; a provider of another chain is then
   accepted beside it.
3. `ws_batch`. A batch is answered item by item, says `ws_test.go:251`. Each pump
   sends to a channel the other one empties, and neither empties its own while
   it sends; 66 messages on their way, of the 100 a batch may have, are enough
   for both to wait for ever.
4. `ws_wait`. `shutdown.go:91` says `Wait` blocks until every WebSocket
   connection has closed. A pump that drops a client which sends bad messages
   cancels the proxy first (`ws.go:335`); the handler sees that, leaves and is no
   longer counted while both connections are open.
5. `ws_primary`. `ws.go:37` says connections to secondaries are closed "so they
   can reconnect to the primary provider". The primary is `Providers[0]`, also
   when it has no WebSocket URL: its clients are then closed at every tick and
   dialled to the same secondary again, for ever.

Seen while modelling and written into the models, without a sentence in the
repository that they contradict in a run of their own: a client that leaves
after the last look at it and before the upgrade leaves the provider connection
to nobody (`ws.go:413`; `LeftUnnoticed` excepts it from `TornDown`); a provider
that sends bad data before the client is upgraded meets a nil `ClientConn`
(`ws.go:252`; the action `Panics`, which liveness properties allow for); `Close`
returns before its frame is written, and the frame may overtake queued messages
(`ws/core.go:103`, `:155`). A scan that meets an error after which it moves on
leaves the unsupported methods behind that error unrecorded, although the
comment at `http.go:297` says that all are recorded first. The loop answers 413
as soon as one provider did (`http.go:347`), where `http.go:127` says every one
did. The window a 429 opens is left with an online provider by the HTTP API and
the dial too, when the client leaves (`http.go:632`, `ws.go:414`), as in 1.

*Ids.* `responseMethods` puts a response with a missing, null, unknown or shared
id down to the call at its position (`http.go:388`), as its comment says. A
provider that answers such a batch out of order is then flagged for a method it
has just served, is passed over for it until the flag runs out, and may be why a
501 names it. `FlagsAreReported`, `NotFoundIsTrue` and `ServedByReliable` speak
of the providers in `Clear`, to which it cannot happen; with `Clear` read as all
providers the first is false. On a WebSocket the comment at `ws.go:256` counts a
null id as none, but to `ID.String` it is `"null"`, an id like any other: a client
that gives it has its request's method flagged for the next error whose id is
null, whichever request that one is for, and two requests in flight under one id
have their methods mixed up by `pending` (`ws.go:217`). `FlagsAreAttributed` says
that this is all that can go wrong there, and on whose connection.

*Null.* A provider's null for a response is dereferenced (`http.go:287`, `:384`,
`httpx/httpx.go:227`): the goroutine panics, nothing is held against the provider,
the next one is not asked, and the client's connection is dropped
(`Failover!Panic`); where the call is shared the panic is recovered and the
clients are told 500. A client's batch with null for a request panics in
`RejectDisallowed` (`chain.go:89`): over HTTP the connection is dropped
(`Gateway!Abort`), over a WebSocket the process ends (`ws.go:350`,
`WSProxy!TakeNullRequest`, which liveness properties allow for).

## 5. Proofs

Checked by TLAPS for every value of the constants that meets the modules' named
assumptions, which say no more than types and that sizes are positive.

*FailoverProofs.* `TypeInv` strengthens the types with where the loop may be
(`Placed`: a request past the head of the loop is at a provider, with a batch of
`Batches`). It is needed because a program counter alone does not say that
`at[r]` is a provider when the answer is judged. On it: `TypeCorrect` and
`AttemptsStartOver` (an online provider has no failures on its record, so that
the next outage starts with the short delay; proved here and for Healthcheck,
and inductive as it stands). `CapabilityInv` adds `Received`, that the answer in
a request's hands is one the provider it is at could have given for this batch;
from it a scan of any length of a clear provider's answer flags only methods it
lacks. That rests on `LegibleIsRight`, a lemma about `ResponseMethods` alone: in
any order of any batch, a legible response is put down to the method of the call
it answers. It gives `FlagsAlwaysReported` and `NotFoundAlwaysTrue`, for the
providers in `Clear`, with no assumption about the others. `AvailabilityInv`
says that reliable providers stay online, and, of those that are clear too, that
no request has passed a reliable provider that has its methods, and that no
answer of such a provider is one the loop moves on from. The three hold one
another up: a provider that is never blamed stays online, one that is online and
never flagged is not skipped, one that is asked serves. That gives
`ReliableServes`. `FaultsOnly` is the action property, one case for each action
that can take a provider offline. `ImplementsWalk` is the refinement. The
invariant it needs, `OnItsWay`, says that a request on its way has been told
nothing and remembers only answers of providers behind it: without it an
upstream error returned at the end might name a provider the walk was never at.
Each step of a goroutine is first shown to move on, to dwell or to end
(`StepWalks`), and each of these to be a step of Walk; everything else the
system does is a stutter. The same case split gives `LoopIsBounded`: what is
left of a loop (`Rank`, five things for each provider to come and the patience
at this one) gets smaller with each step of its goroutine and larger with
nobody's. With fairness, which TLC adds, that is `RequestsEnd`.

*HealthcheckProofs.* `TypeInv` as above. `ChainInv` ties a check in flight to
the endpoint: what it carries is what the node is and no more than its height
(`ReportsAreTrue`), and past `SetChainID` it is on the endpoint's chain
(`AdmittedOnChain`), which does not change once it is set. `OneChainAlways` and `TipAlwaysReached` follow, under
the assumption that every node can name its chain (`Unknown \notin Chains`);
`unknown_chain` shows that without it they fail.

*WSClientProofs.* `IInv` is the types, `FlushInv` (only writePump takes from
`send`, so what it has counted is still there) and `FrameInv` (no frame is
written until writePump goes, and while the peer is well nothing but a frame
handed over ends the context, the writer or the socket). From it `OneFrame`,
`FlushFindsMessages`, for any number of callers and any queue size, and with
who may still end the context `EndsTogether`, the safety half of `ComesApart`;
`RefinesConnection`: each step of a client is a step of Connection or stutters.

*TransportsProofs.* `TypeInv` with `Placed` as in Failover. `WalkInv` is three
facts that hold one another up: reliable providers are online; a walk that
judges or marks one of them was served or has lost its client (`Faulty`); no
walk that is still going has passed one it could use (`NoneMissed`). It gives
`ClientsTakeNobodyOffline` and `WalksAreComplete`. `WalksAreBounded` is for
these walks what `LoopIsBounded` is for the failover loop: what is left of one
gets smaller with each step of its goroutine and larger with nobody's.
`PumpInv` says that for a session whose client is not careless, `pending` has the
method of every request in flight that has an id and nothing under null, with no
assumption about ids; `OnlyCarelessMisattribute` is `FlagsAreAttributed`.

*GatewayProofs.* `LabelInv` (in **MethodLabelsProofs**, lemmas about
MethodLabels alone): the counter is the number of labels plus the goroutines
between their count and their store or uncount, and with those that may still
store it is within the limit. That is what makes the check before the store
enough, and it gives `LabelsBounded` and `LabelsCounted` for any number of
goroutines. `GatewayInv` ties the handlers to the calls: a handler waits on a
call that is in the group, or has its result; a call in the group is never
cancelled; one that has ended is in no group. From it `TypeCorrect`, `Answered`
and `SharingIsNotCaching`. `AnswerInv` adds whose answer it is: whoever waits on
a call under way asked for its key (`SameKey`), a loop's result is an answer to
its own request, and what a channel was sent answers a request with the waiter's
key. With the fact that an order of `n` responses is onto it gives
`AnswersTheirOwn`. `NoLostWakeup` adds to `GatewayInv` that a call of the group
still runs (`WakeInv`), which `Deliver` ends in the step that sends to every
waiter; it is the safety half of `RequestsEnd`. `LabelsAreAnswered` rests on one
lemma about `ResponseMethods` (`AttributesByCall`): the name it gives a response
is that of the call the response answers, unless ids are missing or shared;
after that the list of names left to admit only shrinks. `Answered` says of a
handler that runs the loop itself what the code gives it: something is written
unless it panics.

*WSProxyProofs.* `WaitInv`: `open` counts the handlers between `add` and `done`, the one in
detail among them, `idle` is closed only when it is zero and `closing` is set,
and nobody is added once it is. It gives `ShutdownWaits`, for any number of
connections. `TypeCorrect` needs two facts besides the types: whoever awaits the
end of a connection has it on its list (`ClosingInv`), and a pump that flushes
has counted no more than its channel holds, because nobody else takes from it
(`MovingInv`). `NobodyLeavesItOpen` adds who is on its way to close what: a
pump that ends the proxy has the open connections on its list until they are
closed. `NothingInventedOrLost` is an action property about the sum of all
places a message can be in (`OnTheWay`: queues, channels, hands, counts of a
flush): a step moves a message from one place of the sum to another, takes one
in from a peer, or hands one out, and only a step of a connection that is
closing may lower the sum otherwise.

*Only model-checked*: liveness (both `RequestsEnd`, `Recovers`, `Leaves`,
`ComesApart`, `CallsReturn`, `ShutdownEnds`, `TornDown`, `Answered`,
`ReturnsToPrimary`, and the two promises of Connection), which is beyond the
prover. Every invariant and every action property that a passing run checks is
also a theorem.

## 6. Not modelled, and why

Five seconds after the signal `main` stops waiting for `Wait`; the model says
what `Wait` waits for. A node that lies about its height is outside what the
code promises, and heights are naturals: the wrap at 2^64 of `height+tolerance`
needs a height no chain reaches. The startup counters of `main`, which
goroutines add to without a lock, are only logged. JSON encoding, configuration,
tokens, redaction, headers, logging, timings and metrics values keep no state a
property is about. What a chain asks its node is one answer or one failure.

Two compositions are made by contract and not by one state space. Failover,
Healthcheck and Transports each have the same health record and take the others
by what they do to it (`CheckPasses`, `CheckFails`, `RequestFails`,
`RequestRecordsFault`): any mark at any time, so that each holds whatever the
others do. Gateway takes Failover by its outcomes. Their product is beyond TLC.
