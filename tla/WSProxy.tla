--------------------------------- MODULE WSProxy ---------------------------------
(***************************************************************************)
(* One proxied WebSocket (ws/ws.go): the handler that dials a provider,    *)
(* upgrades the client and watches both connections, the two pumps between *)
(* them, and the tracker that waits for the handler at shutdown            *)
(* (ws/shutdown.go).  The two connections are used as Connection says a    *)
(* ws.Client behaves.                                                      *)
(*                                                                         *)
(* Messages are counted.  Every message of the client is a batch of        *)
(* BatchSize requests (1: no batch), and the two ends keep at most Window  *)
(* messages on their way: the client waits for answers before it asks      *)
(* more, the provider before it pushes more.                               *)
(***************************************************************************)
EXTENDS Naturals, Sequences

CONSTANTS
    ChanCapacity,   \* of the channels Requests and Responses; 32 in the code
    Capacity,       \* of a connection's queues; 32 in the code
    BatchSize,      \* requests in a message of the client; at most 100 in the code
    MaxBad,         \* bad messages in a row that are forgiven; 10 in the code
    Window,         \* messages the two ends let be on their way
    MaxMessages,    \* bound: messages the client sends and the provider pushes
    MaxOthers       \* bound: other proxied connections at a time

ASSUME SizeAssumption ==
    /\ {ChanCapacity, Capacity, BatchSize} \subseteq Nat \ {0}
    /\ {MaxBad, Window, MaxMessages, MaxOthers} \subseteq Nat

VARIABLES
    at,           \* where the handler and the two pumps are
    toClose,      \* connections each of them has still to close
    left,         \* messages each pump has counted and not yet moved
    badRequests,
    ctx,          \* of the proxy: live, cancelled, or gone with the client's request
    requests, responses,                       \* in the two channels
    clientStatus, clientOut, clientIn,         \* proxy.ClientConn
    providerStatus, providerOut, providerIn,   \* proxy.ProviderConn
    unanswered,   \* requests the provider has got and not yet answered
    sent,         \* messages of the client, and messages the provider pushed
    counted,      \* the handler has called tracker.add, and defers tracker.done
    open,         \* tracker.n
    closing,      \* tracker.closing, and tracker.shutdown
    idle,         \* times tracker.idle was closed
    crashed       \* the process died

proxyVars == <<at, toClose, left, badRequests, ctx, requests, responses>>
clientVars == <<clientStatus, clientOut, clientIn>>
providerVars == <<providerStatus, providerOut, providerIn>>
tracker == <<counted, open, closing, idle>>
worldVars == <<unanswered, sent>>
vars == <<proxyVars, clientVars, providerVars, tracker, worldVars, crashed>>

Handler == "handler"
ClientPump == "pumpClient"
ProviderPump == "pumpProvider"
Pumps == {ClientPump, ProviderPump}
Actors == Pumps \union {Handler}

ClientConn == INSTANCE Connection WITH
    status <- clientStatus, outbox <- clientOut, inbox <- clientIn
ProviderConn == INSTANCE Connection WITH
    status <- providerStatus, outbox <- providerOut, inbox <- providerIn

Init ==
    /\ at = [a \in Actors |-> IF a = Handler THEN "dialing" ELSE "none"]
    /\ toClose = [a \in Actors |-> <<>>]
    /\ left = [p \in Pumps |-> 0]
    /\ badRequests = 0
    /\ ctx = "live"
    /\ requests = 0 /\ responses = 0
    /\ clientStatus = "none" /\ clientOut = 0 /\ clientIn = 0
    /\ providerStatus = "none" /\ providerOut = 0 /\ providerIn = 0
    /\ unanswered = 0 /\ sent = 0
    /\ counted = FALSE /\ open \in 0..MaxOthers /\ closing = FALSE /\ idle = 0
    /\ crashed = FALSE

-----------------------------------------------------------------------------
GoTo(a, label) == at' = [at EXCEPT ![a] = label]

\* a closes the connections cs in this order, then returns.
GoAndClose(a, cs) == GoTo(a, "closing") /\ toClose' = [toClose EXCEPT ![a] = cs]
Cancel == ctx' = IF ctx = "live" THEN "cancelled" ELSE ctx

(***************************************************************************)
(* Client.Close, as its callers see it: the first one waits until the      *)
(* connection ends, any other returns at once.                             *)
(***************************************************************************)
CloseClient(a) ==
    /\ at[a] = "closing" /\ toClose[a] # <<>> /\ Head(toClose[a]) = "client"
    /\ clientStatus # "none"
    /\ IF clientStatus = "open"
       THEN ClientConn!Close /\ GoTo(a, "awaiting") /\ UNCHANGED toClose
       ELSE toClose' = [toClose EXCEPT ![a] = Tail(@)] /\ UNCHANGED <<at, clientVars>>
    /\ UNCHANGED <<left, badRequests, ctx, requests, responses,
                   providerVars, tracker, worldVars, crashed>>

\* proxy.ClientConn is nil until the client has been upgraded.
Panics(a) ==
    /\ at[a] = "closing" /\ toClose[a] # <<>> /\ Head(toClose[a]) = "client"
    /\ clientStatus = "none"
    /\ crashed' = TRUE
    /\ UNCHANGED <<proxyVars, clientVars, providerVars, tracker, worldVars>>

CloseProvider(a) ==
    /\ at[a] = "closing" /\ toClose[a] # <<>> /\ Head(toClose[a]) = "provider"
    /\ IF providerStatus = "open"
       THEN ProviderConn!Close /\ GoTo(a, "awaiting") /\ UNCHANGED toClose
       ELSE toClose' = [toClose EXCEPT ![a] = Tail(@)] /\ UNCHANGED <<at, providerVars>>
    /\ UNCHANGED <<left, badRequests, ctx, requests, responses,
                   clientVars, tracker, worldVars, crashed>>

CloseReturns(a) ==
    /\ at[a] = "awaiting"
    /\ (IF Head(toClose[a]) = "client" THEN clientStatus ELSE providerStatus) = "ended"
    /\ GoAndClose(a, Tail(toClose[a]))
    /\ UNCHANGED <<left, badRequests, ctx, requests, responses,
                   clientVars, providerVars, tracker, worldVars, crashed>>

PumpReturns(p) ==
    /\ at[p] = "closing" /\ toClose[p] = <<>>
    /\ GoTo(p, "gone")
    /\ UNCHANGED <<toClose, left, badRequests, ctx, requests, responses,
                   clientVars, providerVars, tracker, worldVars, crashed>>

-----------------------------------------------------------------------------
\* IncomingWebsocketHandler
HandlerStep ==
    UNCHANGED <<left, badRequests, requests, responses, worldVars, crashed>>

DialFails ==
    /\ at[Handler] = "dialing"
    /\ GoTo(Handler, "gone")
    /\ Cancel
    /\ UNCHANGED <<toClose, clientVars, providerVars, tracker>>
    /\ HandlerStep

DialSucceeds ==
    /\ at[Handler] = "dialing"
    /\ at' = [at EXCEPT ![Handler] = "dialed", ![ProviderPump] = "selecting"]
    /\ providerStatus' = "open"
    /\ UNCHANGED <<toClose, ctx, clientVars, providerOut, providerIn, tracker>>
    /\ HandlerStep

\* The last look at the client before it is upgraded.
CheckClient ==
    /\ at[Handler] = "dialed"
    /\ IF ctx # "live"
       THEN GoAndClose(Handler, <<"provider">>)
       ELSE GoTo(Handler, "adding") /\ UNCHANGED toClose
    /\ UNCHANGED <<ctx, clientVars, providerVars, tracker>>
    /\ HandlerStep

\* Broken: connections are accepted during shutdown.
AddAlways ==
    /\ at[Handler] = "adding"
    /\ counted' = TRUE /\ open' = open + 1 /\ GoTo(Handler, "upgrading")
    /\ UNCHANGED <<closing, idle, toClose, ctx, clientVars, providerVars>>
    /\ HandlerStep

Add ==
    /\ at[Handler] = "adding"
    /\ IF closing
       THEN GoAndClose(Handler, <<"provider">>) /\ UNCHANGED <<counted, open>>
       ELSE /\ counted' = TRUE /\ open' = open + 1
            /\ GoTo(Handler, "upgrading") /\ UNCHANGED toClose
    /\ UNCHANGED <<closing, idle, ctx, clientVars, providerVars>>
    /\ HandlerStep

\* From the hijack on, the request no longer tells whether the client is there.
UpgradeSucceeds ==
    /\ at[Handler] = "upgrading"
    /\ at' = [at EXCEPT ![Handler] = "serving", ![ClientPump] = "selecting"]
    /\ clientStatus' = "open"
    /\ UNCHANGED <<toClose, ctx, clientOut, clientIn, providerVars, tracker>>
    /\ HandlerStep

UpgradeFails ==
    /\ at[Handler] = "upgrading"
    /\ GoAndClose(Handler, <<"provider">>)
    /\ UNCHANGED <<ctx, clientVars, providerVars, tracker>>
    /\ HandlerStep

\* The primary provider has long been back: the client may reconnect to it.
PrimaryIsBack ==
    /\ at[Handler] = "serving"
    /\ GoAndClose(Handler, <<"client", "provider">>)
    /\ UNCHANGED <<ctx, clientVars, providerVars, tracker>>
    /\ HandlerStep

ShutDown ==
    /\ at[Handler] = "serving" /\ closing
    /\ GoAndClose(Handler, <<"client", "provider">>)
    /\ UNCHANGED <<ctx, clientVars, providerVars, tracker>>
    /\ HandlerStep

ContextEnded ==
    /\ at[Handler] = "serving" /\ ctx # "live"
    /\ GoAndClose(Handler, <<>>)
    /\ UNCHANGED <<ctx, clientVars, providerVars, tracker>>
    /\ HandlerStep

\* Broken: the provider is left to find out.
ClientEndedOnly ==
    /\ at[Handler] = "serving" /\ clientStatus = "ended"
    /\ GoAndClose(Handler, <<>>)
    /\ UNCHANGED <<ctx, clientVars, providerVars, tracker>>
    /\ HandlerStep

ClientEnded ==
    /\ at[Handler] = "serving" /\ clientStatus = "ended"
    /\ GoAndClose(Handler, <<"provider">>)
    /\ UNCHANGED <<ctx, clientVars, providerVars, tracker>>
    /\ HandlerStep

ProviderEnded ==
    /\ at[Handler] = "serving" /\ providerStatus = "ended"
    /\ GoAndClose(Handler, <<"client">>)
    /\ UNCHANGED <<ctx, clientVars, providerVars, tracker>>
    /\ HandlerStep

\* Broken: nobody tells Wait that the last connection has closed.
LeaveQuietly == open' = open - 1 /\ UNCHANGED <<counted, closing, idle>>

\* tracker.done: the last one out closes idle.
Leave ==
    /\ open' = open - 1
    /\ idle' = IF closing /\ open = 1 THEN idle + 1 ELSE idle
    /\ UNCHANGED <<counted, closing>>

HandlerReturns ==
    /\ at[Handler] = "closing" /\ toClose[Handler] = <<>>
    /\ GoTo(Handler, "gone")
    /\ Cancel
    /\ IF counted THEN Leave ELSE UNCHANGED tracker
    /\ UNCHANGED <<toClose, clientVars, providerVars>>
    /\ HandlerStep

-----------------------------------------------------------------------------
(***************************************************************************)
(* What the two pumps share: each empties one channel into one connection, *)
(* first the message it took, then those it counted behind it.             *)
(***************************************************************************)
\* Broken: the count does not go down with the queue.
NextUncounted(p, queue, writing, rewriting) ==
    LET n == IF at[p] = writing THEN queue ELSE left[p]
    IN  IF n = 0
        THEN GoTo(p, "selecting") /\ left' = [left EXCEPT ![p] = 0] /\ queue' = queue
        ELSE GoTo(p, rewriting) /\ left' = [left EXCEPT ![p] = n] /\ queue' = queue - 1

\* The pump has written a message; queue is what its channel still holds.
NextCounted(p, queue, writing, rewriting) ==
    LET n == IF at[p] = writing THEN queue ELSE left[p]
    IN  IF n = 0
        THEN GoTo(p, "selecting") /\ left' = [left EXCEPT ![p] = 0] /\ queue' = queue
        ELSE GoTo(p, rewriting) /\ left' = [left EXCEPT ![p] = n - 1] /\ queue' = queue - 1

PumpStep == UNCHANGED <<toClose, tracker, worldVars, crashed>>

-----------------------------------------------------------------------------
\* pumpClient
ClientGone ==
    /\ at[ClientPump] = "selecting" /\ clientStatus = "ended"
    /\ GoTo(ClientPump, "gone")
    /\ UNCHANGED <<left, badRequests, ctx, requests, responses, clientVars, providerVars>>
    /\ PumpStep

\* Every request of the batch goes to the provider pump, one at a time ...
AcceptMessage ==
    /\ at[ClientPump] = "selecting"
    /\ ClientConn!Take
    /\ badRequests' = 0
    /\ GoTo(ClientPump, "handing")
    /\ left' = [left EXCEPT ![ClientPump] = BatchSize]
    /\ UNCHANGED <<ctx, requests, responses, providerVars>>
    /\ PumpStep

\* ... or, if the chain allows one of them to nobody, is answered here.
RejectMessage ==
    /\ at[ClientPump] = "selecting"
    /\ ClientConn!Take
    /\ badRequests' = 0
    /\ GoTo(ClientPump, "rejecting")
    /\ left' = [left EXCEPT ![ClientPump] = BatchSize]
    /\ UNCHANGED <<ctx, requests, responses, providerVars>>
    /\ PumpStep

ForgiveBadMessage ==
    /\ at[ClientPump] = "selecting" /\ badRequests < MaxBad
    /\ ClientConn!Take
    /\ badRequests' = badRequests + 1
    /\ UNCHANGED <<at, left, ctx, requests, responses, providerVars>>
    /\ PumpStep

DropBadClient ==
    /\ at[ClientPump] = "selecting" /\ badRequests = MaxBad
    /\ ClientConn!Take
    /\ badRequests' = badRequests + 1
    /\ Cancel
    /\ GoAndClose(ClientPump, <<"client", "provider">>)
    /\ UNCHANGED <<left, requests, responses, providerVars, tracker, worldVars, crashed>>

\* A batch with null among its requests: the check for the chain's methods
\* dereferences nil, and nothing recovers.
TakeNullRequest ==
    /\ at[ClientPump] = "selecting"
    /\ ClientConn!Take
    /\ badRequests' = 0
    /\ crashed' = TRUE
    /\ UNCHANGED <<at, toClose, left, ctx, requests, responses, providerVars,
                   tracker, worldVars>>

SendRequest ==
    /\ at[ClientPump] = "handing" /\ requests < ChanCapacity
    /\ requests' = requests + 1
    /\ left' = [left EXCEPT ![ClientPump] = @ - 1]
    /\ GoTo(ClientPump, IF left[ClientPump] = 1 THEN "selecting" ELSE "handing")
    /\ UNCHANGED <<badRequests, ctx, responses, clientVars, providerVars>>
    /\ PumpStep

SendRequestGivesUp ==
    /\ at[ClientPump] = "handing"
    /\ ctx # "live" \/ clientStatus = "ended" \/ providerStatus = "ended"
    /\ GoTo(ClientPump, "gone")
    /\ UNCHANGED <<left, badRequests, ctx, requests, responses, clientVars, providerVars>>
    /\ PumpStep

\* Broken: the write does not wait, and drops what the full queue has no room for.
WriteToClientOrDrop ==
    \/ ClientConn!Write
    \/ (clientStatus = "ended" \/ clientOut = Capacity) /\ UNCHANGED clientVars

WriteToClient == ClientConn!Write \/ (clientStatus = "ended" /\ UNCHANGED clientVars)

WriteRejection ==
    /\ at[ClientPump] = "rejecting"
    /\ WriteToClient
    /\ left' = [left EXCEPT ![ClientPump] = @ - 1]
    /\ GoTo(ClientPump, IF left[ClientPump] = 1 THEN "selecting" ELSE "rejecting")
    /\ UNCHANGED <<badRequests, ctx, requests, responses, providerVars>>
    /\ PumpStep

\* Broken: off by one, a lone response stays where it is.
TakeSecondResponse ==
    /\ at[ClientPump] = "selecting" /\ responses > 1
    /\ responses' = responses - 1
    /\ GoTo(ClientPump, "answering")
    /\ UNCHANGED <<left, badRequests, ctx, requests, clientVars, providerVars>>
    /\ PumpStep

TakeResponse ==
    /\ at[ClientPump] = "selecting" /\ responses > 0
    /\ responses' = responses - 1
    /\ GoTo(ClientPump, "answering")
    /\ UNCHANGED <<left, badRequests, ctx, requests, clientVars, providerVars>>
    /\ PumpStep

WriteResponse ==
    /\ at[ClientPump] \in {"answering", "flushing"}
    /\ WriteToClient
    /\ NextCounted(ClientPump, responses, "answering", "flushing")
    /\ UNCHANGED <<badRequests, ctx, requests, providerVars>>
    /\ PumpStep

-----------------------------------------------------------------------------
\* pumpProvider
ProviderGone ==
    /\ at[ProviderPump] = "selecting" /\ providerStatus = "ended"
    /\ GoTo(ProviderPump, "gone")
    /\ UNCHANGED <<left, badRequests, ctx, requests, responses, clientVars, providerVars>>
    /\ PumpStep

TakeRequest ==
    /\ at[ProviderPump] = "selecting" /\ requests > 0
    /\ requests' = requests - 1
    /\ GoTo(ProviderPump, "asking")
    /\ UNCHANGED <<left, badRequests, ctx, responses, clientVars, providerVars>>
    /\ PumpStep

WriteToProvider == ProviderConn!Write \/ (providerStatus = "ended" /\ UNCHANGED providerVars)

WriteRequest ==
    /\ at[ProviderPump] \in {"asking", "flushing"}
    /\ WriteToProvider
    /\ NextCounted(ProviderPump, requests, "asking", "flushing")
    /\ UNCHANGED <<badRequests, ctx, responses, clientVars>>
    /\ PumpStep

\* An answer for the client, an error of its own or an unsupported method included.
TakeAnswer ==
    /\ at[ProviderPump] = "selecting"
    /\ ProviderConn!Take
    /\ GoTo(ProviderPump, "answering")
    /\ UNCHANGED <<left, badRequests, ctx, requests, responses, clientVars>>
    /\ PumpStep

\* An error that marks the provider unhealthy: the client gets it, and is let go.
TakeFault ==
    /\ at[ProviderPump] = "selecting"
    /\ ProviderConn!Take
    /\ GoTo(ProviderPump, "answering last")
    /\ UNCHANGED <<left, badRequests, ctx, requests, responses, clientVars>>
    /\ PumpStep

TakeBadData ==
    /\ at[ProviderPump] = "selecting"
    /\ ProviderConn!Take
    /\ Cancel
    /\ GoAndClose(ProviderPump, <<"provider", "client">>)
    /\ UNCHANGED <<left, badRequests, requests, responses, clientVars,
                   tracker, worldVars, crashed>>

SendResponse ==
    /\ at[ProviderPump] = "answering" /\ responses < ChanCapacity
    /\ responses' = responses + 1
    /\ GoTo(ProviderPump, "selecting")
    /\ UNCHANGED <<left, badRequests, ctx, requests, clientVars, providerVars>>
    /\ PumpStep

SendResponseGivesUp ==
    /\ at[ProviderPump] = "answering"
    /\ ctx # "live" \/ providerStatus = "ended"
    /\ GoTo(ProviderPump, "gone")
    /\ UNCHANGED <<left, badRequests, ctx, requests, responses, clientVars, providerVars>>
    /\ PumpStep

SendFault ==
    /\ at[ProviderPump] = "answering last"
    /\ \/ responses < ChanCapacity /\ responses' = responses + 1
       \/ (ctx # "live" \/ providerStatus = "ended") /\ UNCHANGED responses
    /\ Cancel
    /\ GoAndClose(ProviderPump, <<"client", "provider">>)
    /\ UNCHANGED <<left, badRequests, requests, clientVars, providerVars,
                   tracker, worldVars, crashed>>

-----------------------------------------------------------------------------
(***************************************************************************)
(* The connections and the two ends.                                       *)
(***************************************************************************)
Holds(p, labels) == IF at[p] \in labels THEN 1 ELSE 0

\* Messages on their way between the two ends.
OnTheWay ==
    BatchSize * clientIn
    + (IF at[ClientPump] \in {"handing", "rejecting"} THEN left[ClientPump] ELSE 0)
    + requests + Holds(ProviderPump, {"asking", "flushing"}) + providerOut + unanswered
    + providerIn + Holds(ProviderPump, {"answering", "answering last"})
    + responses + Holds(ClientPump, {"answering", "flushing"}) + clientOut

World == UNCHANGED <<proxyVars, tracker, crashed>>

ClientSends ==
    /\ clientStatus \in {"open", "closing"}
    /\ sent < MaxMessages /\ OnTheWay + BatchSize <= Window
    /\ sent' = sent + 1
    /\ ClientConn!Arrive
    /\ UNCHANGED <<unanswered, providerVars>> /\ World

ClientReceives ==
    /\ clientStatus \in {"open", "closing"} /\ ClientConn!Transmit
    /\ UNCHANGED <<worldVars, providerVars>> /\ World

ProviderReceives ==
    /\ providerStatus \in {"open", "closing"} /\ ProviderConn!Transmit
    /\ unanswered' = unanswered + 1
    /\ UNCHANGED <<sent, clientVars>> /\ World

ProviderAnswers ==
    /\ unanswered > 0 /\ providerStatus \in {"open", "closing"}
    /\ ProviderConn!Arrive
    /\ unanswered' = unanswered - 1
    /\ UNCHANGED <<sent, clientVars>> /\ World

ProviderPushes ==
    /\ providerStatus \in {"open", "closing"}
    /\ sent < MaxMessages /\ OnTheWay < Window
    /\ ProviderConn!Arrive
    /\ sent' = sent + 1
    /\ UNCHANGED <<unanswered, clientVars>> /\ World

\* A connection that was closed ends; an open one does when its peer fails.
ClientConnEnds ==
    /\ clientStatus # "none" /\ ClientConn!Ends
    /\ UNCHANGED <<worldVars, providerVars>> /\ World

ProviderConnEnds ==
    /\ providerStatus # "none" /\ ProviderConn!Ends
    /\ UNCHANGED <<worldVars, clientVars>> /\ World

\* net/http notices that the client has gone, as long as it owns the connection.
RequestEnds ==
    /\ at[Handler] \in {"dialing", "dialed", "adding", "upgrading"}
    /\ ctx = "live" /\ ctx' = "gone"
    /\ UNCHANGED <<at, toClose, left, badRequests, requests, responses,
                   clientVars, providerVars, tracker, worldVars, crashed>>

-----------------------------------------------------------------------------
\* CloseAll, and the other connections the tracker counts.
CloseAll ==
    /\ ~closing
    /\ closing' = TRUE
    /\ idle' = IF open = 0 THEN idle + 1 ELSE idle
    /\ UNCHANGED <<proxyVars, clientVars, providerVars, counted, open, worldVars, crashed>>

Mine == IF counted /\ at[Handler] # "gone" THEN 1 ELSE 0

OtherOpens ==
    /\ ~closing /\ open < MaxOthers + Mine
    /\ open' = open + 1
    /\ UNCHANGED <<proxyVars, clientVars, providerVars, counted, closing, idle,
                   worldVars, crashed>>

OtherCloses ==
    /\ open > Mine
    /\ Leave
    /\ UNCHANGED <<proxyVars, clientVars, providerVars, worldVars, crashed>>

-----------------------------------------------------------------------------
Closes(a) == CloseClient(a) \/ CloseProvider(a) \/ CloseReturns(a) \/ Panics(a)

HandlerNext ==
    \/ DialFails \/ DialSucceeds \/ CheckClient \/ Add
    \/ UpgradeSucceeds \/ UpgradeFails
    \/ ShutDown \/ ContextEnded \/ ClientEnded \/ ProviderEnded
    \/ Closes(Handler) \/ HandlerReturns

ClientPumpNext ==
    \/ ClientGone \/ AcceptMessage \/ RejectMessage \/ ForgiveBadMessage \/ DropBadClient
    \/ TakeNullRequest \/ SendRequest \/ SendRequestGivesUp
    \/ WriteRejection \/ TakeResponse \/ WriteResponse
    \/ Closes(ClientPump) \/ PumpReturns(ClientPump)

ProviderPumpNext ==
    \/ ProviderGone \/ TakeRequest \/ WriteRequest \/ TakeAnswer \/ TakeFault \/ TakeBadData
    \/ SendResponse \/ SendResponseGivesUp \/ SendFault
    \/ Closes(ProviderPump) \/ PumpReturns(ProviderPump)

WorldNext ==
    \/ ClientSends \/ ClientReceives \/ ProviderReceives \/ ProviderAnswers \/ ProviderPushes
    \/ ClientConnEnds \/ ProviderConnEnds \/ RequestEnds
    \/ CloseAll \/ OtherOpens \/ OtherCloses

Next == ~crashed /\ (HandlerNext \/ PrimaryIsBack \/ ClientPumpNext \/ ProviderPumpNext \/ WorldNext)

Spec == Init /\ [][Next]_vars
(***************************************************************************)
(* Goroutines run, a connection that was closed ends, and one that has     *)
(* not ended carries what is written: Connection promises the last two.    *)
(* The provider answers what it is asked, and the connection of a client   *)
(* that has left ends.  Neither end has to send, fail or leave.            *)
(***************************************************************************)
FairSpec ==
    /\ Spec
    /\ WF_vars(~crashed /\ HandlerNext)
    /\ WF_vars(~crashed /\ ClientPumpNext)
    /\ WF_vars(~crashed /\ ProviderPumpNext)
    /\ WF_vars(~crashed /\ (clientStatus = "closing" \/ ctx = "gone") /\ ClientConnEnds)
    /\ WF_vars(~crashed /\ providerStatus = "closing" /\ ProviderConnEnds)
    /\ WF_vars(~crashed /\ ClientReceives)
    /\ WF_vars(~crashed /\ (ProviderReceives \/ ProviderAnswers))
    /\ WF_vars(~crashed /\ OtherCloses)

-----------------------------------------------------------------------------
Statuses == {"none", "open", "closing", "ended"}
ClosingOrders == {<<>>, <<"client">>, <<"provider">>, <<"client", "provider">>,
                  <<"provider", "client">>}

\* Every variable has its type.
TypeOK ==
    /\ at \in [Actors -> {"none", "dialing", "dialed", "adding", "upgrading", "serving",
                          "selecting", "handing", "rejecting", "asking", "answering",
                          "answering last", "flushing", "closing", "awaiting", "gone"}]
    /\ toClose \in [Actors -> ClosingOrders]
    /\ left \in [Pumps -> Nat]
    /\ badRequests \in 0..MaxBad + 1
    /\ ctx \in {"live", "cancelled", "gone"}
    /\ requests \in 0..ChanCapacity /\ responses \in 0..ChanCapacity
    /\ {clientStatus, providerStatus} \subseteq Statuses
    /\ {clientOut, clientIn, providerOut, providerIn} \subseteq 0..Capacity
    /\ {unanswered, sent, open, idle} \subseteq Nat
    /\ {counted, closing, crashed} \subseteq BOOLEAN

(***************************************************************************)
(* The channel Wait waits for is closed once, and then no handler is       *)
(* between add and done: a connection that comes late is refused.          *)
(***************************************************************************)
WaitIsFinal == idle <= 1 /\ (idle = 1 => closing /\ Mine = 0 /\ open = 0)

\* The client's request ended after the last look at it, and before the upgrade.
LeftUnnoticed == ctx = "gone" /\ clientStatus # "none"

(***************************************************************************)
(* "Wait blocks until every WebSocket connection has closed": none that    *)
(* was counted is still open when it returns, unless its client had left   *)
(* before the upgrade.                                                     *)
(***************************************************************************)
WaitMeansClosed ==
    idle > 0 /\ counted /\ ~LeftUnnoticed =>
        "open" \notin {clientStatus, providerStatus}

\* A shutdown ends: every handler lets go of its connection.
ShutdownEnds == closing ~> (idle = 1 \/ crashed)

Over ==
    \/ crashed
    \/ /\ {clientStatus, providerStatus} \subseteq {"none", "ended"}
       /\ \A p \in Pumps : at[p] \in {"none", "gone"}

BothOpen == clientStatus = "open" /\ providerStatus = "open" /\ ~crashed

(***************************************************************************)
(* The pumps neither invent nor lose a message: while both connections are *)
(* open and nobody has cancelled the proxy, one that the ends sent is      *)
(* somewhere between them until the client has got it or it was a bad one, *)
(* and nothing is there that they did not send.                            *)
(***************************************************************************)
MessagesAreKept == [][
    /\ sent' = sent => OnTheWay' <= OnTheWay
    /\ BothOpen' /\ ctx' = "live" =>
         \/ OnTheWay' >= OnTheWay
         \/ clientOut' < clientOut /\ OnTheWay' + 1 = OnTheWay
         \/ badRequests' > badRequests /\ OnTheWay' + BatchSize = OnTheWay
    ]_vars

\* The client's request ended after the last look at it, and before the upgrade.
Connections == {"client", "provider"}
StatusOf(c) == IF c = "client" THEN clientStatus ELSE providerStatus
HasToClose(a, c) ==
    at[a] \in {"closing", "awaiting"} /\ \E i \in DOMAIN toClose[a] : toClose[a][i] = c

(***************************************************************************)
(* A connection is never left open by everybody: once the handler has      *)
(* returned, a pump that is under way to close it is behind each that is.  *)
(***************************************************************************)
NothingLeftBehind ==
    at[Handler] = "gone" /\ ~LeftUnnoticed =>
        \A c \in Connections :
            StatusOf(c) = "open" => \E p \in Pumps : HasToClose(p, c)

(***************************************************************************)
(* However a handler returns, nothing of its proxy stays: both connections *)
(* end and both pumps return, wherever they were waiting.                  *)
(***************************************************************************)
TornDown == (at[Handler] = "gone" /\ ~LeftUnnoticed) ~> Over

(***************************************************************************)
(* The client gets one response for each request of its batches, as long   *)
(* as both connections last and the provider answers (BatchSplit in        *)
(* ws_test.go).                                                            *)
(***************************************************************************)
Answered == <>[]BothOpen => <>[](OnTheWay = 0)
================================================================================
