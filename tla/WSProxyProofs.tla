--------------------------- MODULE WSProxyProofs ---------------------------
(***************************************************************************)
(* Theorems about WSProxy, for any sizes of channels, queues and batches:  *)
(* its types, a pump that never counts more than its channel holds among   *)
(* them, that Wait is let go once, after the last handler, that no         *)
(* connection is left open by everybody, and that the pumps neither invent *)
(* a message nor lose one.                                                 *)
(***************************************************************************)
EXTENDS WSProxy, TLAPS

LEMMA ActorsDistinct ==
  /\ Handler \in Actors /\ ClientPump \in Actors /\ ProviderPump \in Actors
  /\ ClientPump \in Pumps /\ ProviderPump \in Pumps /\ Pumps \subseteq Actors
  /\ Handler \notin Pumps /\ ClientPump # ProviderPump
  BY DEF Handler, ClientPump, ProviderPump, Pumps, Actors

LEMMA Sizes ==
  /\ ChanCapacity \in Nat \ {0} /\ Capacity \in Nat \ {0} /\ BatchSize \in Nat \ {0}
  /\ MaxBad \in Nat
  BY SizeAssumption

-----------------------------------------------------------------------------
(***************************************************************************)
(* Shutdown.  A handler that is counted has come past tracker.add; those   *)
(* between add and done are among the open ones, and idle is closed with   *)
(* the last of them.                                                       *)
(***************************************************************************)
Dialing == {"dialing", "dialed", "adding"}
Labels == {"none", "dialing", "dialed", "adding", "upgrading", "serving",
           "selecting", "handing", "rejecting", "asking", "answering",
           "answering last", "flushing", "closing", "awaiting", "gone"}

WaitInv ==
    /\ at \in [Actors -> Labels]
    /\ open \in Nat /\ idle \in Nat /\ counted \in BOOLEAN /\ closing \in BOOLEAN
    /\ counted => at[Handler] \notin Dialing
    /\ at[Handler] \in {"upgrading", "serving"} => counted
    /\ Mine =< open
    /\ idle = IF closing /\ open = 0 THEN 1 ELSE 0

\* Where the pumps are is nothing to the tracker.
LEMMA PumpsDoNotCount ==
  ASSUME WaitInv, NEW a \in Pumps, NEW label \in Labels, GoTo(a, label), UNCHANGED tracker
  PROVE  WaitInv'
  BY ActorsDistinct DEF WaitInv, GoTo, Mine, tracker

\* A handler that stays between add and done, or outside, counts as before.
LEMMA HandlerKeepsItsPlace ==
  ASSUME WaitInv, NEW label \in Labels, GoTo(Handler, label), UNCHANGED tracker,
         at[Handler] # "gone", label # "gone" \/ ~counted,
         counted => label \notin Dialing,
         label \in {"upgrading", "serving"} => counted
  PROVE  WaitInv'
  BY ActorsDistinct DEF WaitInv, GoTo, Mine, tracker

LEMMA ClosesWait ==
  ASSUME WaitInv, NEW a \in Actors, Closes(a)
  PROVE  WaitInv'
  <1>0. "awaiting" \in Labels /\ "closing" \in Labels
    BY DEF Labels
  <1>1. UNCHANGED tracker
    BY DEF Closes, CloseClient, CloseProvider, CloseReturns, Panics
  <1>2. \/ UNCHANGED at
        \/ at[a] \in {"closing", "awaiting"}
           /\ \E label \in {"closing", "awaiting"} : GoTo(a, label)
    BY DEF Closes, CloseClient, CloseProvider, CloseReturns, Panics, proxyVars, GoAndClose
  <1>3. CASE UNCHANGED at
    BY <1>1, <1>3 DEF WaitInv, Mine, tracker
  <1>4. CASE at[a] \in {"closing", "awaiting"}
             /\ \E label \in {"closing", "awaiting"} : GoTo(a, label)
    <2>1. CASE a = Handler
      BY <1>0, <1>1, <1>4, <2>1, HandlerKeepsItsPlace DEF Dialing
    <2>2. CASE a \in Pumps
      BY <1>0, <1>1, <1>4, <2>2, PumpsDoNotCount
    <2> QED BY <2>1, <2>2 DEF Actors
  <1> QED BY <1>2, <1>3, <1>4

LEMMA HandlerWait ==
  ASSUME WaitInv, HandlerNext \/ PrimaryIsBack
  PROVE  WaitInv'
  <1>1. CASE DialFails
    BY <1>1, HandlerKeepsItsPlace DEF DialFails, WaitInv, Dialing, Labels
  <1>2. CASE DialSucceeds
    <2>1. at' = [at EXCEPT ![Handler] = "dialed", ![ProviderPump] = "selecting"]
          /\ UNCHANGED tracker /\ at[Handler] = "dialing"
      BY <1>2 DEF DialSucceeds
    <2> QED BY <2>1, ActorsDistinct DEF WaitInv, Mine, tracker, Dialing, Labels
  <1>3. CASE CheckClient
    <2>1. (GoTo(Handler, "closing") \/ GoTo(Handler, "adding"))
          /\ UNCHANGED tracker /\ at[Handler] = "dialed"
      BY <1>3 DEF CheckClient, GoAndClose
    <2> QED BY <2>1, HandlerKeepsItsPlace DEF WaitInv, Dialing, Labels
  <1>4. CASE Add
    <2>1. CASE closing
      BY <1>4, <2>1, HandlerKeepsItsPlace
      DEF Add, GoAndClose, WaitInv, Dialing, Labels, tracker
    <2>2. CASE ~closing
      <3>1. /\ counted' = TRUE /\ open' = open + 1 /\ closing' = closing /\ idle' = idle
            /\ at' = [at EXCEPT ![Handler] = "upgrading"]
            /\ at[Handler] = "adding"
        BY <1>4, <2>2 DEF Add, GoTo
      <3>2. open \in Nat /\ idle = 0
        BY <2>2 DEF WaitInv
      <3>3. at' \in [Actors -> Labels] /\ at'[Handler] = "upgrading"
        BY <3>1, ActorsDistinct DEF WaitInv, Labels
      <3>4. Mine' = 1
        BY <3>1, <3>3 DEF Mine
      <3>5. closing' \in BOOLEAN /\ ~closing'
        BY <2>2, <3>1 DEF WaitInv
      <3> QED BY <3>1, <3>2, <3>3, <3>4, <3>5 DEF WaitInv, Dialing
    <2> QED BY <2>1, <2>2
  <1>5. CASE UpgradeSucceeds
    <2>1. at' = [at EXCEPT ![Handler] = "serving", ![ClientPump] = "selecting"]
          /\ UNCHANGED tracker /\ at[Handler] = "upgrading"
      BY <1>5 DEF UpgradeSucceeds
    <2> QED BY <2>1, ActorsDistinct DEF WaitInv, Mine, tracker, Dialing, Labels
  <1>6. CASE \/ UpgradeFails \/ ShutDown \/ ContextEnded \/ ClientEnded \/ ProviderEnded
             \/ PrimaryIsBack
    <2>1. GoTo(Handler, "closing") /\ UNCHANGED tracker /\ at[Handler] \in {"upgrading", "serving"}
      BY <1>6 DEF UpgradeFails, ShutDown, ContextEnded, ClientEnded, ProviderEnded,
         PrimaryIsBack, GoAndClose
    <2> QED BY <2>1, HandlerKeepsItsPlace DEF Dialing, Labels
  <1>7. CASE HandlerReturns
    <2>1. at[Handler] = "closing" /\ at' = [at EXCEPT ![Handler] = "gone"]
      BY <1>7 DEF HandlerReturns, GoTo
    <2>2. CASE counted
      <3>1. /\ open' = open - 1 /\ closing' = closing /\ counted' = counted
            /\ idle' = IF closing /\ open = 1 THEN idle + 1 ELSE idle
        BY <1>7, <2>2 DEF HandlerReturns, Leave
      <3>2. open \in Nat /\ open >= 1 /\ idle = 0
        BY <2>1, <2>2 DEF WaitInv, Mine
      <3>3. at' \in [Actors -> Labels] /\ at'[Handler] = "gone"
        BY <2>1, ActorsDistinct DEF WaitInv, Labels
      <3>4. Mine' = 0
        BY <3>3 DEF Mine
      <3>5. idle' = IF closing' /\ open' = 0 THEN 1 ELSE 0
        BY <3>1, <3>2
      <3>6. closing' \in BOOLEAN /\ counted' \in BOOLEAN
        BY <3>1 DEF WaitInv
      <3> QED BY <3>1, <3>2, <3>3, <3>4, <3>5, <3>6 DEF WaitInv, Dialing
    <2>3. CASE ~counted
      BY <1>7, <2>1, <2>3, ActorsDistinct
      DEF HandlerReturns, WaitInv, Mine, Dialing, Labels, tracker
    <2> QED BY <2>2, <2>3
  <1> QED BY <1>1, <1>2, <1>3, <1>4, <1>5, <1>6, <1>7, ClosesWait, ActorsDistinct DEF HandlerNext

LEMMA PumpsWait ==
  ASSUME WaitInv, ClientPumpNext \/ ProviderPumpNext
  PROVE  WaitInv'
  <1>1. CASE \E p \in Pumps : Closes(p)
    BY <1>1, ClosesWait, ActorsDistinct
  <1>2. CASE ClientPumpNext /\ ~Closes(ClientPump)
    <2>1. UNCHANGED tracker /\ (UNCHANGED at \/ \E label \in Labels : GoTo(ClientPump, label))
      BY <1>2 DEF ClientPumpNext, ClientGone, AcceptMessage, RejectMessage, ForgiveBadMessage,
         TakeNullRequest, DropBadClient, SendRequest, SendRequestGivesUp, WriteRejection, TakeResponse,
         WriteResponse, PumpReturns, PumpStep, NextCounted, GoAndClose, Labels
    <2> QED BY <2>1, PumpsDoNotCount, ActorsDistinct DEF WaitInv, Mine, tracker
  <1>3. CASE ProviderPumpNext /\ ~Closes(ProviderPump)
    <2>1. UNCHANGED tracker /\ (UNCHANGED at \/ \E label \in Labels : GoTo(ProviderPump, label))
      BY <1>3 DEF ProviderPumpNext, ProviderGone, TakeRequest, WriteRequest, TakeAnswer,
         TakeFault, TakeBadData, SendResponse, SendResponseGivesUp, SendFault,
         PumpReturns, PumpStep, NextCounted, GoAndClose, Labels
    <2> QED BY <2>1, PumpsDoNotCount, ActorsDistinct DEF WaitInv, Mine, tracker
  <1> QED BY <1>1, <1>2, <1>3, ActorsDistinct

LEMMA WorldWait ==
  ASSUME WaitInv, WorldNext
  PROVE  WaitInv'
  <1>1. CASE \/ ClientSends \/ ClientReceives \/ ProviderReceives \/ ProviderAnswers
             \/ ProviderPushes \/ ClientConnEnds \/ ProviderConnEnds \/ RequestEnds
    <2>1. UNCHANGED <<at, tracker>>
      BY <1>1 DEF ClientSends, ClientReceives, ProviderReceives, ProviderAnswers,
         ProviderPushes, ClientConnEnds, ProviderConnEnds, RequestEnds, World, proxyVars
    <2> QED BY <2>1 DEF WaitInv, Mine, tracker
  <1>2. CASE CloseAll
    <2>1. /\ ~closing /\ closing' = TRUE /\ UNCHANGED <<at, counted, open>>
          /\ idle' = IF open = 0 THEN idle + 1 ELSE idle
      BY <1>2 DEF CloseAll, proxyVars
    <2> QED BY <2>1 DEF WaitInv, Mine
  <1>3. CASE OtherOpens
    <2>1. ~closing /\ open' = open + 1 /\ UNCHANGED <<at, counted, closing, idle>>
      BY <1>3 DEF OtherOpens, proxyVars
    <2> QED BY <2>1 DEF WaitInv, Mine
  <1>4. CASE OtherCloses
    <2>1. /\ open > Mine /\ open' = open - 1 /\ UNCHANGED <<at, counted, closing>>
          /\ idle' = IF closing /\ open = 1 THEN idle + 1 ELSE idle
      BY <1>4 DEF OtherCloses, Leave, proxyVars
    <2> QED BY <2>1 DEF WaitInv, Mine
  <1> QED BY <1>1, <1>2, <1>3, <1>4 DEF WorldNext

LEMMA WaitInvariant == Spec => []WaitInv
  <1>1. ASSUME Init PROVE WaitInv
    <2>1. open \in Nat /\ idle = 0 /\ ~counted /\ ~closing
      BY <1>1, SizeAssumption DEF Init
    <2>2. at \in [Actors -> Labels] /\ at[Handler] = "dialing"
      BY <1>1, ActorsDistinct DEF Init, Labels
    <2>3. Mine = 0
      BY <2>1 DEF Mine
    <2>4. counted \in BOOLEAN /\ closing \in BOOLEAN
      BY <1>1 DEF Init
    <2> QED BY <2>1, <2>2, <2>3, <2>4 DEF WaitInv
  <1>2. ASSUME WaitInv, [Next]_vars PROVE WaitInv'
    <2>1. CASE UNCHANGED vars
      BY <1>2, <2>1 DEF vars, proxyVars, tracker, WaitInv, Mine
    <2> QED BY <1>2, <2>1, HandlerWait, PumpsWait, WorldWait DEF Next
  <1> QED BY <1>1, <1>2, PTL DEF Spec

\* WSProxy.WaitIsFinal: Wait is let go once, and then every handler has returned and
\* none can begin.
THEOREM ShutdownWaits == Spec => []WaitIsFinal
  <1>1. WaitInv => WaitIsFinal
    BY DEF WaitInv, WaitIsFinal, Mine
  <1> QED BY <1>1, WaitInvariant, PTL

-----------------------------------------------------------------------------
(***************************************************************************)
(* Types.  An actor that awaits the end of a connection has it still to    *)
(* close (ClosingInv), and a pump that flushes has counted no more than    *)
(* its channel holds: nobody else takes from it (MovingInv).               *)
(***************************************************************************)
ConnInv ==
    /\ badRequests \in 0..MaxBad + 1
    /\ ctx \in {"live", "cancelled", "gone"}
    /\ {clientStatus, providerStatus} \subseteq Statuses
    /\ {clientOut, clientIn, providerOut, providerIn} \subseteq 0..Capacity
    /\ {unanswered, sent} \subseteq Nat
    /\ crashed \in BOOLEAN

ClosingInv ==
    /\ at \in [Actors -> Labels]
    /\ toClose \in [Actors -> ClosingOrders]
    /\ \A a \in Actors : at[a] = "awaiting" => toClose[a] # <<>>

MovingInv ==
    /\ at \in [Actors -> Labels]
    /\ left \in [Pumps -> Nat]
    /\ requests \in 0..ChanCapacity /\ responses \in 0..ChanCapacity
    /\ at[ClientPump] \in {"handing", "rejecting"} => left[ClientPump] > 0
    /\ at[ClientPump] = "flushing" => left[ClientPump] <= responses
    /\ at[ProviderPump] = "flushing" => left[ProviderPump] <= requests

LEMMA ConnStep ==
  ASSUME ConnInv, [Next]_vars
  PROVE  ConnInv'
  <1>1. ASSUME NEW a \in Actors, Closes(a) PROVE ConnInv'
    BY <1>1 DEF ConnInv, Statuses, Closes, CloseClient, CloseProvider, CloseReturns, Panics,
       proxyVars, clientVars, providerVars, worldVars, ClientConn!Close, ProviderConn!Close
  <1>2. CASE (HandlerNext /\ ~Closes(Handler)) \/ PrimaryIsBack
    BY <1>2 DEF ConnInv, Statuses, HandlerNext, DialFails, DialSucceeds, CheckClient, Add,
       UpgradeSucceeds, UpgradeFails, ShutDown, ContextEnded, ClientEnded, ProviderEnded,
       HandlerReturns, PrimaryIsBack, HandlerStep, Cancel, clientVars, providerVars, worldVars
  <1>3. CASE ClientPumpNext /\ ~Closes(ClientPump)
    <2>1. CASE TakeNullRequest
      <3>1. crashed' \in BOOLEAN
        BY <2>1 DEF TakeNullRequest
      <3>2. /\ badRequests' = 0 /\ clientIn > 0 /\ clientIn' = clientIn - 1
            /\ UNCHANGED <<clientStatus, clientOut, providerVars, worldVars, ctx>>
        BY <2>1 DEF TakeNullRequest, ClientConn!Take
      <3> QED BY <3>1, <3>2, Sizes DEF ConnInv, providerVars, worldVars
    <2>2. CASE ~TakeNullRequest
      BY <1>3, <2>2, Sizes DEF ConnInv, ClientPumpNext, ClientGone, AcceptMessage, RejectMessage,
         ForgiveBadMessage, DropBadClient, SendRequest, SendRequestGivesUp, WriteRejection,
         TakeResponse, WriteResponse, WriteToClient, PumpReturns, PumpStep, Cancel,
         clientVars, providerVars, worldVars, ClientConn!Take, ClientConn!Write
    <2> QED BY <2>1, <2>2
  <1>4. CASE ProviderPumpNext /\ ~Closes(ProviderPump)
    <2>1. CASE WriteRequest
      BY <2>1, Sizes DEF ConnInv, WriteRequest, WriteToProvider, PumpStep, clientVars,
         providerVars, worldVars, ProviderConn!Write
    <2>2. CASE TakeAnswer \/ TakeFault \/ TakeBadData
      <3>1. /\ providerIn' = providerIn - 1 /\ providerIn > 0
            /\ UNCHANGED <<badRequests, clientVars, providerStatus, providerOut, worldVars, crashed>>
            /\ ctx' = ctx \/ Cancel
        BY <2>2 DEF TakeAnswer, TakeFault, TakeBadData, PumpStep, ProviderConn!Take
      <3> QED BY <3>1, Sizes DEF ConnInv, Cancel, clientVars, worldVars
    <2>3. CASE \/ ProviderGone \/ TakeRequest \/ SendResponse \/ SendResponseGivesUp
               \/ SendFault \/ PumpReturns(ProviderPump)
      BY <2>3 DEF ConnInv, ProviderGone, TakeRequest, SendResponse, SendResponseGivesUp,
         SendFault, PumpReturns, PumpStep, Cancel, clientVars, providerVars, worldVars
    <2> QED BY <1>4, <2>1, <2>2, <2>3 DEF ProviderPumpNext
  <1>5. CASE WorldNext
    BY <1>5, Sizes DEF ConnInv, Statuses, WorldNext, ClientSends, ClientReceives,
       ProviderReceives, ProviderAnswers, ProviderPushes, ClientConnEnds, ProviderConnEnds,
       RequestEnds, CloseAll, OtherOpens, OtherCloses, World, proxyVars, clientVars,
       providerVars, worldVars, ClientConn!Arrive, ClientConn!Transmit, ClientConn!Ends,
       ProviderConn!Arrive, ProviderConn!Transmit, ProviderConn!Ends
  <1>6. CASE UNCHANGED vars
    BY <1>6 DEF ConnInv, vars, proxyVars, clientVars, providerVars, worldVars
  <1> QED BY <1>1, <1>2, <1>3, <1>4, <1>5, <1>6, ActorsDistinct
      DEF Next, HandlerNext, ClientPumpNext, ProviderPumpNext

LEMMA ShorterOrders ==
  ASSUME NEW order \in ClosingOrders, order # <<>>
  PROVE  Tail(order) \in ClosingOrders
  <1>1. Tail(<<"client">>) = <<>> /\ Tail(<<"provider">>) = <<>>
    OBVIOUS
  <1>2. Tail(<<"client", "provider">>) = <<"provider">>
    OBVIOUS
  <1>3. Tail(<<"provider", "client">>) = <<"client">>
    OBVIOUS
  <1> QED BY <1>1, <1>2, <1>3 DEF ClosingOrders

Orders == /\ <<>> \in ClosingOrders
          /\ <<"client">> \in ClosingOrders /\ <<"provider">> \in ClosingOrders
          /\ <<"client", "provider">> \in ClosingOrders
          /\ <<"provider", "client">> \in ClosingOrders

LEMMA ClosingStep ==
  ASSUME ClosingInv, [Next]_vars
  PROVE  ClosingInv'
  <1>0. Orders
    BY DEF Orders, ClosingOrders
  <1>1. ASSUME NEW a \in Actors, NEW label \in Labels \ {"awaiting"}, GoTo(a, label),
               UNCHANGED toClose
        PROVE  ClosingInv'
    BY <1>1 DEF ClosingInv, GoTo
  <1>2. ASSUME NEW a \in Actors, NEW order \in ClosingOrders, GoAndClose(a, order)
        PROVE  ClosingInv'
    BY <1>2 DEF ClosingInv, GoAndClose, GoTo, Labels
  <1>3. CASE UNCHANGED <<at, toClose>>
    BY <1>3 DEF ClosingInv
  <1>4. ASSUME NEW a \in Actors, Closes(a) PROVE ClosingInv'
    <2>1. CASE CloseClient(a) \/ CloseProvider(a)
      <3>1. toClose[a] \in ClosingOrders /\ toClose[a] # <<>>
        BY <2>1 DEF CloseClient, CloseProvider, ClosingInv
      <3>2. CASE GoTo(a, "awaiting") /\ UNCHANGED toClose
        BY <3>1, <3>2 DEF ClosingInv, GoTo, Labels
      <3>3. CASE UNCHANGED at /\ toClose' = [toClose EXCEPT ![a] = Tail(@)] /\ at[a] = "closing"
        BY <3>1, <3>3, ShorterOrders DEF ClosingInv
      <3> QED BY <2>1, <3>2, <3>3 DEF CloseClient, CloseProvider
    <2>2. CASE CloseReturns(a)
      <3>1. toClose[a] \in ClosingOrders /\ toClose[a] # <<>>
        BY <2>2 DEF CloseReturns, ClosingInv
      <3> QED BY <1>2, <2>2, <3>1, ShorterOrders DEF CloseReturns
    <2>3. CASE Panics(a)
      BY <1>3, <2>3 DEF Panics, proxyVars
    <2> QED BY <1>4, <2>1, <2>2, <2>3 DEF Closes
  <1>5. CASE (HandlerNext /\ ~Closes(Handler)) \/ PrimaryIsBack
    <2>1. CASE DialSucceeds \/ UpgradeSucceeds
      BY <2>1, ActorsDistinct DEF DialSucceeds, UpgradeSucceeds, ClosingInv, Labels
    <2> QED BY <1>0, <1>1, <1>2, <1>5, <2>1, ActorsDistinct
        DEF Orders, HandlerNext, DialFails, CheckClient, Add, UpgradeFails, ShutDown, ContextEnded,
            ClientEnded, ProviderEnded, HandlerReturns, PrimaryIsBack, Labels
  <1>6. CASE (ClientPumpNext \/ ProviderPumpNext) /\ ~\E p \in Pumps : Closes(p)
    <2>1. CASE \/ ClientGone \/ AcceptMessage \/ RejectMessage \/ ForgiveBadMessage
               \/ TakeNullRequest \/ DropBadClient \/ SendRequest \/ SendRequestGivesUp
               \/ WriteRejection
               \/ TakeResponse \/ WriteResponse
      BY <1>0, <1>1, <1>2, <1>3, <2>1, ActorsDistinct
      DEF Orders, ClientGone, AcceptMessage, RejectMessage, ForgiveBadMessage, TakeNullRequest,
          DropBadClient, SendRequest, SendRequestGivesUp, WriteRejection, TakeResponse, WriteResponse,
          NextCounted, PumpStep, Labels
    <2>2. CASE \/ ProviderGone \/ TakeRequest \/ WriteRequest \/ TakeAnswer \/ TakeFault
               \/ TakeBadData \/ SendResponse \/ SendResponseGivesUp \/ SendFault
      BY <1>0, <1>1, <1>2, <2>2, ActorsDistinct
      DEF Orders, ProviderGone, TakeRequest, WriteRequest, TakeAnswer, TakeFault, TakeBadData,
          SendResponse, SendResponseGivesUp, SendFault, NextCounted, PumpStep, Labels
    <2>3. CASE \E p \in Pumps : PumpReturns(p)
      BY <1>1, <2>3, ActorsDistinct DEF PumpReturns, Labels
    <2> QED BY <1>6, <2>1, <2>2, <2>3, ActorsDistinct DEF ClientPumpNext, ProviderPumpNext
  <1>7. CASE WorldNext \/ UNCHANGED vars
    BY <1>3, <1>7 DEF WorldNext, ClientSends, ClientReceives, ProviderReceives, ProviderAnswers,
       ProviderPushes, ClientConnEnds, ProviderConnEnds, RequestEnds, CloseAll, OtherOpens,
       OtherCloses, World, vars, proxyVars
  <1> QED BY <1>4, <1>5, <1>6, <1>7, ActorsDistinct DEF Next

\* A pump moves messages; the other channel it may only fill.
LEMMA ClientPumpMoves ==
  ASSUME MovingInv, NEW label \in Labels, GoTo(ClientPump, label),
         NEW n \in Nat, left' = [left EXCEPT ![ClientPump] = n],
         label \in {"handing", "rejecting"} => n > 0,
         responses' \in 0..ChanCapacity, label = "flushing" => n <= responses',
         requests' \in 0..ChanCapacity, requests <= requests'
  PROVE  MovingInv'
  <1>1. at' \in [Actors -> Labels] /\ left' \in [Pumps -> Nat]
    BY ActorsDistinct DEF MovingInv, GoTo
  <1>2. /\ at'[ClientPump] = label /\ at'[ProviderPump] = at[ProviderPump]
        /\ left'[ClientPump] = n /\ left'[ProviderPump] = left[ProviderPump]
    BY ActorsDistinct DEF MovingInv, GoTo
  <1>3. left[ProviderPump] \in Nat /\ requests \in Nat /\ requests' \in Nat
    BY ActorsDistinct, Sizes DEF MovingInv
  <1> QED BY <1>1, <1>2, <1>3 DEF MovingInv

LEMMA ProviderPumpMoves ==
  ASSUME MovingInv, NEW label \in Labels, GoTo(ProviderPump, label),
         NEW n \in Nat, left' = [left EXCEPT ![ProviderPump] = n],
         requests' \in 0..ChanCapacity, label = "flushing" => n <= requests',
         responses' \in 0..ChanCapacity, responses <= responses'
  PROVE  MovingInv'
  <1>1. at' \in [Actors -> Labels] /\ left' \in [Pumps -> Nat]
    BY ActorsDistinct DEF MovingInv, GoTo
  <1>2. /\ at'[ProviderPump] = label /\ at'[ClientPump] = at[ClientPump]
        /\ left'[ProviderPump] = n /\ left'[ClientPump] = left[ClientPump]
    BY ActorsDistinct DEF MovingInv, GoTo
  <1>3. left[ClientPump] \in Nat /\ responses \in Nat /\ responses' \in Nat
    BY ActorsDistinct, Sizes DEF MovingInv
  <1> QED BY <1>1, <1>2, <1>3 DEF MovingInv

LEMMA MovingStep ==
  ASSUME MovingInv, [Next]_vars
  PROVE  MovingInv'
  <1>0. /\ left \in [Pumps -> Nat] /\ left[ClientPump] \in Nat /\ left[ProviderPump] \in Nat
        /\ requests \in 0..ChanCapacity /\ responses \in 0..ChanCapacity
        /\ ChanCapacity \in Nat /\ BatchSize \in Nat \ {0}
        /\ left = [left EXCEPT ![ClientPump] = left[ClientPump]]
        /\ left = [left EXCEPT ![ProviderPump] = left[ProviderPump]]
        /\ {"selecting", "handing", "rejecting", "asking", "answering", "flushing", "closing"}
              \subseteq Labels
    BY ActorsDistinct, Sizes DEF MovingInv, Labels
  <1>1. ASSUME NEW a \in Actors, NEW label \in {"closing", "awaiting", "gone", "dialing", "dialed",
                 "adding", "upgrading", "serving", "selecting", "asking", "answering", "answering last"},
               GoTo(a, label), UNCHANGED <<left, requests, responses>>
        PROVE  MovingInv'
    BY <1>1, ActorsDistinct DEF MovingInv, GoTo, Labels
  <1>2. CASE UNCHANGED <<at, left, requests, responses>>
    BY <1>2 DEF MovingInv
  <1>3. ASSUME NEW a \in Actors, Closes(a) PROVE MovingInv'
    BY <1>1, <1>2, <1>3 DEF Closes, CloseClient, CloseProvider, CloseReturns, Panics, GoAndClose, proxyVars
  <1>4. CASE (HandlerNext /\ ~Closes(Handler)) \/ PrimaryIsBack
    <2>1. CASE DialSucceeds \/ UpgradeSucceeds
      BY <2>1, ActorsDistinct DEF DialSucceeds, UpgradeSucceeds, HandlerStep, MovingInv, Labels
    <2> QED BY <1>1, <1>4, <2>1, ActorsDistinct
        DEF HandlerNext, DialFails, CheckClient, Add, UpgradeFails, ShutDown, ContextEnded,
            ClientEnded, ProviderEnded, HandlerReturns, PrimaryIsBack, HandlerStep, GoAndClose
  <1>5. CASE \/ ClientGone \/ SendRequestGivesUp \/ DropBadClient \/ ForgiveBadMessage
             \/ TakeNullRequest
    BY <1>1, <1>2, <1>5, ActorsDistinct DEF ClientGone, SendRequestGivesUp, DropBadClient,
       ForgiveBadMessage, TakeNullRequest, GoAndClose
  <1>6. CASE AcceptMessage \/ RejectMessage
    BY <1>0, <1>6, ClientPumpMoves DEF AcceptMessage, RejectMessage
  <1>7. CASE SendRequest \/ WriteRejection
    <2>1. /\ left[ClientPump] > 0 /\ left' = [left EXCEPT ![ClientPump] = left[ClientPump] - 1]
          /\ UNCHANGED responses
          /\ requests' = requests \/ (requests < ChanCapacity /\ requests' = requests + 1)
      BY <1>7 DEF SendRequest, WriteRejection, MovingInv
    <2>2. PICK label \in {"selecting", "handing", "rejecting"} :
            GoTo(ClientPump, label) /\ (label # "selecting" => left[ClientPump] # 1)
      BY <1>7 DEF SendRequest, WriteRejection
    <2>3. left[ClientPump] - 1 \in Nat /\ (label # "selecting" => left[ClientPump] - 1 > 0)
      BY <1>0, <2>1, <2>2
    <2>4. requests' \in 0..ChanCapacity /\ requests <= requests'
      BY <1>0, <2>1
    <2> QED BY <1>0, <2>1, <2>2, <2>3, <2>4, ClientPumpMoves
  <1>8. CASE TakeResponse
    <2>1. /\ GoTo(ClientPump, "answering") /\ UNCHANGED <<left, requests>>
          /\ responses > 0 /\ responses' = responses - 1
      BY <1>8 DEF TakeResponse
    <2> QED BY <1>0, <2>1, ClientPumpMoves
  <1>9. CASE WriteResponse
    <2>1. at[ClientPump] \in {"answering", "flushing"} /\ UNCHANGED requests
      BY <1>9 DEF WriteResponse
    <2>2. PICK n \in Nat :
            /\ n <= responses
            /\ \/ /\ n = 0 /\ GoTo(ClientPump, "selecting")
                  /\ left' = [left EXCEPT ![ClientPump] = 0] /\ responses' = responses
               \/ /\ n # 0 /\ GoTo(ClientPump, "flushing")
                  /\ left' = [left EXCEPT ![ClientPump] = n - 1] /\ responses' = responses - 1
      BY <1>0, <1>9, <2>1 DEF WriteResponse, NextCounted, MovingInv
    <2> QED BY <1>0, <2>1, <2>2, ClientPumpMoves
  <1>10. CASE TakeRequest
    <2>1. /\ GoTo(ProviderPump, "asking") /\ UNCHANGED <<left, responses>>
          /\ requests > 0 /\ requests' = requests - 1
      BY <1>10 DEF TakeRequest
    <2> QED BY <1>0, <2>1, ProviderPumpMoves
  <1>11. CASE WriteRequest
    <2>1. at[ProviderPump] \in {"asking", "flushing"} /\ UNCHANGED responses
      BY <1>11 DEF WriteRequest
    <2>2. PICK n \in Nat :
            /\ n <= requests
            /\ \/ /\ n = 0 /\ GoTo(ProviderPump, "selecting")
                  /\ left' = [left EXCEPT ![ProviderPump] = 0] /\ requests' = requests
               \/ /\ n # 0 /\ GoTo(ProviderPump, "flushing")
                  /\ left' = [left EXCEPT ![ProviderPump] = n - 1] /\ requests' = requests - 1
      BY <1>0, <1>11, <2>1 DEF WriteRequest, NextCounted, MovingInv
    <2> QED BY <1>0, <2>1, <2>2, ProviderPumpMoves
  <1>12. CASE SendResponse \/ SendFault
    <2>1. /\ UNCHANGED <<left, requests>>
          /\ responses' = responses \/ (responses < ChanCapacity /\ responses' = responses + 1)
      BY <1>12 DEF SendResponse, SendFault
    <2>2. GoTo(ProviderPump, "selecting") \/ GoTo(ProviderPump, "closing")
      BY <1>12 DEF SendResponse, SendFault, GoAndClose
    <2>3. responses' \in 0..ChanCapacity /\ responses <= responses'
      BY <1>0, <2>1
    <2> QED BY <1>0, <2>1, <2>2, <2>3, ProviderPumpMoves
  <1>13. CASE ProviderGone \/ TakeAnswer \/ TakeFault \/ TakeBadData \/ SendResponseGivesUp
    BY <1>1, <1>13, ActorsDistinct DEF ProviderGone, TakeAnswer, TakeFault, TakeBadData,
       SendResponseGivesUp, GoAndClose
  <1>14. CASE \E p \in Pumps : PumpReturns(p)
    BY <1>1, <1>14, ActorsDistinct DEF PumpReturns
  <1>15. CASE WorldNext \/ UNCHANGED vars
    BY <1>2, <1>15 DEF WorldNext, ClientSends, ClientReceives, ProviderReceives, ProviderAnswers,
       ProviderPushes, ClientConnEnds, ProviderConnEnds, RequestEnds, CloseAll, OtherOpens,
       OtherCloses, World, vars, proxyVars
  <1> QED BY <1>3, <1>4, <1>5, <1>6, <1>7, <1>8, <1>9, <1>10, <1>13, <1>14, <1>15, <1>11, <1>12,
         ActorsDistinct
      DEF Next, ClientPumpNext, ProviderPumpNext

LEMMA ConnInvariant == Spec => [](ConnInv /\ ClosingInv /\ MovingInv)
  <1>1. Init => ConnInv /\ ClosingInv /\ MovingInv
    <2> SUFFICES ASSUME Init PROVE ConnInv /\ ClosingInv /\ MovingInv
      OBVIOUS
    <2>1. ConnInv
      <3>1. crashed \in BOOLEAN
        BY DEF Init
      <3>2. MaxBad \in Nat /\ Capacity \in Nat
        BY Sizes
      <3> QED BY <3>1, <3>2 DEF Init, ConnInv, Statuses
    <2>2. ClosingInv
      BY DEF Init, ClosingInv, ClosingOrders, Labels
    <2>3. MovingInv
      BY Sizes, ActorsDistinct DEF Init, MovingInv, Labels
    <2> QED BY <2>1, <2>2, <2>3
  <1> QED BY <1>1, ConnStep, ClosingStep, MovingStep, PTL DEF Spec

\* WSProxy.TypeOK: every variable stays in its type.
THEOREM TypeCorrect == Spec => []TypeOK
  <1>1. ConnInv /\ ClosingInv /\ MovingInv /\ WaitInv => TypeOK
    BY DEF ConnInv, ClosingInv, MovingInv, WaitInv, TypeOK, Labels
  <1> QED BY <1>1, ConnInvariant, WaitInvariant, PTL

-----------------------------------------------------------------------------
(***************************************************************************)
(* Tearing down.  Somebody answers for every open connection: the handler, *)
(* as long as it serves a proxy that nobody has cancelled, or an actor     *)
(* that is under way to close it; a pump that cancels the proxy before the *)
(* client is upgraded answers for the client too.                          *)
(***************************************************************************)
Upgrading == {"dialed", "adding", "upgrading"}

DutyInv ==
    /\ \A c \in Connections : StatusOf(c) = "open" =>
          \/ LeftUnnoticed
          \/ ctx # "cancelled" /\ at[Handler] \in Upgrading \union {"serving"}
          \/ \E a \in Actors : HasToClose(a, c)
    /\ ctx = "cancelled" /\ at[Handler] \in Upgrading => \E p \in Pumps : HasToClose(p, "client")
    /\ at[Handler] = "dialing" =>
          ctx # "cancelled" /\ at[ProviderPump] = "none" /\ providerStatus = "none"
    /\ at[Handler] \in Upgrading \union {"dialing"} =>
          clientStatus = "none" /\ at[ClientPump] = "none"
    /\ at[Handler] = "serving" => clientStatus # "none"

Shutting == {"closing", "awaiting"}
Unclosed(c) == StatusOf(c) = "open" \/ (c = "client" /\ clientStatus = "none")

LEMMA TailKeeps ==
  ASSUME NEW order \in ClosingOrders, order # <<>>, NEW c, c # Head(order),
         \E i \in DOMAIN order : order[i] = c
  PROVE  \E i \in DOMAIN Tail(order) : Tail(order)[i] = c
  <1>1. CASE order = <<"client", "provider">>
    <2>1. Tail(order) = <<"provider">> /\ Head(order) = "client" /\ DOMAIN order = 1..2
      BY <1>1
    <2>2. c = "provider"
      BY <1>1, <2>1
    <2> QED BY <2>1, <2>2
  <1>2. CASE order = <<"provider", "client">>
    <2>1. Tail(order) = <<"client">> /\ Head(order) = "provider" /\ DOMAIN order = 1..2
      BY <1>2
    <2>2. c = "client"
      BY <1>2, <2>1
    <2> QED BY <2>1, <2>2
  <1>3. CASE order \in {<<"client">>, <<"provider">>}
    BY <1>3
  <1> QED BY <1>1, <1>2, <1>3 DEF ClosingOrders

(***************************************************************************)
(* A step that opens nothing and leaves ctx and the handler's stage alone, *)
(* and after which whoever had a connection to close has it still, unless  *)
(* it is no longer open.                                                   *)
(***************************************************************************)
LEMMA DutyKept ==
  ASSUME DutyInv, ctx' = ctx,
         at'[Handler] = at[Handler] \/ {at[Handler], at'[Handler]} \subseteq Shutting,
         \A p \in Pumps : at[p] = "none" <=> at'[p] = "none",
         clientStatus = "none" <=> clientStatus' = "none",
         providerStatus = "none" <=> providerStatus' = "none",
         \A c \in Connections : StatusOf(c)' = "open" => StatusOf(c) = "open",
         \A a \in Actors, c \in Connections :
            HasToClose(a, c) /\ Unclosed(c)' => HasToClose(a, c)'
  PROVE  DutyInv'
  <1>1. ASSUME NEW c \in Connections, StatusOf(c)' = "open"
        PROVE  \/ LeftUnnoticed'
               \/ ctx' # "cancelled" /\ at'[Handler] \in Upgrading \union {"serving"}
               \/ \E a \in Actors : HasToClose(a, c)'
    BY <1>1 DEF DutyInv, LeftUnnoticed, Shutting, Upgrading, Unclosed
  <1>2. ctx' = "cancelled" /\ at'[Handler] \in Upgrading =>
          \E p \in Pumps : HasToClose(p, "client")'
    BY ActorsDistinct DEF DutyInv, Shutting, Upgrading, Connections, StatusOf, Unclosed
  <1>3. /\ at'[Handler] = "dialing" =>
             ctx' # "cancelled" /\ at'[ProviderPump] = "none" /\ providerStatus' = "none"
        /\ at'[Handler] \in Upgrading \union {"dialing"} =>
             clientStatus' = "none" /\ at'[ClientPump] = "none"
        /\ at'[Handler] = "serving" => clientStatus' # "none"
    BY ActorsDistinct DEF DutyInv, Shutting, Upgrading
  <1> QED BY <1>1, <1>2, <1>3 DEF DutyInv

LEMMA ClosesDuty ==
  ASSUME ClosingInv, DutyInv, NEW a \in Actors, Closes(a)
  PROVE  DutyInv'
  <1>1. CASE CloseClient(a) /\ clientStatus = "open"
    <2>1. /\ at[a] = "closing" /\ at' = [at EXCEPT ![a] = "awaiting"] /\ UNCHANGED toClose
          /\ clientStatus' = "closing" /\ UNCHANGED <<ctx, providerStatus>>
      BY <1>1 DEF CloseClient, GoTo, ClientConn!Close, providerVars
    <2>2. \A b \in Actors, c \in Connections : HasToClose(b, c) => HasToClose(b, c)'
      BY <2>1 DEF HasToClose, ClosingInv
    <2> QED BY <1>1, <2>1, <2>2, DutyKept DEF ClosingInv, Shutting, StatusOf
  <1>2. CASE CloseProvider(a) /\ providerStatus = "open"
    <2>1. /\ at[a] = "closing" /\ at' = [at EXCEPT ![a] = "awaiting"] /\ UNCHANGED toClose
          /\ providerStatus' = "closing" /\ UNCHANGED <<ctx, clientStatus>>
      BY <1>2 DEF CloseProvider, GoTo, ProviderConn!Close, clientVars
    <2>2. \A b \in Actors, c \in Connections : HasToClose(b, c) => HasToClose(b, c)'
      BY <2>1 DEF HasToClose, ClosingInv
    <2> QED BY <1>2, <2>1, <2>2, DutyKept DEF ClosingInv, Shutting, StatusOf
  <1>3. CASE \/ CloseClient(a) /\ clientStatus # "open"
             \/ CloseProvider(a) /\ providerStatus # "open"
             \/ CloseReturns(a)
    <2>1. /\ UNCHANGED <<ctx, clientStatus, providerStatus>>
          /\ at[a] \in Shutting /\ at' = [at EXCEPT ![a] = "closing"]
          /\ toClose[a] \in ClosingOrders /\ toClose[a] # <<>>
          /\ toClose' = [toClose EXCEPT ![a] = Tail(toClose[a])]
      <3>1. UNCHANGED <<ctx, clientStatus, providerStatus>>
        BY <1>3 DEF CloseClient, CloseProvider, CloseReturns, clientVars, providerVars
      <3>2. at[a] \in Shutting /\ toClose[a] \in ClosingOrders /\ toClose[a] # <<>>
        BY <1>3 DEF CloseClient, CloseProvider, CloseReturns, Shutting, ClosingInv
      <3>3. toClose' = [toClose EXCEPT ![a] = Tail(toClose[a])]
        BY <1>3 DEF CloseClient, CloseProvider, CloseReturns, GoAndClose
      <3>4. at' = [at EXCEPT ![a] = "closing"]
        <4>1. CASE CloseReturns(a)
          BY <4>1 DEF CloseReturns, GoAndClose, GoTo
        <4>2. CASE ~CloseReturns(a)
          BY <1>3, <4>2 DEF CloseClient, CloseProvider, ClosingInv
        <4> QED BY <4>1, <4>2
      <3> QED BY <3>1, <3>2, <3>3, <3>4
    <2>2. \A c \in Connections : c = Head(toClose[a]) => ~Unclosed(c)'
      <3>1. CASE CloseReturns(a)
        BY <3>1, <2>1 DEF CloseReturns, Unclosed, StatusOf, Connections
      <3>2. CASE CloseClient(a) /\ clientStatus # "open"
        BY <3>2, <2>1 DEF CloseClient, Unclosed, StatusOf, Connections
      <3>3. CASE CloseProvider(a) /\ providerStatus # "open"
        BY <3>3, <2>1 DEF CloseProvider, Unclosed, StatusOf, Connections
      <3> QED BY <1>3, <3>1, <3>2, <3>3
    <2>3. ASSUME NEW b \in Actors, NEW c \in Connections, HasToClose(b, c), Unclosed(c)'
          PROVE  HasToClose(b, c)'
      <3>1. CASE b = a
        <4>1. \E i \in DOMAIN Tail(toClose[a]) : Tail(toClose[a])[i] = c
          BY <2>1, <2>2, <2>3, <3>1, TailKeeps DEF HasToClose
        <4>2. at'[a] = "closing" /\ toClose'[a] = Tail(toClose[a])
          BY <2>1 DEF ClosingInv
        <4> QED BY <3>1, <4>1, <4>2 DEF HasToClose
      <3>2. CASE b # a
        BY <2>1, <2>3, <3>2 DEF HasToClose, ClosingInv
      <3> QED BY <3>1, <3>2
    <2> QED BY <2>1, <2>3, DutyKept DEF ClosingInv, Shutting, StatusOf
  <1>4. CASE Panics(a)
    BY <1>4, DutyKept DEF Panics, proxyVars, clientVars, providerVars, StatusOf, HasToClose
  <1> QED BY <1>1, <1>2, <1>3, <1>4 DEF Closes

\* The handler goes on to close the connections that may be open, and is done with the rest.
LEMMA HandlerDuty ==
  ASSUME ConnInv, ClosingInv, DutyInv, HandlerNext \/ PrimaryIsBack, ~Closes(Handler)
  PROVE  DutyInv'
  <1>0. /\ at \in [Actors -> Labels] /\ toClose \in [Actors -> ClosingOrders]
        /\ \A order : HasToClose(Handler, order) => at[Handler] \in Shutting
    BY DEF ClosingInv, HasToClose, Shutting
  <1>1. ASSUME \A p \in Pumps : at'[p] = at[p] /\ toClose'[p] = toClose[p]
        PROVE  \A p \in Pumps, c \in Connections : HasToClose(p, c)' <=> HasToClose(p, c)
    BY <1>1 DEF HasToClose
  <1>2. ASSUME UNCHANGED <<toClose, clientStatus, providerStatus>>,
               NEW label \in {"adding", "upgrading", "gone"}, GoTo(Handler, label),
               \/ /\ at[Handler] \in Upgrading /\ ctx' = ctx /\ label # "gone"
               \/ /\ label = "gone" /\ Cancel
                  /\ \/ at[Handler] = "dialing"
                     \/ at[Handler] = "closing" /\ toClose[Handler] = <<>>
        PROVE  DutyInv'
    <2>1. /\ at'[Handler] = label /\ \A p \in Pumps : at'[p] = at[p]
          /\ \A p \in Pumps, c \in Connections : HasToClose(p, c)' <=> HasToClose(p, c)
          /\ \A c \in Connections : ~HasToClose(Handler, c)
      BY <1>0, <1>1, <1>2, ActorsDistinct DEF GoTo, HasToClose, Upgrading, Shutting
    <2>2. ASSUME NEW c \in Connections, StatusOf(c)' = "open"
          PROVE  \/ LeftUnnoticed'
                 \/ ctx' # "cancelled" /\ at'[Handler] \in Upgrading \union {"serving"}
                 \/ \E a \in Actors : HasToClose(a, c)'
      <3>1. StatusOf(c) = "open"
        BY <1>2, <2>2 DEF StatusOf
      <3>2. CASE \E a \in Actors : HasToClose(a, c)
        BY <2>1, <3>2 DEF Actors
      <3>3. CASE LeftUnnoticed
        BY <1>2, <3>3 DEF LeftUnnoticed, Cancel
      <3>4. CASE ctx # "cancelled" /\ at[Handler] \in Upgrading \union {"serving"}
        BY <1>2, <2>1, <3>4 DEF Upgrading
      <3> QED BY <3>1, <3>2, <3>3, <3>4 DEF DutyInv
    <2>3. ctx' = "cancelled" /\ at'[Handler] \in Upgrading =>
            \E p \in Pumps : HasToClose(p, "client")'
      BY <1>2, <2>1 DEF DutyInv, Upgrading, Connections
    <2>4. /\ at'[Handler] \in Upgrading \union {"dialing"} =>
               clientStatus' = "none" /\ at'[ClientPump] = "none"
          /\ at'[Handler] \notin {"serving", "dialing"}
      BY <1>2, <2>1, ActorsDistinct DEF DutyInv, Upgrading
    <2> QED BY <2>2, <2>3, <2>4 DEF DutyInv
  <1>3. ASSUME NEW order \in ClosingOrders, GoAndClose(Handler, order),
               UNCHANGED <<ctx, clientStatus, providerStatus>>,
               at[Handler] \in Upgrading \union {"serving"},
               \A c \in Connections : StatusOf(c) = "open" =>
                  \/ ctx = "cancelled" \/ LeftUnnoticed
                  \/ \E i \in DOMAIN order : order[i] = c
        PROVE  DutyInv'
    <2>1. /\ at'[Handler] = "closing" /\ \A p \in Pumps : at'[p] = at[p]
          /\ \A p \in Pumps, c \in Connections : HasToClose(p, c)' <=> HasToClose(p, c)
          /\ \A c \in Connections : ~HasToClose(Handler, c)
          /\ \A c \in Connections : (\E i \in DOMAIN order : order[i] = c) => HasToClose(Handler, c)'
      BY <1>0, <1>1, <1>3, ActorsDistinct DEF GoAndClose, GoTo, HasToClose, Upgrading, Shutting
    <2>2. ASSUME NEW c \in Connections, StatusOf(c)' = "open"
          PROVE  LeftUnnoticed' \/ \E a \in Actors : HasToClose(a, c)'
      <3>1. StatusOf(c) = "open"
        BY <1>3, <2>2 DEF StatusOf
      <3>2. CASE \E a \in Actors : HasToClose(a, c)
        BY <2>1, <3>2 DEF Actors
      <3>3. CASE LeftUnnoticed
        BY <1>3, <3>3 DEF LeftUnnoticed
      <3>4. CASE \E i \in DOMAIN order : order[i] = c
        BY <2>1, <3>4, ActorsDistinct
      <3> QED BY <1>3, <3>1, <3>2, <3>3, <3>4 DEF DutyInv
    <2> QED BY <2>1, <2>2 DEF DutyInv, Upgrading
  <1>4. CASE DialFails
    BY <1>2, <1>4 DEF DialFails, clientVars, providerVars
  <1>5. CASE DialSucceeds
    <2>1. /\ at[Handler] = "dialing" /\ ctx' = ctx /\ ctx # "cancelled"
          /\ at' = [at EXCEPT ![Handler] = "dialed", ![ProviderPump] = "selecting"]
          /\ clientStatus' = clientStatus /\ clientStatus = "none" /\ at[ClientPump] = "none"
      BY <1>5 DEF DialSucceeds, DutyInv, clientVars
    <2>2. at'[Handler] = "dialed" /\ at'[ClientPump] = "none"
      BY <1>0, <2>1, ActorsDistinct
    <2> QED BY <2>1, <2>2 DEF DutyInv, Upgrading
  <1>6. CASE CheckClient
    <2>1. at[Handler] = "dialed" /\ UNCHANGED <<ctx, clientStatus, providerStatus>>
          /\ clientStatus = "none"
      BY <1>6 DEF CheckClient, clientVars, providerVars, DutyInv, Upgrading
    <2>2. CASE GoTo(Handler, "adding") /\ UNCHANGED toClose
      BY <1>2, <2>1, <2>2 DEF Upgrading
    <2>3. CASE GoAndClose(Handler, <<"provider">>)
      BY <1>3, <2>1, <2>3 DEF Upgrading, ClosingOrders, StatusOf, Connections
    <2> QED BY <1>6, <2>2, <2>3 DEF CheckClient
  <1>7. CASE Add
    <2>1. at[Handler] = "adding" /\ UNCHANGED <<ctx, clientStatus, providerStatus>>
          /\ clientStatus = "none"
      BY <1>7 DEF Add, clientVars, providerVars, DutyInv, Upgrading
    <2>2. CASE GoTo(Handler, "upgrading") /\ UNCHANGED toClose
      BY <1>2, <2>1, <2>2 DEF Upgrading
    <2>3. CASE GoAndClose(Handler, <<"provider">>)
      BY <1>3, <2>1, <2>3 DEF Upgrading, ClosingOrders, StatusOf, Connections
    <2> QED BY <1>7, <2>2, <2>3 DEF Add
  <1>8. CASE UpgradeSucceeds
    <2>1. /\ at[Handler] = "upgrading" /\ UNCHANGED <<ctx, toClose, providerStatus>>
          /\ at' = [at EXCEPT ![Handler] = "serving", ![ClientPump] = "selecting"]
          /\ clientStatus' = "open" /\ clientStatus = "none" /\ at[ClientPump] = "none"
      BY <1>8 DEF UpgradeSucceeds, providerVars, DutyInv, Upgrading
    <2>2. at'[Handler] = "serving"
      BY <1>0, <2>1, ActorsDistinct
    <2>3. \A a \in Actors, c \in Connections : HasToClose(a, c) => HasToClose(a, c)'
      BY <1>0, <2>1, ActorsDistinct DEF HasToClose, Shutting
    <2>4. ASSUME NEW c \in Connections, StatusOf(c)' = "open"
          PROVE  \/ LeftUnnoticed'
                 \/ ctx' # "cancelled" /\ at'[Handler] \in Upgrading \union {"serving"}
                 \/ \E a \in Actors : HasToClose(a, c)'
      <3>1. CASE ctx # "cancelled"
        BY <2>1, <2>2, <3>1
      <3>2. CASE ctx = "cancelled" /\ c = "client"
        BY <2>1, <2>3, <3>2, ActorsDistinct DEF DutyInv, Upgrading, Connections
      <3>3. CASE ctx = "cancelled" /\ c # "client"
        <4>1. StatusOf(c) = "open"
          BY <2>1, <2>4, <3>3 DEF StatusOf
        <4> QED BY <2>1, <2>3, <3>3, <4>1 DEF DutyInv, LeftUnnoticed
      <3> QED BY <3>1, <3>2, <3>3
    <2> QED BY <2>1, <2>2, <2>4 DEF DutyInv, Upgrading
  <1>9. CASE UpgradeFails
    BY <1>3, <1>9 DEF UpgradeFails, clientVars, providerVars, Upgrading, ClosingOrders, StatusOf,
       Connections, DutyInv
  <1>10. CASE PrimaryIsBack \/ ShutDown
    BY <1>3, <1>10 DEF PrimaryIsBack, ShutDown, clientVars, providerVars, Upgrading,
       ClosingOrders, StatusOf, Connections
  <1>11. CASE ContextEnded \/ ClientEnded \/ ProviderEnded
    <2>1. at[Handler] = "serving" /\ UNCHANGED <<ctx, clientStatus, providerStatus>>
          /\ clientStatus # "none"
      BY <1>11 DEF ContextEnded, ClientEnded, ProviderEnded, clientVars, providerVars, DutyInv
    <2>2. CASE ContextEnded
      <3>1. ctx = "cancelled" \/ LeftUnnoticed
        BY <2>1, <2>2 DEF ContextEnded, LeftUnnoticed, ConnInv
      <3> QED BY <1>3, <2>1, <2>2, <3>1 DEF ContextEnded, ClosingOrders
    <2>3. CASE ClientEnded
      BY <1>3, <2>1, <2>3 DEF ClientEnded, ClosingOrders, StatusOf, Connections
    <2>4. CASE ProviderEnded
      BY <1>3, <2>1, <2>4 DEF ProviderEnded, ClosingOrders, StatusOf, Connections
    <2> QED BY <1>11, <2>2, <2>3, <2>4
  <1>12. CASE HandlerReturns
    BY <1>2, <1>12 DEF HandlerReturns, clientVars, providerVars
  <1> QED BY <1>4, <1>5, <1>6, <1>7, <1>8, <1>9, <1>10, <1>11, <1>12 DEF HandlerNext

\* A pump that does not cancel has nothing to close; one that does closes both.
LEMMA PumpDuty ==
  ASSUME ClosingInv, DutyInv, ClientPumpNext \/ ProviderPumpNext
  PROVE  DutyInv'
  <1>0. at \in [Actors -> Labels] /\ toClose \in [Actors -> ClosingOrders]
    BY DEF ClosingInv
  <1>1. ASSUME NEW p \in Pumps, NEW label \in Labels \ {"none"}, GoTo(p, label),
               at[p] # "none", at[p] \notin Shutting \/ toClose[p] = <<>>,
               UNCHANGED <<ctx, toClose, clientStatus, providerStatus>>
        PROVE  DutyInv'
    <2>1. \A a \in Actors, c \in Connections : HasToClose(a, c) => HasToClose(a, c)'
      BY <1>0, <1>1, ActorsDistinct DEF GoTo, HasToClose, Shutting
    <2>2. at'[Handler] = at[Handler] /\ \A q \in Pumps : at[q] = "none" <=> at'[q] = "none"
      BY <1>0, <1>1, ActorsDistinct DEF GoTo
    <2> QED BY <1>1, <2>1, <2>2, DutyKept DEF StatusOf
  <1>2. ASSUME NEW p \in Pumps, NEW order \in {<<"client", "provider">>, <<"provider", "client">>},
               GoAndClose(p, order), at[p] # "none",
               Cancel, UNCHANGED <<clientStatus, providerStatus>>
        PROVE  DutyInv'
    <2>1. /\ at'[Handler] = at[Handler] /\ \A q \in Pumps : q # p => at'[q] = at[q]
          /\ at'[p] = "closing" /\ toClose'[p] = order
      BY <1>0, <1>2, ActorsDistinct DEF GoAndClose, GoTo
    <2>2. \A c \in Connections : \E i \in DOMAIN order : order[i] = c
      BY <1>2 DEF Connections
    <2>3. \A c \in Connections : HasToClose(p, c)'
      BY <2>1, <2>2 DEF HasToClose
    <2>4. /\ p = ProviderPump => at[Handler] # "dialing"
          /\ p = ClientPump => at[Handler] \notin Upgrading \union {"dialing"}
      BY <1>2 DEF DutyInv
    <2> QED BY <1>2, <2>1, <2>3, <2>4, ActorsDistinct
        DEF DutyInv, Connections, Upgrading, Cancel, Pumps
  <1>3. CASE \E p \in Pumps : Closes(p)
    BY <1>3, ClosesDuty, ActorsDistinct
  <1>4. CASE DropBadClient \/ TakeBadData \/ SendFault
    BY <1>2, <1>4, ActorsDistinct DEF DropBadClient, TakeBadData, SendFault,
       ClientConn!Take, ProviderConn!Take, clientVars, providerVars
  <1>5. CASE ForgiveBadMessage \/ TakeNullRequest
    BY <1>5, DutyKept DEF ForgiveBadMessage, TakeNullRequest, ClientConn!Take, providerVars,
       StatusOf, HasToClose, PumpStep
  <1>6. CASE \/ ClientGone \/ AcceptMessage \/ RejectMessage \/ SendRequest \/ SendRequestGivesUp
             \/ WriteRejection \/ TakeResponse \/ WriteResponse \/ PumpReturns(ClientPump)
    <2>1. /\ UNCHANGED <<ctx, toClose, clientStatus, providerStatus>>
          /\ \E label \in Labels \ {"none"} : GoTo(ClientPump, label)
          /\ at[ClientPump] # "none" /\ (at[ClientPump] \in Shutting => toClose[ClientPump] = <<>>)
      BY <1>6 DEF ClientGone, AcceptMessage, RejectMessage, SendRequest, SendRequestGivesUp,
         WriteRejection, TakeResponse, WriteResponse, WriteToClient, PumpReturns, PumpStep,
         NextCounted, ClientConn!Take, ClientConn!Write, clientVars, providerVars, Shutting, Labels
    <2> QED BY <1>1, <2>1, ActorsDistinct
  <1>7. CASE \/ ProviderGone \/ TakeRequest \/ WriteRequest \/ TakeAnswer \/ TakeFault
             \/ SendResponse \/ SendResponseGivesUp \/ PumpReturns(ProviderPump)
    <2>1. /\ UNCHANGED <<ctx, toClose, clientStatus, providerStatus>>
          /\ \E label \in Labels \ {"none"} : GoTo(ProviderPump, label)
          /\ at[ProviderPump] # "none"
          /\ (at[ProviderPump] \in Shutting => toClose[ProviderPump] = <<>>)
      BY <1>7 DEF ProviderGone, TakeRequest, WriteRequest, WriteToProvider, TakeAnswer, TakeFault,
         SendResponse, SendResponseGivesUp, PumpReturns, PumpStep, NextCounted,
         ProviderConn!Take, ProviderConn!Write, clientVars, providerVars, Shutting, Labels
    <2> QED BY <1>1, <2>1, ActorsDistinct
  <1> QED BY <1>3, <1>4, <1>5, <1>6, <1>7, ActorsDistinct DEF ClientPumpNext, ProviderPumpNext

LEMMA WorldDuty ==
  ASSUME ConnInv, ClosingInv, DutyInv, WorldNext
  PROVE  DutyInv'
  <1>1. CASE RequestEnds
    <2>1. /\ at[Handler] \in Upgrading \union {"dialing"} /\ ctx = "live" /\ ctx' = "gone"
          /\ UNCHANGED <<at, toClose, clientStatus, providerStatus>>
      BY <1>1 DEF RequestEnds, Upgrading, clientVars, providerVars
    <2>2. /\ clientStatus = "none" /\ at[ClientPump] = "none"
          /\ at[Handler] = "dialing" => at[ProviderPump] = "none" /\ providerStatus = "none"
      BY <2>1 DEF DutyInv
    <2>3. \A c \in Connections : StatusOf(c)' = "open" => at'[Handler] \in Upgrading
      BY <2>1, <2>2 DEF StatusOf
    <2> QED BY <2>1, <2>2, <2>3 DEF DutyInv, Upgrading
  <1>2. CASE ~RequestEnds
    <2>1. /\ UNCHANGED <<at, toClose, ctx>>
          /\ clientStatus' = clientStatus \/ (clientStatus # "none" /\ clientStatus' = "ended")
          /\ providerStatus' = providerStatus \/ (providerStatus # "none" /\ providerStatus' = "ended")
      BY <1>2 DEF WorldNext, ClientSends, ClientReceives, ProviderReceives, ProviderAnswers,
         ProviderPushes, ClientConnEnds, ProviderConnEnds, CloseAll, OtherOpens, OtherCloses,
         World, proxyVars, clientVars, providerVars, ClientConn!Arrive, ClientConn!Transmit,
         ClientConn!Ends, ProviderConn!Arrive, ProviderConn!Transmit, ProviderConn!Ends
    <2>2. \A a \in Actors, c \in Connections : HasToClose(a, c) => HasToClose(a, c)'
      BY <2>1 DEF HasToClose
    <2> QED BY <2>1, <2>2, DutyKept DEF StatusOf
  <1> QED BY <1>1, <1>2

LEMMA DutyInvariant == Spec => []DutyInv
  <1>1. Init => DutyInv
    BY ActorsDistinct DEF Init, DutyInv, StatusOf, Upgrading, Connections
  <1>2. ASSUME ConnInv, ClosingInv, DutyInv, [Next]_vars PROVE DutyInv'
    <2>1. CASE UNCHANGED vars
      BY <1>2, <2>1, DutyKept DEF vars, proxyVars, clientVars, providerVars, StatusOf, HasToClose
    <2>2. CASE Closes(Handler)
      BY <1>2, <2>2, ClosesDuty, ActorsDistinct
    <2> QED BY <1>2, <2>1, <2>2, HandlerDuty, PumpDuty, WorldDuty DEF Next
  <1> QED BY <1>1, <1>2, ConnInvariant, PTL DEF Spec

\* WSProxy.NothingLeftBehind: when the handler has returned, a pump answers for what is open.
THEOREM NobodyLeavesItOpen == Spec => []NothingLeftBehind
  <1>1. DutyInv => NothingLeftBehind
    <2> SUFFICES ASSUME DutyInv, at[Handler] = "gone", ~LeftUnnoticed, NEW c \in Connections,
                        StatusOf(c) = "open"
        PROVE  \E p \in Pumps : HasToClose(p, c)
      BY DEF NothingLeftBehind
    <2>1. PICK a \in Actors : HasToClose(a, c)
      BY DEF DutyInv, Upgrading
    <2> QED BY <2>1 DEF HasToClose, Actors
  <1> QED BY <1>1, DutyInvariant, PTL

-----------------------------------------------------------------------------
(***************************************************************************)
(* Messages.  OnTheWay is a sum over the places a message may be in; every *)
(* step of a pump takes it out of one and puts it into the next.           *)
(***************************************************************************)
InBatches == BatchSize * clientIn
InClientPump == IF at[ClientPump] \in {"handing", "rejecting"} THEN left[ClientPump] ELSE 0
Answered1 == Holds(ClientPump, {"answering", "flushing"})
Asked1 == Holds(ProviderPump, {"asking", "flushing"})
Replied1 == Holds(ProviderPump, {"answering", "answering last"})

LEMMA Places ==
  ASSUME ConnInv, MovingInv
  PROVE  /\ OnTheWay = InBatches + InClientPump + requests + Asked1 + providerOut + unanswered
                       + providerIn + Replied1 + responses + Answered1 + clientOut
         /\ InBatches \in Nat /\ InClientPump \in Nat /\ requests \in Nat /\ Asked1 \in Nat
         /\ providerOut \in Nat /\ unanswered \in Nat /\ providerIn \in Nat /\ Replied1 \in Nat
         /\ responses \in Nat /\ Answered1 \in Nat /\ clientOut \in Nat
  <1>1. OnTheWay = InBatches + InClientPump + requests + Asked1 + providerOut + unanswered
                   + providerIn + Replied1 + responses + Answered1 + clientOut
    BY DEF OnTheWay, InBatches, InClientPump, Asked1, Replied1, Answered1
  <1>2. {clientIn, clientOut, providerIn, providerOut, unanswered} \subseteq Nat
    BY Sizes DEF ConnInv
  <1>3. InBatches \in Nat
    BY <1>2, Sizes DEF InBatches
  <1>4. InClientPump \in Nat /\ requests \in Nat /\ responses \in Nat
    BY ActorsDistinct, Sizes DEF MovingInv, InClientPump
  <1>5. Asked1 \in Nat /\ Replied1 \in Nat /\ Answered1 \in Nat
    BY DEF Asked1, Replied1, Answered1, Holds
  <1> QED BY <1>1, <1>2, <1>3, <1>4, <1>5

LEMMA BatchCounts ==
  ASSUME NEW n \in Nat
  PROVE  /\ BatchSize * (n + 1) = BatchSize * n + BatchSize
         /\ n > 0 => BatchSize * n = BatchSize * (n - 1) + BatchSize
  BY Sizes

\* Where a pump counts for nothing it may go where it counts for nothing.
Idle == Labels \ {"handing", "rejecting", "asking", "answering", "answering last", "flushing"}

LEMMA SamePlaces ==
  ASSUME UNCHANGED <<requests, responses, unanswered, clientIn, clientOut, providerIn, providerOut,
                     left>>,
         \A p \in Pumps : at'[p] = at[p] \/ {at[p], at'[p]} \subseteq Idle
  PROVE  OnTheWay' = OnTheWay
  <1>1. InClientPump' = InClientPump /\ Answered1' = Answered1
    <2>1. at'[ClientPump] = at[ClientPump] \/ {at[ClientPump], at'[ClientPump]} \subseteq Idle
      BY ActorsDistinct
    <2> QED BY <2>1 DEF InClientPump, Answered1, Holds, Idle
  <1>2. Asked1' = Asked1 /\ Replied1' = Replied1
    <2>1. at'[ProviderPump] = at[ProviderPump] \/ {at[ProviderPump], at'[ProviderPump]} \subseteq Idle
      BY ActorsDistinct
    <2> QED BY <2>1 DEF Asked1, Replied1, Holds, Idle
  <1> QED BY <1>1, <1>2 DEF OnTheWay, InClientPump, Answered1, Asked1, Replied1

\* The step of MessagesAreKept.
Kept ==
    /\ sent' = sent => OnTheWay' <= OnTheWay
    /\ BothOpen' /\ ctx' = "live" =>
         \/ OnTheWay' >= OnTheWay
         \/ clientOut' < clientOut /\ OnTheWay' + 1 = OnTheWay
         \/ badRequests' > badRequests /\ OnTheWay' + BatchSize = OnTheWay

LEMMA StaysKept ==
  ASSUME ConnInv, MovingInv, OnTheWay' = OnTheWay
  PROVE  Kept
  <1>1. OnTheWay \in Nat
    BY Places
  <1> QED BY <1>1 DEF Kept

LEMMA OthersKeep ==
  ASSUME ConnInv, ClosingInv, MovingInv, DutyInv,
         \/ HandlerNext \/ PrimaryIsBack \/ UNCHANGED vars
         \/ \E p \in Pumps : Closes(p) \/ PumpReturns(p)
         \/ ClientConnEnds \/ ProviderConnEnds \/ RequestEnds
         \/ CloseAll \/ OtherOpens \/ OtherCloses
  PROVE  Kept
  <1>0. at \in [Actors -> Labels]
    BY DEF ClosingInv
  <1>1. UNCHANGED <<requests, responses, unanswered, clientIn, clientOut, providerIn, providerOut, left>>
    <2>1. ASSUME NEW a \in Actors, Closes(a)
          PROVE  UNCHANGED <<requests, responses, unanswered, clientIn, clientOut, providerIn,
                             providerOut, left>>
      BY <2>1 DEF Closes, CloseClient, CloseProvider, CloseReturns, Panics, proxyVars, clientVars,
         providerVars, worldVars, ClientConn!Close, ProviderConn!Close
    <2>2. CASE HandlerNext \/ PrimaryIsBack
      BY <2>1, <2>2, ActorsDistinct DEF HandlerNext, DialFails, DialSucceeds, CheckClient, Add,
         UpgradeSucceeds, UpgradeFails, ShutDown, ContextEnded, ClientEnded, ProviderEnded,
         HandlerReturns, PrimaryIsBack, HandlerStep, clientVars, providerVars, worldVars
    <2>3. CASE \/ \E p \in Pumps : PumpReturns(p)
               \/ ClientConnEnds \/ ProviderConnEnds \/ RequestEnds
               \/ CloseAll \/ OtherOpens \/ OtherCloses \/ UNCHANGED vars
      BY <2>3 DEF PumpReturns, ClientConnEnds, ProviderConnEnds, RequestEnds, CloseAll,
         OtherOpens, OtherCloses, World, vars, proxyVars, clientVars, providerVars, worldVars,
         ClientConn!Ends, ProviderConn!Ends
    <2> QED BY <2>1, <2>2, <2>3, ActorsDistinct
  <1>2. \A p \in Pumps : at'[p] = at[p] \/ {at[p], at'[p]} \subseteq Idle
    <2>1. ASSUME NEW a \in Actors, Closes(a) PROVE \A p \in Pumps : at'[p] = at[p] \/ {at[p], at'[p]} \subseteq Idle
      <3>1. at' = at \/ (at[a] \in Shutting /\ \E label \in Shutting : GoTo(a, label))
        BY <2>1 DEF Closes, CloseClient, CloseProvider, CloseReturns, Panics, proxyVars,
           GoAndClose, Shutting
      <3>2. Shutting \subseteq Idle /\ Pumps \subseteq Actors
        BY ActorsDistinct DEF Shutting, Idle, Labels
      <3> QED BY <1>0, <3>1, <3>2 DEF GoTo
    <2>2. CASE DialSucceeds \/ UpgradeSucceeds
      <3>1. "none" \in Idle /\ "selecting" \in Idle
        BY DEF Idle, Labels
      <3>2. CASE DialSucceeds
        BY <1>0, <3>1, <3>2, ActorsDistinct DEF DialSucceeds, DutyInv
      <3>3. CASE UpgradeSucceeds
        BY <1>0, <3>1, <3>3, ActorsDistinct DEF UpgradeSucceeds, DutyInv, Upgrading
      <3> QED BY <2>2, <3>2, <3>3
    <2>3. CASE (HandlerNext \/ PrimaryIsBack) /\ ~Closes(Handler) /\ ~(DialSucceeds \/ UpgradeSucceeds)
      BY <1>0, <2>3, ActorsDistinct DEF HandlerNext, DialFails, CheckClient, Add,
         UpgradeFails, ShutDown, ContextEnded, ClientEnded, ProviderEnded,
         HandlerReturns, PrimaryIsBack, GoAndClose, GoTo
    <2>4. CASE \E p \in Pumps : PumpReturns(p)
      <3>1. "closing" \in Idle /\ "gone" \in Idle
        BY DEF Idle, Labels
      <3> QED BY <1>0, <2>4, <3>1, ActorsDistinct DEF PumpReturns, GoTo
    <2>5. CASE \/ ClientConnEnds \/ ProviderConnEnds \/ RequestEnds
               \/ CloseAll \/ OtherOpens \/ OtherCloses \/ UNCHANGED vars
      BY <2>5 DEF ClientConnEnds, ProviderConnEnds, RequestEnds, CloseAll,
         OtherOpens, OtherCloses, World, vars, proxyVars
    <2> QED BY <2>1, <2>2, <2>3, <2>4, <2>5, ActorsDistinct DEF HandlerNext
  <1> QED BY <1>1, <1>2, SamePlaces, StaysKept

\* What the places of the two pumps hold, told from where the pumps are.
LEMMA PumpPlaces ==
  /\ at[ClientPump] \in {"handing", "rejecting"} => InClientPump = left[ClientPump]
  /\ at[ClientPump] \notin {"handing", "rejecting"} => InClientPump = 0
  /\ at[ClientPump] \in {"answering", "flushing"} => Answered1 = 1
  /\ at[ClientPump] \notin {"answering", "flushing"} => Answered1 = 0
  /\ at[ProviderPump] \in {"asking", "flushing"} => Asked1 = 1
  /\ at[ProviderPump] \notin {"asking", "flushing"} => Asked1 = 0
  /\ at[ProviderPump] \in {"answering", "answering last"} => Replied1 = 1
  /\ at[ProviderPump] \notin {"answering", "answering last"} => Replied1 = 0
  BY DEF InClientPump, Answered1, Asked1, Replied1, Holds

LEMMA PumpPlacesAfter ==
  /\ at'[ClientPump] \in {"handing", "rejecting"} => InClientPump' = left'[ClientPump]
  /\ at'[ClientPump] \notin {"handing", "rejecting"} => InClientPump' = 0
  /\ at'[ClientPump] \in {"answering", "flushing"} => Answered1' = 1
  /\ at'[ClientPump] \notin {"answering", "flushing"} => Answered1' = 0
  /\ at'[ProviderPump] \in {"asking", "flushing"} => Asked1' = 1
  /\ at'[ProviderPump] \notin {"asking", "flushing"} => Asked1' = 0
  /\ at'[ProviderPump] \in {"answering", "answering last"} => Replied1' = 1
  /\ at'[ProviderPump] \notin {"answering", "answering last"} => Replied1' = 0
  /\ at'[ClientPump] = at[ClientPump] /\ left'[ClientPump] = left[ClientPump] =>
       InClientPump' = InClientPump /\ Answered1' = Answered1
  /\ at'[ProviderPump] = at[ProviderPump] => Asked1' = Asked1 /\ Replied1' = Replied1
  /\ clientIn' = clientIn => InBatches' = InBatches
  BY DEF InClientPump, Answered1, Asked1, Replied1, Holds, InBatches

LEMMA PlacesAfter ==
  OnTheWay' = InBatches' + InClientPump' + requests' + Asked1' + providerOut' + unanswered'
              + providerIn' + Replied1' + responses' + Answered1' + clientOut'
  BY DEF OnTheWay, InBatches, InClientPump, Asked1, Replied1, Answered1

LEMMA ClientPumpKeeps ==
  ASSUME ConnInv, MovingInv,
         \/ ClientGone \/ AcceptMessage \/ RejectMessage \/ ForgiveBadMessage \/ DropBadClient
         \/ TakeNullRequest \/ SendRequest \/ SendRequestGivesUp \/ WriteRejection \/ TakeResponse \/ WriteResponse
  PROVE  Kept
  <1>0. left \in [Pumps -> Nat] /\ left[ClientPump] \in Nat /\ at \in [Actors -> Labels]
    BY ActorsDistinct DEF MovingInv
  <1>1. /\ BatchSize \in Nat /\ clientIn \in Nat /\ badRequests \in Nat
        /\ requests \in Nat /\ responses \in Nat /\ clientOut \in Nat
    BY Sizes DEF ConnInv, MovingInv
  <1>3. ASSUME ClientConn!Take
        PROVE  InBatches' = InBatches - BatchSize /\ UNCHANGED <<clientOut, clientStatus>>
    <2>1. clientIn > 0 /\ clientIn' = clientIn - 1 /\ UNCHANGED <<clientOut, clientStatus>>
      BY <1>3 DEF ClientConn!Take
    <2>2. BatchSize * clientIn = BatchSize * (clientIn - 1) + BatchSize
      BY <1>1, <2>1, BatchCounts
    <2>3. BatchSize * (clientIn - 1) = BatchSize * clientIn - BatchSize
      BY <1>1, <2>1, <2>2
    <2> QED BY <2>1, <2>3 DEF InBatches
  <1>4. CASE ClientGone
    <2>1. /\ at'[ClientPump] = "gone" /\ at'[ProviderPump] = at[ProviderPump]
          /\ UNCHANGED <<left, clientIn, clientOut, requests, responses, providerOut, providerIn,
                         unanswered>>
          /\ at[ClientPump] = "selecting"
      BY <1>0, <1>4, ActorsDistinct DEF ClientGone, GoTo, PumpStep, clientVars, providerVars, worldVars
    <2>2. /\ InClientPump' = InClientPump /\ Answered1' = Answered1 /\ InBatches' = InBatches
          /\ Asked1' = Asked1 /\ Replied1' = Replied1
      BY <1>1, <2>1, PumpPlaces, PumpPlacesAfter
    <2>3. OnTheWay' = OnTheWay
      BY <2>1, <2>2, Places, PlacesAfter
    <2> QED BY <2>3, StaysKept
  <1>5. CASE AcceptMessage \/ RejectMessage
    <2>1. /\ left'[ClientPump] = BatchSize
          /\ at'[ClientPump] \in {"handing", "rejecting"} /\ at'[ProviderPump] = at[ProviderPump]
          /\ UNCHANGED <<requests, responses, providerOut, providerIn, unanswered>>
          /\ at[ClientPump] = "selecting" /\ ClientConn!Take
      BY <1>0, <1>5, ActorsDistinct DEF AcceptMessage, GoTo, RejectMessage, PumpStep, providerVars, worldVars
    <2>2. /\ InClientPump = 0 /\ InClientPump' = BatchSize /\ Answered1' = Answered1
          /\ Asked1' = Asked1 /\ Replied1' = Replied1
      BY <1>1, <2>1, PumpPlaces, PumpPlacesAfter
    <2>3. OnTheWay' = OnTheWay
      BY <1>1, <1>3, <2>1, <2>2, Places, PlacesAfter
    <2> QED BY <2>3, StaysKept
  <1>6. CASE ForgiveBadMessage
    <2>1. /\ UNCHANGED <<at, left, requests, responses, providerOut, providerIn, unanswered>>
          /\ ClientConn!Take /\ badRequests' = badRequests + 1
      BY <1>6 DEF ForgiveBadMessage, PumpStep, providerVars, worldVars
    <2>2. /\ InClientPump' = InClientPump /\ Answered1' = Answered1
          /\ Asked1' = Asked1 /\ Replied1' = Replied1
      BY <2>1, PumpPlacesAfter
    <2>3. OnTheWay' + BatchSize = OnTheWay /\ OnTheWay' <= OnTheWay
      BY <1>1, <1>3, <2>1, <2>2, Places, PlacesAfter
    <2>4. badRequests' > badRequests
      BY <1>1, <2>1
    <2> QED BY <2>3, <2>4 DEF Kept
  <1>14. CASE TakeNullRequest
    <2>1. /\ UNCHANGED <<at, left, requests, responses, providerOut, providerIn, unanswered>>
          /\ ClientConn!Take /\ crashed' = TRUE
      BY <1>14 DEF TakeNullRequest, providerVars, worldVars
    <2>2. /\ InClientPump' = InClientPump /\ Answered1' = Answered1
          /\ Asked1' = Asked1 /\ Replied1' = Replied1
      BY <2>1, PumpPlacesAfter
    <2>3. OnTheWay' <= OnTheWay
      BY <1>1, <1>3, <2>1, <2>2, Places, PlacesAfter
    <2> QED BY <2>1, <2>3 DEF Kept, BothOpen
  <1>7. CASE DropBadClient
    <2>1. /\ UNCHANGED <<left, requests, responses, providerOut, providerIn, unanswered>>
          /\ ClientConn!Take /\ ctx' # "live" /\ at'[ClientPump] = "closing" /\ at'[ProviderPump] = at[ProviderPump]
          /\ at[ClientPump] = "selecting"
      BY <1>0, <1>7, ActorsDistinct DEF DropBadClient, GoTo, GoAndClose, Cancel, providerVars, worldVars
    <2>2. /\ InClientPump' = InClientPump /\ Answered1' = Answered1
          /\ Asked1' = Asked1 /\ Replied1' = Replied1
      BY <1>1, <2>1, PumpPlaces, PumpPlacesAfter
    <2>3. OnTheWay' <= OnTheWay
      BY <1>1, <1>3, <2>1, <2>2, Places, PlacesAfter
    <2> QED BY <2>1, <2>3 DEF Kept
  <1>8. CASE SendRequest
    <2>1. /\ at[ClientPump] = "handing" /\ requests' = requests + 1
          /\ left[ClientPump] > 0 /\ left'[ClientPump] = left[ClientPump] - 1
          /\ at'[ClientPump] = (IF left[ClientPump] = 1 THEN "selecting" ELSE "handing")
          /\ at'[ProviderPump] = at[ProviderPump]
          /\ UNCHANGED <<responses, clientIn, clientOut, providerOut, providerIn, unanswered>>
      BY <1>0, <1>8, ActorsDistinct DEF SendRequest, GoTo, MovingInv, PumpStep, clientVars, providerVars, worldVars
    <2>2. /\ Answered1' = Answered1 /\ InBatches' = InBatches
          /\ Asked1' = Asked1 /\ Replied1' = Replied1
          /\ InClientPump = left[ClientPump]
          /\ InClientPump' = IF left[ClientPump] = 1 THEN 0 ELSE left'[ClientPump]
      BY <2>1, PumpPlaces, PumpPlacesAfter
    <2>3. InClientPump' = InClientPump - 1
      BY <1>0, <2>1, <2>2
    <2>4. OnTheWay' = OnTheWay
      BY <1>1, <2>1, <2>2, <2>3, Places, PlacesAfter
    <2> QED BY <2>4, StaysKept
  <1>9. CASE SendRequestGivesUp
    <2>1. /\ at[ClientPump] = "handing" /\ at'[ClientPump] = "gone" /\ at'[ProviderPump] = at[ProviderPump]
          /\ ctx # "live" \/ clientStatus = "ended" \/ providerStatus = "ended"
          /\ UNCHANGED <<left, ctx, clientStatus, providerStatus, requests, responses, clientIn,
                         clientOut, providerOut, providerIn, unanswered>>
      BY <1>0, <1>9, ActorsDistinct DEF SendRequestGivesUp, GoTo, PumpStep, clientVars, providerVars, worldVars
    <2>2. /\ InClientPump' = 0 /\ Answered1' = Answered1 /\ InBatches' = InBatches
          /\ Asked1' = Asked1 /\ Replied1' = Replied1
      BY <1>1, <2>1, PumpPlaces, PumpPlacesAfter
    <2>3. OnTheWay' <= OnTheWay
      BY <1>1, <2>1, <2>2, Places, PlacesAfter
    <2> QED BY <2>1, <2>3 DEF Kept, BothOpen
  <1>10. CASE WriteRejection
    <2>1. /\ at[ClientPump] = "rejecting"
          /\ left[ClientPump] > 0 /\ left'[ClientPump] = left[ClientPump] - 1
          /\ at'[ClientPump] = (IF left[ClientPump] = 1 THEN "selecting" ELSE "rejecting")
          /\ at'[ProviderPump] = at[ProviderPump]
          /\ UNCHANGED <<requests, responses, clientIn, providerOut, providerIn, unanswered>>
          /\ clientOut' = clientOut + 1 \/ (clientStatus' = "ended" /\ clientOut' = clientOut)
      BY <1>0, <1>10, ActorsDistinct DEF WriteRejection, GoTo, WriteToClient, ClientConn!Write, MovingInv,
         PumpStep, clientVars, providerVars, worldVars
    <2>2. /\ Answered1' = Answered1 /\ InBatches' = InBatches
          /\ Asked1' = Asked1 /\ Replied1' = Replied1
          /\ InClientPump = left[ClientPump]
          /\ InClientPump' = IF left[ClientPump] = 1 THEN 0 ELSE left'[ClientPump]
      BY <2>1, PumpPlaces, PumpPlacesAfter
    <2>3. InClientPump' = InClientPump - 1
      BY <1>0, <2>1, <2>2
    <2>4. OnTheWay' <= OnTheWay
      BY <1>1, <2>1, <2>2, <2>3, Places, PlacesAfter
    <2>5. clientStatus' # "ended" => OnTheWay' >= OnTheWay
      BY <1>1, <2>1, <2>2, <2>3, Places, PlacesAfter
    <2> QED BY <2>4, <2>5 DEF Kept, BothOpen
  <1>11. CASE TakeResponse
    <2>1. /\ at[ClientPump] = "selecting" /\ responses' = responses - 1 /\ responses > 0
          /\ at'[ClientPump] = "answering" /\ at'[ProviderPump] = at[ProviderPump]
          /\ UNCHANGED <<left, requests, clientIn, clientOut, providerOut, providerIn, unanswered>>
      BY <1>0, <1>11, ActorsDistinct DEF TakeResponse, GoTo, PumpStep, clientVars, providerVars, worldVars
    <2>2. /\ InClientPump' = InClientPump /\ Answered1 = 0 /\ Answered1' = 1 /\ InBatches' = InBatches
          /\ Asked1' = Asked1 /\ Replied1' = Replied1
      BY <1>1, <2>1, PumpPlaces, PumpPlacesAfter
    <2>3. OnTheWay' = OnTheWay
      BY <1>1, <2>1, <2>2, Places, PlacesAfter
    <2> QED BY <2>3, StaysKept
  <1>12. CASE WriteResponse
    <2>1. /\ at[ClientPump] \in {"answering", "flushing"}
          /\ UNCHANGED <<requests, clientIn, providerOut, providerIn, unanswered>>
          /\ at'[ProviderPump] = at[ProviderPump]
          /\ clientOut' = clientOut + 1 \/ (clientStatus' = "ended" /\ clientOut' = clientOut)
      BY <1>0, <1>12, ActorsDistinct DEF WriteResponse, NextCounted, GoTo, WriteToClient, ClientConn!Write, PumpStep, clientVars,
         providerVars, worldVars
    <2>2. \/ at'[ClientPump] = "selecting" /\ responses' = responses
          \/ at'[ClientPump] = "flushing" /\ responses > 0 /\ responses' = responses - 1
      BY ActorsDistinct, <1>0, <1>12, <2>1 DEF WriteResponse, NextCounted, GoTo, MovingInv
    <2>3. /\ InClientPump' = InClientPump /\ Asked1' = Asked1 /\ Replied1' = Replied1
          /\ InBatches' = InBatches
          /\ \/ Answered1 = 1 /\ Answered1' = 0 /\ responses' = responses
             \/ Answered1 = 1 /\ Answered1' = 1 /\ responses' = responses - 1
      BY <1>1, <2>1, <2>2, PumpPlaces, PumpPlacesAfter
    <2>4. OnTheWay' <= OnTheWay
      BY <1>1, <2>1, <2>3, Places, PlacesAfter, SMTT(60)
    <2>5. clientStatus' # "ended" => OnTheWay' >= OnTheWay
      BY <1>1, <2>1, <2>3, Places, PlacesAfter
    <2> QED BY <2>4, <2>5 DEF Kept, BothOpen
  <1> QED BY <1>4, <1>5, <1>6, <1>7, <1>8, <1>9, <1>10, <1>11, <1>12, <1>14

LEMMA ProviderPumpKeeps ==
  ASSUME ConnInv, MovingInv,
         \/ ProviderGone \/ TakeRequest \/ WriteRequest \/ TakeAnswer \/ TakeFault \/ TakeBadData
         \/ SendResponse \/ SendResponseGivesUp \/ SendFault
  PROVE  Kept
  <1>0. left \in [Pumps -> Nat] /\ left[ProviderPump] \in Nat /\ at \in [Actors -> Labels]
    BY ActorsDistinct DEF MovingInv
  <1>1. requests \in Nat /\ responses \in Nat /\ providerOut \in Nat /\ providerIn \in Nat
    BY Sizes DEF ConnInv, MovingInv
  <1>2. ASSUME at'[ClientPump] = at[ClientPump], left'[ClientPump] = left[ClientPump],
               clientIn' = clientIn
        PROVE  InClientPump' = InClientPump /\ Answered1' = Answered1 /\ InBatches' = InBatches
    BY <1>2, PumpPlacesAfter
  <1>3. CASE ProviderGone
    <2>1. /\ at'[ProviderPump] = "gone" /\ at'[ClientPump] = at[ClientPump]
          /\ at[ProviderPump] = "selecting"
          /\ UNCHANGED <<left, clientIn, clientOut, requests, responses, providerOut, providerIn,
                         unanswered>>
      BY <1>0, <1>3, ActorsDistinct DEF ProviderGone, GoTo, PumpStep, clientVars, providerVars, worldVars
    <2>2. Asked1 = 0 /\ Asked1' = 0 /\ Replied1 = 0 /\ Replied1' = 0
      BY <2>1, PumpPlaces, PumpPlacesAfter
    <2>3. OnTheWay' = OnTheWay
      BY <1>2, <2>1, <2>2, Places, PlacesAfter
    <2> QED BY <2>3, StaysKept
  <1>4. CASE TakeRequest
    <2>1. /\ at'[ProviderPump] = "asking" /\ at'[ClientPump] = at[ClientPump]
          /\ at[ProviderPump] = "selecting" /\ requests' = requests - 1
          /\ UNCHANGED <<left, clientIn, clientOut, responses, providerOut, providerIn, unanswered>>
      BY <1>0, <1>4, ActorsDistinct DEF TakeRequest, GoTo, PumpStep, clientVars, providerVars, worldVars
    <2>2. Asked1 = 0 /\ Asked1' = 1 /\ Replied1 = 0 /\ Replied1' = 0
      BY <2>1, PumpPlaces, PumpPlacesAfter
    <2>3. OnTheWay' = OnTheWay
      BY <1>1, <1>2, <2>1, <2>2, Places, PlacesAfter
    <2> QED BY <2>3, StaysKept
  <1>5. CASE WriteRequest
    <2>1. /\ at[ProviderPump] \in {"asking", "flushing"} /\ at'[ClientPump] = at[ClientPump]
          /\ left'[ClientPump] = left[ClientPump]
          /\ UNCHANGED <<clientIn, clientOut, responses, providerIn, unanswered>>
          /\ \/ providerOut' = providerOut + 1
             \/ providerStatus' = "ended" /\ providerOut' = providerOut
      BY <1>0, <1>5, ActorsDistinct DEF WriteRequest, NextCounted, GoTo, WriteToProvider,
         ProviderConn!Write, PumpStep, clientVars, providerVars, worldVars
    <2>2. \/ at'[ProviderPump] = "selecting" /\ requests' = requests
          \/ at'[ProviderPump] = "flushing" /\ requests' = requests - 1
      BY <1>0, <1>5, ActorsDistinct DEF WriteRequest, NextCounted, GoTo
    <2>3. /\ Asked1 = 1 /\ Replied1 = 0 /\ Replied1' = 0
          /\ \/ Asked1' = 0 /\ requests' = requests
             \/ Asked1' = 1 /\ requests' = requests - 1
      BY <2>1, <2>2, PumpPlaces, PumpPlacesAfter
    <2>4. OnTheWay' <= OnTheWay
      BY <1>1, <1>2, <2>1, <2>3, Places, PlacesAfter
    <2>5. providerStatus' # "ended" => OnTheWay' >= OnTheWay
      BY <1>1, <1>2, <2>1, <2>3, Places, PlacesAfter
    <2> QED BY <2>4, <2>5 DEF Kept, BothOpen
  <1>6. CASE TakeAnswer \/ TakeFault
    <2>1. /\ at'[ProviderPump] \in {"answering", "answering last"} /\ at'[ClientPump] = at[ClientPump]
          /\ at[ProviderPump] = "selecting" /\ providerIn' = providerIn - 1
          /\ UNCHANGED <<left, clientIn, clientOut, requests, responses, providerOut, unanswered>>
      BY <1>0, <1>6, ActorsDistinct DEF TakeAnswer, TakeFault, GoTo, ProviderConn!Take, PumpStep,
         clientVars, worldVars
    <2>2. Asked1 = 0 /\ Asked1' = 0 /\ Replied1 = 0 /\ Replied1' = 1
      BY <2>1, PumpPlaces, PumpPlacesAfter
    <2>3. InClientPump' = InClientPump /\ Answered1' = Answered1 /\ InBatches' = InBatches
      BY <1>2, <2>1
    <2>4. /\ providerIn' = providerIn - 1
          /\ UNCHANGED <<clientOut, requests, responses, providerOut, unanswered>>
      BY <2>1
    <2>5. OnTheWay' = OnTheWay
      BY <1>1, <2>2, <2>3, <2>4, Places, PlacesAfter
    <2> QED BY <2>5, StaysKept
  <1>7. CASE TakeBadData
    <2>1. /\ at'[ProviderPump] = "closing" /\ at'[ClientPump] = at[ClientPump]
          /\ at[ProviderPump] = "selecting" /\ providerIn' = providerIn - 1 /\ ctx' # "live"
          /\ UNCHANGED <<left, clientIn, clientOut, requests, responses, providerOut, unanswered>>
      BY <1>0, <1>7, ActorsDistinct DEF TakeBadData, GoAndClose, GoTo, Cancel, ProviderConn!Take,
         clientVars, worldVars
    <2>2. Asked1 = 0 /\ Asked1' = 0 /\ Replied1 = 0 /\ Replied1' = 0
      BY <2>1, PumpPlaces, PumpPlacesAfter
    <2>3. OnTheWay' <= OnTheWay
      BY <1>1, <1>2, <2>1, <2>2, Places, PlacesAfter
    <2> QED BY <2>1, <2>3 DEF Kept
  <1>8. CASE SendResponse
    <2>1. /\ at'[ProviderPump] = "selecting" /\ at'[ClientPump] = at[ClientPump]
          /\ at[ProviderPump] = "answering" /\ responses' = responses + 1
          /\ UNCHANGED <<left, clientIn, clientOut, requests, providerOut, providerIn, unanswered>>
      BY <1>0, <1>8, ActorsDistinct DEF SendResponse, GoTo, PumpStep, clientVars, providerVars, worldVars
    <2>2. Asked1 = 0 /\ Asked1' = 0 /\ Replied1 = 1 /\ Replied1' = 0
      BY <2>1, PumpPlaces, PumpPlacesAfter
    <2>3. OnTheWay' = OnTheWay
      BY <1>1, <1>2, <2>1, <2>2, Places, PlacesAfter
    <2> QED BY <2>3, StaysKept
  <1>9. CASE SendResponseGivesUp
    <2>1. /\ at'[ProviderPump] = "gone" /\ at'[ClientPump] = at[ClientPump]
          /\ at[ProviderPump] = "answering"
          /\ ctx' # "live" \/ providerStatus' = "ended"
          /\ UNCHANGED <<left, clientIn, clientOut, requests, responses, providerOut, providerIn,
                         unanswered>>
      BY <1>0, <1>9, ActorsDistinct DEF SendResponseGivesUp, GoTo, PumpStep, clientVars,
         providerVars, worldVars
    <2>2. Asked1 = 0 /\ Asked1' = 0 /\ Replied1 = 1 /\ Replied1' = 0
      BY <2>1, PumpPlaces, PumpPlacesAfter
    <2>3. OnTheWay' <= OnTheWay
      BY <1>1, <1>2, <2>1, <2>2, Places, PlacesAfter
    <2> QED BY <2>1, <2>3 DEF Kept, BothOpen
  <1>10. CASE SendFault
    <2>1. /\ at'[ProviderPump] = "closing" /\ at'[ClientPump] = at[ClientPump] /\ ctx' # "live"
          /\ at[ProviderPump] = "answering last"
          /\ responses' = responses + 1 \/ responses' = responses
          /\ UNCHANGED <<left, clientIn, clientOut, requests, providerOut, providerIn, unanswered>>
      BY <1>0, <1>10, ActorsDistinct DEF SendFault, GoAndClose, GoTo, Cancel, clientVars,
         providerVars, worldVars
    <2>2. Asked1 = 0 /\ Asked1' = 0 /\ Replied1 = 1 /\ Replied1' = 0
      BY <2>1, PumpPlaces, PumpPlacesAfter
    <2>3. InClientPump' = InClientPump /\ Answered1' = Answered1 /\ InBatches' = InBatches
      BY <1>2, <2>1
    <2>4. UNCHANGED <<clientOut, requests, providerOut, providerIn, unanswered>>
      BY <2>1
    <2>5. ASSUME responses' = responses + 1 PROVE OnTheWay' <= OnTheWay
      BY <1>1, <2>2, <2>3, <2>4, <2>5, Places, PlacesAfter
    <2>6. ASSUME responses' = responses PROVE OnTheWay' <= OnTheWay
      BY <1>1, <2>2, <2>3, <2>4, <2>6, Places, PlacesAfter
    <2> QED BY <2>1, <2>5, <2>6 DEF Kept
  <1> QED BY <1>3, <1>4, <1>5, <1>6, <1>7, <1>8, <1>9, <1>10

\* The ends of the two connections: what one sends is new, what the other gets leaves.
LEMMA EndsKeep ==
  ASSUME ConnInv, MovingInv,
         \/ ClientSends \/ ClientReceives \/ ProviderReceives \/ ProviderAnswers \/ ProviderPushes
  PROVE  Kept
  <1>0. /\ requests \in Nat /\ responses \in Nat /\ clientIn \in Nat /\ clientOut \in Nat
        /\ providerOut \in Nat /\ providerIn \in Nat /\ unanswered \in Nat /\ sent \in Nat
        /\ BatchSize \in Nat
    BY Sizes DEF ConnInv, MovingInv
  <1>1. /\ at'[ClientPump] = at[ClientPump] /\ at'[ProviderPump] = at[ProviderPump]
        /\ left'[ClientPump] = left[ClientPump] /\ UNCHANGED <<requests, responses, badRequests, ctx>>
    BY DEF ClientSends, ClientReceives, ProviderReceives, ProviderAnswers, ProviderPushes, World,
       proxyVars
  <1>2. /\ InClientPump' = InClientPump /\ Answered1' = Answered1
        /\ Asked1' = Asked1 /\ Replied1' = Replied1
    BY <1>1, PumpPlacesAfter
  <1>3. clientIn' = clientIn => InBatches' = InBatches
    BY PumpPlacesAfter
  <1>4. CASE ClientSends
    <2>1. /\ sent' = sent + 1 /\ clientIn' = clientIn + 1
          /\ UNCHANGED <<clientOut, unanswered, providerOut, providerIn>>
      BY <1>4 DEF ClientSends, ClientConn!Arrive, providerVars
    <2>2. InBatches' = InBatches + BatchSize
      BY <1>0, <2>1, BatchCounts DEF InBatches
    <2>3. OnTheWay' >= OnTheWay
      BY <1>0, <1>1, <1>2, <2>1, <2>2, Places, PlacesAfter
    <2>4. sent' # sent
      BY <1>0, <2>1
    <2> QED BY <2>3, <2>4 DEF Kept
  <1>5. CASE ClientReceives
    <2>1. /\ clientOut > 0 /\ clientOut' = clientOut - 1
          /\ UNCHANGED <<clientIn, unanswered, providerOut, providerIn>>
      BY <1>5 DEF ClientReceives, ClientConn!Transmit, providerVars, worldVars
    <2>2. OnTheWay' = OnTheWay - 1 /\ OnTheWay \in Nat
      BY <1>0, <1>1, <1>2, <1>3, <2>1, Places, PlacesAfter
    <2>3. clientOut' < clientOut
      BY <1>0, <2>1
    <2>4. OnTheWay' <= OnTheWay /\ OnTheWay' + 1 = OnTheWay
      BY <2>2
    <2> QED BY <2>3, <2>4 DEF Kept
  <1>6. CASE ProviderReceives
    <2>1. /\ providerOut' = providerOut - 1 /\ unanswered' = unanswered + 1
          /\ UNCHANGED <<clientIn, clientOut, providerIn>>
      BY <1>6 DEF ProviderReceives, ProviderConn!Transmit, clientVars
    <2>2. OnTheWay' = OnTheWay
      BY <1>0, <1>1, <1>2, <1>3, <2>1, Places, PlacesAfter
    <2> QED BY <2>2, StaysKept
  <1>7. CASE ProviderAnswers
    <2>1. /\ providerIn' = providerIn + 1 /\ unanswered' = unanswered - 1
          /\ UNCHANGED <<clientIn, clientOut, providerOut>>
      BY <1>7 DEF ProviderAnswers, ProviderConn!Arrive, clientVars
    <2>2. OnTheWay' = OnTheWay
      BY <1>0, <1>1, <1>2, <1>3, <2>1, Places, PlacesAfter
    <2> QED BY <2>2, StaysKept
  <1>8. CASE ProviderPushes
    <2>1. /\ sent' = sent + 1 /\ providerIn' = providerIn + 1
          /\ UNCHANGED <<clientIn, clientOut, unanswered, providerOut>>
      BY <1>8 DEF ProviderPushes, ProviderConn!Arrive, clientVars
    <2>2. OnTheWay' >= OnTheWay
      BY <1>0, <1>1, <1>2, <1>3, <2>1, Places, PlacesAfter
    <2>3. sent' # sent
      BY <1>0, <2>1
    <2> QED BY <2>2, <2>3 DEF Kept
  <1> QED BY <1>4, <1>5, <1>6, <1>7, <1>8

\* WSProxy.MessagesAreKept: the pumps neither invent a message nor lose one.
THEOREM NothingInventedOrLost == Spec => MessagesAreKept
  <1>1. ASSUME ConnInv, ClosingInv, MovingInv, DutyInv, [Next]_vars PROVE Kept
    <2>1. CASE ClientPumpNext
      BY <1>1, <2>1, ClientPumpKeeps, OthersKeep DEF ClientPumpNext, Pumps
    <2>2. CASE ProviderPumpNext
      BY <1>1, <2>2, ProviderPumpKeeps, OthersKeep DEF ProviderPumpNext, Pumps
    <2>3. CASE WorldNext
      BY <1>1, <2>3, EndsKeep, OthersKeep DEF WorldNext
    <2>4. CASE HandlerNext \/ PrimaryIsBack \/ UNCHANGED vars
      BY <1>1, <2>4, OthersKeep
    <2> QED BY <1>1, <2>1, <2>2, <2>3, <2>4 DEF Next
  <1>2. ConnInv /\ ClosingInv /\ MovingInv /\ DutyInv /\ [Next]_vars => [Kept]_vars
    BY <1>1
  <1>3. Spec => [][Kept]_vars
    BY <1>2, ConnInvariant, DutyInvariant, PTL DEF Spec
  <1> QED BY <1>3 DEF MessagesAreKept, Kept
=============================================================================
