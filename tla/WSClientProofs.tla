----------------------------- MODULE WSClientProofs -----------------------------
(***************************************************************************)
(* Proofs about WSClient, for any number of callers and any capacity.      *)
(***************************************************************************)
EXTENDS WSClient, TLAPS

USE DEF queues, pumps

\* While writePump flushes it has counted messages, otherwise none.
FlushInv ==
    /\ toFlush <= send
    /\ writer = "flushing" => toFlush > 0
    /\ writer \notin {"flushing", "rewriting"} => toFlush = 0

(***************************************************************************)
(* As long as the peer is well, only a close frame that was handed over    *)
(* ends anything: the context, the writer, and the socket after them.      *)
(***************************************************************************)
FrameInv ==
    /\ closeFrames <= 1
    /\ writer # "gone" => closeFrames = 0
    /\ peer = "up" =>
         /\ writer = "gone" => closeFrames = 1
         /\ ~socketOpen => writer = "gone"
         /\ done => writer \in {"closing", "gone"}
         /\ reader = "failed" => writer = "gone"
    /\ \A c \in Callers : caller[c] = "cancelling" => done \/ writer \in {"closing", "gone"}

IInv == TypeOK /\ FlushInv /\ FrameInv

LEMMA InitInv == Init => IInv
<1>1. 0 \in 0..Capacity
  BY CapacityAssumption
<1>2. Init => TypeOK
  <2> SUFFICES ASSUME Init PROVE TypeOK
    OBVIOUS
  <2>1. {done, closed, socketOpen} \subseteq BOOLEAN
    BY Zenon DEF Init
  <2>2. closeFrames \in Nat /\ {send, recv, toFlush} \subseteq 0..Capacity
    BY <1>1 DEF Init
  <2>3. /\ caller \in [Callers -> {"idle", "writing", "handing", "cancelling"}]
        /\ reader = "reading" /\ writer = "waiting" /\ peer = "up"
    BY DEF Init
  <2> QED BY <2>1, <2>2, <2>3 DEF TypeOK
<1>3. Init => FlushInv
  BY DEF Init, FlushInv
<1>4. Init => FrameInv
  BY DEF Init, FrameInv
<1> QED BY <1>2, <1>3, <1>4 DEF IInv

LEMMA CallInv ==
  ASSUME IInv, NEW c \in Callers, Call(c)
  PROVE  IInv'
<1> USE CapacityAssumption DEF IInv, TypeOK, FlushInv, FrameInv
<1>1. CASE CallWrite(c)     BY <1>1 DEF CallWrite
<1>2. CASE CallClose(c)     BY <1>2 DEF CallClose
<1>3. CASE Enqueue(c)       BY <1>3 DEF Enqueue
<1>4. CASE WriteDropped(c)  BY <1>4 DEF WriteDropped
<1>5. CASE HandFrame(c)     BY <1>5 DEF HandFrame
<1>6. CASE CloseGivesUp(c)  BY <1>6 DEF CloseGivesUp
<1>7. CASE Cancel(c)        BY <1>7 DEF Cancel
<1> QED BY <1>1, <1>2, <1>3, <1>4, <1>5, <1>6, <1>7 DEF Call

LEMMA ReadPumpInv == IInv /\ (ReadPump \/ Take) => IInv'
<1> SUFFICES ASSUME IInv, ReadPump \/ Take PROVE IInv'
  OBVIOUS
<1> USE CapacityAssumption DEF IInv, TypeOK, FlushInv, FrameInv
<1>1. CASE ReadMessage   BY <1>1 DEF ReadMessage
<1>2. CASE HandOver      BY <1>2 DEF HandOver
<1>3. CASE GiveUp        BY <1>3 DEF GiveUp
<1>4. CASE ReadFails     BY <1>4 DEF ReadFails
<1>5. CASE ReaderCloses  BY <1>5 DEF ReaderCloses
<1>6. CASE Take          BY <1>6 DEF Take
<1> QED BY <1>1, <1>2, <1>3, <1>4, <1>5, <1>6 DEF ReadPump

LEMMA WritePumpInv == IInv /\ WritePump => IInv'
<1> SUFFICES ASSUME IInv, WritePump PROVE IInv'
  OBVIOUS
<1> USE CapacityAssumption
        DEF IInv, TypeOK, FlushInv, FrameInv, WriterReturns, WriteMayFail, WriteMaySucceed
<1>1. CASE Stops            BY <1>1 DEF Stops
<1>0. 0 \in 0..Capacity
  BY DEF FlushInv
<1>2. CASE WriteCloseFrame
  <2>1. {done', closed', socketOpen'} \subseteq BOOLEAN
    BY <1>2, Zenon DEF WriteCloseFrame
  <2>2. {send', recv', toFlush'} \subseteq 0..Capacity /\ closeFrames' \in Nat
    BY <1>0, <1>2 DEF WriteCloseFrame
  <2>3. caller' = caller /\ reader' = reader /\ writer' = "gone" /\ peer' = peer
    BY <1>2 DEF WriteCloseFrame
  <2>4. TypeOK'
    BY <2>1, <2>2, <2>3
  <2>5. FlushInv'
    BY <1>2 DEF WriteCloseFrame
  <2>6. FrameInv'
    BY <1>2 DEF WriteCloseFrame
  <2> QED BY <2>4, <2>5, <2>6
<1>3. CASE PingFails        BY <1>3 DEF PingFails
<1>4. CASE TakeMessage      BY <1>4 DEF TakeMessage
<1>5. CASE MessageWritten   BY <1>5 DEF MessageWritten
<1>6. CASE TakeCounted      BY <1>6 DEF TakeCounted
<1>7. CASE CountedWritten   BY <1>7 DEF CountedWritten
<1>8. CASE WriteFails
  <2>1. {done', closed', socketOpen'} \subseteq BOOLEAN
    BY <1>8, Zenon DEF WriteFails
  <2>2. {send', recv', toFlush'} \subseteq 0..Capacity /\ closeFrames' \in Nat
    BY <1>0, <1>8 DEF WriteFails
  <2>3. caller' = caller /\ reader' = reader /\ writer' = "gone" /\ peer' = peer
    BY <1>8 DEF WriteFails
  <2>4. TypeOK'
    BY <2>1, <2>2, <2>3
  <2>5. FlushInv'
    BY <1>8 DEF WriteFails
  <2>6. FrameInv'
    BY <1>8 DEF WriteFails
  <2> QED BY <2>4, <2>5, <2>6
<1> QED BY <1>1, <1>2, <1>3, <1>4, <1>5, <1>6, <1>7, <1>8 DEF WritePump, WriteMessage

LEMMA PeerInv == IInv /\ (PeerIsMute \/ PeerLeaves) => IInv'
  BY DEF IInv, TypeOK, FlushInv, FrameInv, PeerIsMute, PeerLeaves

LEMMA StepInv == IInv /\ [Next]_vars => IInv'
<1>1. IInv /\ Next => IInv'
  BY CallInv, ReadPumpInv, WritePumpInv, PeerInv DEF Next
<1>2. IInv /\ UNCHANGED vars => IInv'
  BY DEF IInv, TypeOK, FlushInv, FrameInv, vars
<1> QED BY <1>1, <1>2

\* The inductive invariant holds throughout.
LEMMA Invariant == Spec => []IInv
  BY InitInv, StepInv, PTL DEF Spec

\* The state of every connection has its types.
THEOREM TypeCorrect == Spec => []TypeOK
<1>1. IInv => TypeOK  BY DEF IInv
<1> QED BY Invariant, <1>1, PTL

(***************************************************************************)
(* A connection closed while its peer is well ends with one close frame,   *)
(* for any number of goroutines that call Close (core.go:85-108, 149-159). *)
(***************************************************************************)
THEOREM OneFrame == Spec => []OneCloseFrame
<1>1. IInv => OneCloseFrame  BY DEF IInv, FrameInv, OneCloseFrame
<1> QED BY Invariant, <1>1, PTL

\* The flush finds every message it has counted (core.go:193-199).
THEOREM FlushFindsMessages == Spec => []FlushNeverBlocks
<1>1. IInv => FlushNeverBlocks  BY DEF IInv, FlushInv, FlushNeverBlocks
<1> QED BY Invariant, <1>1, PTL

-----------------------------------------------------------------------------
(***************************************************************************)
(* The end is passed on (core.go:85-108, 126-147, 149-201): EndIsPassedOn  *)
(* is inductive by itself, given where the callers may be.                 *)
(***************************************************************************)
LEMMA CallPassesOn ==
  ASSUME TypeOK, EndIsPassedOn, NEW c \in Callers, Call(c)
  PROVE  EndIsPassedOn'
<1> USE DEF TypeOK, EndIsPassedOn, Ending
<1>1. CASE CallWrite(c)     BY <1>1 DEF CallWrite
<1>2. CASE CallClose(c)     BY <1>2 DEF CallClose
<1>3. CASE Enqueue(c)       BY <1>3 DEF Enqueue
<1>4. CASE WriteDropped(c)  BY <1>4 DEF WriteDropped
<1>5. CASE HandFrame(c)     BY <1>5 DEF HandFrame
<1>6. CASE CloseGivesUp(c)  BY <1>6 DEF CloseGivesUp
<1>7. CASE Cancel(c)        BY <1>7 DEF Cancel
<1> QED BY <1>1, <1>2, <1>3, <1>4, <1>5, <1>6, <1>7 DEF Call

LEMMA PumpsPassOn ==
  ASSUME TypeOK, EndIsPassedOn, ReadPump \/ WritePump
  PROVE  EndIsPassedOn'
<1> USE DEF TypeOK, EndIsPassedOn, Ending, WriterReturns
<1>1. CASE ReadMessage \/ HandOver  BY <1>1 DEF ReadMessage, HandOver
<1>2. CASE GiveUp                   BY <1>2 DEF GiveUp
<1>3. CASE ReadFails                BY <1>3 DEF ReadFails
<1>4. CASE ReaderCloses             BY <1>4 DEF ReaderCloses
<1>5. CASE Stops                    BY <1>5 DEF Stops
<1>6. CASE WriteCloseFrame          BY <1>6 DEF WriteCloseFrame
<1>7. CASE PingFails \/ WriteFails  BY <1>7 DEF PingFails, WriteFails
<1>8. CASE TakeMessage \/ MessageWritten \/ TakeCounted \/ CountedWritten
  BY <1>8 DEF TakeMessage, MessageWritten, TakeCounted, CountedWritten
<1> QED BY <1>1, <1>2, <1>3, <1>4, <1>5, <1>6, <1>7, <1>8 DEF ReadPump, WritePump, WriteMessage

\* WSClient.EndIsPassedOn: no pump and no Close ends without the others learning of it.
THEOREM EndsTogether == Spec => []EndIsPassedOn
<1>1. Init => EndIsPassedOn
  BY DEF Init, EndIsPassedOn
<1>2. ASSUME TypeOK, EndIsPassedOn, [Next]_vars PROVE EndIsPassedOn'
  <2>1. CASE Take \/ PeerIsMute \/ PeerLeaves \/ UNCHANGED vars
    BY <1>2, <2>1 DEF Take, PeerIsMute, PeerLeaves, vars, EndIsPassedOn, Ending
  <2> QED BY <1>2, <2>1, CallPassesOn, PumpsPassOn DEF Next
<1> QED BY <1>1, <1>2, TypeCorrect, PTL DEF Spec

-----------------------------------------------------------------------------
\* Every step of a ws.Client is one step of a Connection, or none.
LEMMA StepRefines == IInv /\ [Next]_vars => [Promise!Next]_(Promise!vars)
<1> SUFFICES ASSUME IInv, [Next]_vars PROVE [Promise!Next]_(Promise!vars)
  OBVIOUS
<1> USE DEF Promise!Next, Promise!vars
<1>1. ASSUME NEW c \in Callers, Call(c) PROVE [Promise!Next]_(Promise!vars)
  <2>1. CASE CallClose(c)  BY <2>1 DEF CallClose, Promise!Close
  <2>2. CASE Enqueue(c)    BY <2>2 DEF Enqueue, Promise!Write
  <2>3. CASE Cancel(c)     BY <2>3 DEF Cancel, Promise!Ends
  <2>4. CASE CallWrite(c) \/ WriteDropped(c) \/ HandFrame(c) \/ CloseGivesUp(c)
    BY <2>4 DEF CallWrite, WriteDropped, HandFrame, CloseGivesUp
  <2> QED BY <1>1, <2>1, <2>2, <2>3, <2>4 DEF Call
<1>2. CASE Take \/ ReadPump
  <2>1. CASE Take       BY <2>1 DEF Take, Promise!Take
  <2>2. CASE HandOver   BY <2>2 DEF HandOver, Promise!Arrive
  <2>3. CASE ReadFails  BY <2>3 DEF ReadFails, Promise!Ends
  <2>4. CASE ReadMessage \/ GiveUp \/ ReaderCloses
    BY <2>4 DEF ReadMessage, GiveUp, ReaderCloses
  <2> QED BY <1>2, <2>1, <2>2, <2>3, <2>4 DEF ReadPump
<1>3. CASE WritePump
  <2>1. CASE TakeMessage  BY <2>1 DEF TakeMessage, Promise!Transmit
  <2>2. CASE TakeCounted  BY <2>2 DEF TakeCounted, Promise!Transmit
  <2>3. CASE PingFails    BY <2>3 DEF PingFails, Promise!Ends
  <2>4. CASE WriteFails   BY <2>4 DEF WriteFails, Promise!Ends
  <2>5. CASE Stops \/ WriteCloseFrame \/ MessageWritten \/ CountedWritten
    BY <2>5 DEF Stops, WriteCloseFrame, MessageWritten, CountedWritten
  <2> QED BY <1>3, <2>1, <2>2, <2>3, <2>4, <2>5 DEF WritePump, WriteMessage
<1>4. CASE PeerIsMute \/ PeerLeaves \/ UNCHANGED vars
  BY <1>4 DEF PeerIsMute, PeerLeaves, vars
<1> QED BY <1>1, <1>2, <1>3, <1>4 DEF Next

(***************************************************************************)
(* What goroutines see of a ws.Client is what Connection allows: WSProxy,  *)
(* which is built on Connection, is built on the code of core.go.          *)
(***************************************************************************)
THEOREM RefinesConnection == Spec => Promise!Init /\ [][Promise!Next]_(Promise!vars)
<1>1. Init => Promise!Init  BY DEF Init, Promise!Init
<1> QED BY Invariant, StepRefines, <1>1, PTL DEF Spec
=============================================================================
