-------------------------------- MODULE WSClient --------------------------------
(***************************************************************************)
(* One ws.Client (ws/core.go): the goroutine that reads the socket, the    *)
(* one that writes it, and the goroutines that call Write and Close on it, *)
(* around two buffered channels, one unbuffered channel and a context.     *)
(*                                                                         *)
(* A message is counted, never looked at.  The peer may stop answering     *)
(* pings or send what cannot be read, and it may be gone altogether;       *)
(* gorilla/websocket then fails reads, or reads and writes.                *)
(***************************************************************************)
EXTENDS Naturals

CONSTANTS
    Callers,     \* the goroutines that call Write and Close
    Capacity     \* of the channels send and recv; 32 in the code

ASSUME CapacityAssumption == Capacity \in Nat \ {0}

VARIABLES
    done,        \* ctx is done
    closed,      \* Close has been called
    send, recv,  \* messages in the channels
    caller,      \* where each caller is inside Write or Close
    reader,      \* where readPump is
    writer,      \* where writePump is
    toFlush,     \* queued messages writePump has still to flush
    socketOpen,  \* Conn is not closed on this side
    peer,        \* up, mute (reads fail) or gone (reads and writes fail)
    closeFrames  \* close frames written

queues == <<send, recv>>
pumps == <<reader, writer, toFlush>>
vars == <<done, closed, queues, caller, pumps, socketOpen, peer, closeFrames>>

Init ==
    /\ done = FALSE /\ closed = FALSE
    /\ send = 0 /\ recv = 0
    /\ caller = [c \in Callers |-> "idle"]
    /\ reader = "reading" /\ writer = "waiting" /\ toFlush = 0
    /\ socketOpen = TRUE
    /\ peer = "up"
    /\ closeFrames = 0

-----------------------------------------------------------------------------
\* Write blocks on a full channel until there is room or ctx is done.
CallWrite(c) ==
    /\ caller[c] = "idle"
    /\ caller' = [caller EXCEPT ![c] = "writing"]
    /\ UNCHANGED <<done, closed, queues, pumps, socketOpen, peer, closeFrames>>

Enqueue(c) ==
    /\ caller[c] = "writing" /\ send < Capacity
    /\ send' = send + 1
    /\ caller' = [caller EXCEPT ![c] = "idle"]
    /\ UNCHANGED <<done, closed, recv, pumps, socketOpen, peer, closeFrames>>

\* Broken: a blocked Write looks at the context once there is room.
DroppedWhenRoom(c) ==
    /\ caller[c] = "writing" /\ done /\ send < Capacity
    /\ caller' = [caller EXCEPT ![c] = "idle"]
    /\ UNCHANGED <<done, closed, queues, pumps, socketOpen, peer, closeFrames>>

WriteDropped(c) ==
    /\ caller[c] = "writing" /\ done
    /\ caller' = [caller EXCEPT ![c] = "idle"]
    /\ UNCHANGED <<done, closed, queues, pumps, socketOpen, peer, closeFrames>>

\* Only the first Close does anything; the lock makes looking and setting one step.
CallClose(c) ==
    /\ caller[c] = "idle" /\ ~closed
    /\ closed' = TRUE
    /\ caller' = [caller EXCEPT ![c] = "handing"]
    /\ UNCHANGED <<done, queues, pumps, socketOpen, peer, closeFrames>>

\* The channel close has no buffer: both sides must be there.
HandFrame(c) ==
    /\ caller[c] = "handing" /\ writer = "waiting"
    /\ caller' = [caller EXCEPT ![c] = "cancelling"]
    /\ writer' = "closing"
    /\ UNCHANGED <<done, closed, queues, reader, toFlush, socketOpen, peer, closeFrames>>

CloseGivesUp(c) ==
    /\ caller[c] = "handing" /\ done
    /\ caller' = [caller EXCEPT ![c] = "cancelling"]
    /\ UNCHANGED <<done, closed, queues, pumps, socketOpen, peer, closeFrames>>

\* Broken: Close leaves it to the pumps to end the context.
CancelForgotten(c) ==
    /\ caller[c] = "cancelling"
    /\ caller' = [caller EXCEPT ![c] = "idle"]
    /\ UNCHANGED <<done, closed, queues, pumps, socketOpen, peer, closeFrames>>

Cancel(c) ==
    /\ caller[c] = "cancelling"
    /\ done' = TRUE
    /\ caller' = [caller EXCEPT ![c] = "idle"]
    /\ UNCHANGED <<closed, queues, pumps, socketOpen, peer, closeFrames>>

\* The user of the connection takes a message that was read.
Take ==
    /\ recv > 0
    /\ recv' = recv - 1
    /\ UNCHANGED <<done, closed, send, caller, pumps, socketOpen, peer, closeFrames>>

-----------------------------------------------------------------------------
\* readPump
ReadMessage ==
    /\ reader = "reading" /\ socketOpen /\ peer = "up"
    /\ reader' = "handing"
    /\ UNCHANGED <<done, closed, queues, caller, writer, toFlush, socketOpen, peer, closeFrames>>

HandOver ==
    /\ reader = "handing" /\ recv < Capacity
    /\ recv' = recv + 1
    /\ reader' = "reading"
    /\ UNCHANGED <<done, closed, send, caller, writer, toFlush, socketOpen, peer, closeFrames>>

\* Broken: the reader closes the socket under a close frame still to be written.
GiveUpAndClose ==
    /\ reader = "handing" /\ done
    /\ reader' = "gone"
    /\ socketOpen' = FALSE
    /\ UNCHANGED <<done, closed, queues, caller, writer, toFlush, peer, closeFrames>>

GiveUp ==
    /\ reader = "handing" /\ done
    /\ reader' = "gone"
    /\ UNCHANGED <<done, closed, queues, caller, writer, toFlush, socketOpen, peer, closeFrames>>

ReadFails ==
    /\ reader = "reading" /\ (~socketOpen \/ peer # "up")
    /\ done' = TRUE
    /\ reader' = "failed"
    /\ UNCHANGED <<closed, queues, caller, writer, toFlush, socketOpen, peer, closeFrames>>

ReaderCloses ==
    /\ reader = "failed"
    /\ socketOpen' = FALSE
    /\ reader' = "gone"
    /\ UNCHANGED <<done, closed, queues, caller, writer, toFlush, peer, closeFrames>>

-----------------------------------------------------------------------------
(***************************************************************************)
(* writePump.  Its select takes any case that is ready.  However it        *)
(* returns, the deferred call closes the socket.                           *)
(***************************************************************************)
WriteMayFail == ~socketOpen \/ peer = "gone"
WriteMaySucceed == socketOpen

WriterReturns == writer' = "gone" /\ toFlush' = 0 /\ socketOpen' = FALSE

Stops ==
    /\ writer = "waiting" /\ done
    /\ WriterReturns
    /\ UNCHANGED <<done, closed, queues, caller, reader, peer, closeFrames>>

\* Broken: the pump returns and leaves it to the peer to close the socket.
WriteCloseFrameOnly ==
    /\ writer = "closing"
    /\ writer' = "gone"
    /\ closeFrames' = closeFrames + 1
    /\ UNCHANGED <<done, closed, queues, caller, reader, toFlush, socketOpen, peer>>

WriteCloseFrame ==
    /\ writer = "closing"
    /\ WriterReturns
    /\ \/ WriteMaySucceed /\ closeFrames' = closeFrames + 1
       \/ WriteMayFail /\ UNCHANGED closeFrames
    /\ UNCHANGED <<done, closed, queues, caller, reader, peer>>

PingFails ==
    /\ writer = "waiting" /\ WriteMayFail
    /\ done' = TRUE
    /\ WriterReturns
    /\ UNCHANGED <<closed, queues, caller, reader, peer, closeFrames>>

TakeMessage ==
    /\ writer = "waiting" /\ send > 0
    /\ send' = send - 1
    /\ writer' = "writing"
    /\ UNCHANGED <<done, closed, recv, caller, reader, toFlush, socketOpen, peer, closeFrames>>

\* Broken: the messages are counted with the one already taken.
CountBefore ==
    /\ writer = "writing" /\ WriteMaySucceed
    /\ toFlush' = send + 1
    /\ writer' = "flushing"
    /\ UNCHANGED <<done, closed, queues, caller, reader, socketOpen, peer, closeFrames>>

\* The message taken is written, and the ones behind it are counted.
MessageWritten ==
    /\ writer = "writing" /\ WriteMaySucceed
    /\ toFlush' = send
    /\ writer' = IF send = 0 THEN "waiting" ELSE "flushing"
    /\ UNCHANGED <<done, closed, queues, caller, reader, socketOpen, peer, closeFrames>>

TakeCounted ==
    /\ writer = "flushing" /\ send > 0
    /\ send' = send - 1
    /\ toFlush' = toFlush - 1
    /\ writer' = "rewriting"
    /\ UNCHANGED <<done, closed, recv, caller, reader, socketOpen, peer, closeFrames>>

CountedWritten ==
    /\ writer = "rewriting" /\ WriteMaySucceed
    /\ writer' = IF toFlush = 0 THEN "waiting" ELSE "flushing"
    /\ UNCHANGED <<done, closed, queues, caller, reader, toFlush, socketOpen, peer, closeFrames>>

WriteFails ==
    /\ writer \in {"writing", "rewriting"} /\ WriteMayFail
    /\ done' = TRUE
    /\ WriterReturns
    /\ UNCHANGED <<closed, queues, caller, reader, peer, closeFrames>>

-----------------------------------------------------------------------------
\* The peer misses the deadline for its pong, or sends what cannot be read.
PeerIsMute ==
    /\ peer = "up"
    /\ peer' = "mute"
    /\ UNCHANGED <<done, closed, queues, caller, pumps, socketOpen, closeFrames>>

PeerLeaves ==
    /\ peer # "gone"
    /\ peer' = "gone"
    /\ UNCHANGED <<done, closed, queues, caller, pumps, socketOpen, closeFrames>>

Call(c) ==
    \/ CallWrite(c) \/ CallClose(c)
    \/ Enqueue(c) \/ WriteDropped(c)
    \/ HandFrame(c) \/ CloseGivesUp(c) \/ Cancel(c)

ReadPump == ReadMessage \/ HandOver \/ GiveUp \/ ReadFails \/ ReaderCloses

WriteMessage == MessageWritten \/ TakeCounted \/ CountedWritten \/ WriteFails

WritePump == Stops \/ WriteCloseFrame \/ PingFails \/ TakeMessage \/ WriteMessage

Next ==
    \/ \E c \in Callers : Call(c)
    \/ Take
    \/ ReadPump
    \/ WritePump
    \/ PeerIsMute \/ PeerLeaves

Spec == Init /\ [][Next]_vars

(***************************************************************************)
(* Goroutines run.  A select that goes round for ever with a case ready    *)
(* takes it some time, since Go chooses among the ready ones at random;    *)
(* the ticker of the pings makes it go round.  Nobody has to call Write or *)
(* Close, or to take what was read, and the peer owes nothing.             *)
(***************************************************************************)
FairSpec ==
    /\ Spec
    /\ \A c \in Callers :
         /\ WF_vars(WriteDropped(c)) /\ WF_vars(CloseGivesUp(c)) /\ WF_vars(Cancel(c))
         /\ SF_vars(HandFrame(c))
    /\ WF_vars(ReadFails) /\ WF_vars(ReaderCloses) /\ SF_vars(GiveUp)
    /\ WF_vars(WriteCloseFrame) /\ WF_vars(TakeMessage) /\ WF_vars(WriteMessage)
    /\ SF_vars(Stops) /\ SF_vars(PingFails)

-----------------------------------------------------------------------------
\* Every variable has its type.
TypeOK ==
    /\ done \in BOOLEAN /\ closed \in BOOLEAN
    /\ send \in 0..Capacity /\ recv \in 0..Capacity
    /\ caller \in [Callers -> {"idle", "writing", "handing", "cancelling"}]
    /\ reader \in {"reading", "handing", "failed", "gone"}
    /\ writer \in {"waiting", "writing", "flushing", "rewriting",
                    "closing", "gone"}
    /\ toFlush \in 0..Capacity
    /\ socketOpen \in BOOLEAN
    /\ peer \in {"up", "mute", "gone"}
    /\ closeFrames \in Nat

(***************************************************************************)
(* A connection closed while its peer is well ends with one close frame,   *)
(* however the pumps, the context and several calls of Close interleave;   *)
(* no connection gets two.                                                 *)
(***************************************************************************)
OneCloseFrame ==
    /\ closeFrames <= 1
    /\ writer = "gone" /\ peer = "up" => closeFrames = 1

(***************************************************************************)
(* writePump never waits for a message it has counted: while it flushes,   *)
(* what it counted is still queued.                                        *)
(***************************************************************************)
FlushNeverBlocks == toFlush <= send   \* so TakeCounted has a message

(***************************************************************************)
(* The end is passed on: whichever of Close, the two pumps and the context *)
(* is first, the others learn of it.  A pump that is gone leaves ctx done  *)
(* or a Close that is about to end it, and a closed socket that fails the  *)
(* other pump; a connection that was closed still has the call of Close    *)
(* that will end it.                                                       *)
(***************************************************************************)
Ending(stages) == done \/ \E c \in Callers : caller[c] \in stages

EndIsPassedOn ==
    /\ closed => Ending({"handing", "cancelling"})
    /\ writer \in {"closing", "gone"} => Ending({"cancelling"})
    /\ writer = "gone" => ~socketOpen
    /\ reader \in {"failed", "gone"} \/ ~socketOpen => Ending({"cancelling"})

Over == done /\ ~socketOpen /\ reader = "gone" /\ writer = "gone"

(***************************************************************************)
(* A connection that was closed, or whose peer is gone, comes apart        *)
(* completely, even if nobody takes what was read.                         *)
(***************************************************************************)
ComesApart == (closed \/ peer = "gone") ~> Over

\* Nobody stays blocked in Write or Close once the connection is over.
CallsReturn == \A c \in Callers :
    (done /\ caller[c] # "idle") ~> (caller[c] = "idle")

\* What a user of the connection may rely on.
Promise == INSTANCE Connection WITH
    status <- IF done THEN "ended" ELSE IF closed THEN "closing" ELSE "open",
    outbox <- send, inbox <- recv

KeepsPromise == Promise!Spec
=============================================================================
