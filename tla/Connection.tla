------------------------------- MODULE Connection -------------------------------
(***************************************************************************)
(* What a ws.Client promises the goroutines that use it: two bounded       *)
(* queues, a Close that ends the connection, and writes that find room or  *)
(* find the connection over.  WSClient is shown to keep these promises;    *)
(* WSProxy is built on them.                                               *)
(***************************************************************************)
EXTENDS Naturals

CONSTANT Capacity    \* of each queue; 32 in the code

VARIABLES
    status,     \* open, closing (Close was called), ended (ctx is done)
    outbox,     \* messages written and not yet on the wire
    inbox       \* messages read and not yet taken

vars == <<status, outbox, inbox>>

Init == status = "open" /\ outbox = 0 /\ inbox = 0

Close == status = "open" /\ status' = "closing" /\ UNCHANGED <<outbox, inbox>>
Ends == status # "ended" /\ status' = "ended" /\ UNCHANGED <<outbox, inbox>>
Write == outbox < Capacity /\ outbox' = outbox + 1 /\ UNCHANGED <<status, inbox>>
Transmit == outbox > 0 /\ outbox' = outbox - 1 /\ UNCHANGED <<status, inbox>>
Arrive == inbox < Capacity /\ inbox' = inbox + 1 /\ UNCHANGED <<status, outbox>>
Take == inbox > 0 /\ inbox' = inbox - 1 /\ UNCHANGED <<status, outbox>>

Next == Close \/ Ends \/ Write \/ Transmit \/ Arrive \/ Take

\* A write that has no room gets it, or learns that the connection is ending.
RoomIsMade == []<>(outbox < Capacity \/ status # "open")

\* Whoever closes the connection sees it end.
CloseEnds == (status = "closing") ~> (status = "ended")

Spec == Init /\ [][Next]_vars /\ RoomIsMade /\ CloseEnds
=============================================================================
