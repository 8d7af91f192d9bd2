------------------------------ MODULE MCGateway ------------------------------
(***************************************************************************)
(* The requests of the Gateway run.  Two reads may share a call, under     *)
(* different ids, or must not; two batches race for the labels; the calls  *)
(* of Twins are alike, id and all.                                         *)
(***************************************************************************)
EXTENDS Gateway

Read(params, id) == [method |-> "getblock", params |-> params, id |-> id]
CountOf(id) == [method |-> "getblockcount", params |-> 0, id |-> id]
Send(id) == [method |-> "sendrawtransaction", params |-> 0, id |-> id]
Stop(id) == [method |-> "stop", params |-> 0, id |-> id]

Batch == Decoded(TRUE, <<CountOf(1), Send(2)>>)
Twins == Decoded(TRUE, <<CountOf(1), CountOf(1)>>)
Forbidden == Decoded(TRUE, <<CountOf(1), Stop(2)>>)

MCAsked ==
    <<{Decoded(FALSE, <<Read(1, 1)>>), Twins},
      {Decoded(FALSE, <<Read(1, 2)>>), Decoded(FALSE, <<Read(2, 2)>>), Batch,
       Forbidden, Undecoded("malformed"), Undecoded("nullMember")}>>
=============================================================================
