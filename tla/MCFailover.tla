----------------------------- MODULE MCFailover -----------------------------
(***************************************************************************)
(* Values for the constants of Failover that a configuration cannot write. *)
(***************************************************************************)
EXTENDS Failover, TLC

CONSTANTS eth_call, debug_trace   \* two methods

RequestSymmetry == Permutations(Requests)

Call(m, id) == [method |-> m, id |-> id]

OneCall == {<<Call(eth_call, 1)>>}
EachCall == {<<Call(eth_call, 1)>>, <<Call(debug_trace, 1)>>}

Batch == <<Call(eth_call, 1), Call(debug_trace, 2)>>
CallAndBatch == OneCall \union {Batch}

LacksNothing == [p \in Providers |-> {}]
LacksTrace == [p \in Providers |-> {debug_trace}]

\* Error codes of an Ethereum endpoint.
MissingNoDataInternalNull == {-32601, -32001, -32603, Null}
None == {}
=============================================================================
