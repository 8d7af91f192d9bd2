---------------------------- MODULE Attribution ----------------------------
(***************************************************************************)
(* Which call of a batch each response of a provider's answer belongs to   *)
(* (responseMethods in internal/http.go, the ids of rpc/id.go).  A call is *)
(* a record with a method and an id.  A batch may be answered in any       *)
(* order: order[k] is the call the k-th response truly answers, which the  *)
(* code cannot see, and ids[k] the id it carries, which it can.            *)
(***************************************************************************)
EXTENDS Integers, Sequences

NoId == 0       \* the id is missing, "" to the code
NullId == -1    \* the id is null, "null" to the code: an id like any other

Orders(n) == {order \in [1..n -> 1..n] : \A i, j \in 1..n : order[i] = order[j] => i = j}

\* A result echoes the id of its call, an error has null when it cannot.
MayCarry(id, isError) == {id} \union (IF isError THEN {NullId} ELSE {})

Carriers(calls, id) == {i \in DOMAIN calls : calls[i].id = id}

\* Broken: batch responses are taken to come in the order of the calls.
PositionalMethods(calls, ids) == [k \in DOMAIN ids |-> calls[k].method]

(***************************************************************************)
(* The method each response is attributed to: by its id, or by its         *)
(* position when no call or more than one carries that id.  With a single  *)
(* call it is that call's method either way.                               *)
(***************************************************************************)
ResponseMethods(calls, ids) ==
    [k \in DOMAIN ids |->
        IF ids[k] # NoId /\ \E i \in DOMAIN calls : Carriers(calls, ids[k]) = {i}
        THEN calls[CHOOSE i \in DOMAIN calls : Carriers(calls, ids[k]) = {i}].method
        ELSE calls[k].method]

(***************************************************************************)
(* The k-th response says which call it answers: by an id that only this   *)
(* call has, or by its place, under an id that is no other call's alone.   *)
(***************************************************************************)
Legible(calls, order, ids, k) ==
    \/ ids[k] # NoId /\ Carriers(calls, ids[k]) = {order[k]}
    \/ order[k] = k /\ (Carriers(calls, ids[k]) = {} \/ k \in Carriers(calls, ids[k]))

\* One of several calls has no id, or one that another has: its response has no owner by id.
Untraceable(calls) ==
    /\ Len(calls) > 1
    /\ \E i \in DOMAIN calls : calls[i].id = NoId \/ Carriers(calls, calls[i].id) # {i}
=============================================================================
