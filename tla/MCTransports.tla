---------------------------- MODULE MCTransports ----------------------------
(***************************************************************************)
(* The HTTP requests of the Transports runs, and what the providers lack.  *)
(***************************************************************************)
EXTENDS Transports

Plain == [known |-> TRUE, authorized |-> TRUE, path |-> <<>>, upgrade |-> FALSE,
          verb |-> "POST", body |-> "read"]
ToApi(path) == [Plain EXCEPT !.path = path]
Upgrade == [Plain EXCEPT !.upgrade = TRUE]

MCIncoming ==
    {Plain, Upgrade, [Upgrade EXCEPT !.authorized = FALSE], [Plain EXCEPT !.known = FALSE],
     ToApi(<<"wallet", "getnowblock">>), ToApi(<<"wallet", "..", "admin">>),
     ToApi(<<"wallet">>), ToApi(<<"monitor", "getstatsinfo">>),
     [ToApi(<<"wallet", "getnowblock">>) EXCEPT !.verb = "DELETE"],
     [ToApi(<<"wallet", "getnowblock">>) EXCEPT !.body = "tooLarge"]}

FirstLacksTrace == [p \in Providers |-> IF p = 1 THEN {"trace"} ELSE {}]
OkMissingInternalLimited == {OK, -32601, -32603, -32005}
=============================================================================
