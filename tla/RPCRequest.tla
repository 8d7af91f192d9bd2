----------------------------- MODULE RPCRequest -----------------------------
(***************************************************************************)
(* A client's JSON-RPC request as the HTTP handler reads it: what it may   *)
(* be refused for before any provider is asked, which methods the chain    *)
(* lets clients call and which it coalesces, and what a provider may       *)
(* answer (internal/http.go, chain/chain.go and the allowlists under       *)
(* chain/).                                                                *)
(***************************************************************************)
EXTENDS Attribution

CONSTANTS
    Kind,           \* the endpoint's chain
    MaxBatchSize    \* rpc.MaxBatchSize; 100

ASSUME KindAssumption == Kind \in {"eth", "solana", "tron", "btc"}
ASSUME BatchAssumption == MaxBatchSize \in Nat

(***************************************************************************)
(* What reading and decoding the body may come to.  Only a "decoded" body  *)
(* has calls; a call is [method, params, id].  "nullMember" is a batch of  *)
(* at most MaxBatchSize with null for a request: it decodes, to a nil one. *)
(***************************************************************************)
BodyKinds == {"decoded", "wrongType", "tooLarge", "unreadable", "malformed", "emptyBatch",
              "nullMember"}

Decoded(batch, calls) == [body |-> "decoded", batch |-> batch, calls |-> calls]
Undecoded(kind) == [body |-> kind, batch |-> FALSE, calls |-> <<>>]

-----------------------------------------------------------------------------
EthCoalesceable == {
    "eth_call", "eth_getBalance", "eth_getCode", "eth_getStorageAt",
    "eth_getTransactionByHash", "eth_getTransactionReceipt",
    "eth_getBlockByNumber", "eth_getBlockByHash", "eth_getBlockReceipts",
    "eth_getLogs", "eth_getTransactionCount", "eth_estimateGas", "eth_gasPrice",
    "eth_feeHistory", "eth_maxPriorityFeePerGas", "eth_blockNumber",
    "eth_chainId", "net_version", "web3_clientVersion"}

SolanaCoalesceable == {
    "getAccountInfo", "getMultipleAccounts", "getBalance", "getBlock",
    "getBlockHeight", "getSlot", "getTransaction", "getSignatureStatuses",
    "getLatestBlockhash", "getEpochInfo", "getVersion", "getGenesisHash",
    "getHealth", "getTokenAccountBalance"}

BtcCoalesceable == {
    "getblock", "getblockhash", "getblockheader", "getblockcount",
    "getblockchaininfo", "getrawtransaction", "getnetworkinfo",
    "getmempoolinfo", "gettxout", "estimatesmartfee"}

BtcAllowed == {
    "getbestblockhash", "getblock", "getblockchaininfo", "getblockcount",
    "getblockfilter", "getblockhash", "getblockheader", "getblockstats",
    "getchaintips", "getchaintxstats", "getdeploymentinfo", "getdifficulty",
    "getmempoolancestors", "getmempooldescendants", "getmempoolentry",
    "getmempoolinfo", "getrawmempool", "gettxout", "gettxoutproof",
    "gettxoutsetinfo", "gettxspendingprevout", "verifytxoutproof",
    "getrawtransaction", "sendrawtransaction"}

Coalesceable(m) ==
    CASE Kind \in {"eth", "tron"} -> m \in EthCoalesceable
      [] Kind = "solana" -> m \in SolanaCoalesceable
      [] Kind = "btc" -> m \in BtcCoalesceable

AllowMethod(m) == Kind = "btc" => m \in BtcAllowed

-----------------------------------------------------------------------------
(***************************************************************************)
(* The status a request is refused with before its methods are looked at;  *)
(* Accepted when it is not.                                                *)
(***************************************************************************)
Accepted == 0

Refusal(r) ==
    CASE r.body \in {"wrongType", "malformed", "emptyBatch"} -> 400
      [] r.body = "tooLarge" -> 413
      [] r.body = "unreadable" -> 500
      [] OTHER -> IF Len(r.calls) > MaxBatchSize THEN 413 ELSE Accepted

\* The look at its methods dereferences a nil request.
HasNil(r) == r.body = "nullMember"

\* One disallowed method rejects the request whole.
RejectDisallowed(r) == \E i \in DOMAIN r.calls : ~AllowMethod(r.calls[i].method)

\* Only a single call is coalesced, under its method and its params.
IsCoalesced(r) == ~r.batch /\ Coalesceable(r.calls[1].method)

Key(r) == <<r.calls[1].method, r.calls[1].params>>

-----------------------------------------------------------------------------
(***************************************************************************)
(* A response is [id, ok, call]: the id it carries, whether it is a result *)
(* or an error, and the position of the call it truly answers, which the   *)
(* code cannot see.                                                        *)
(***************************************************************************)
Responses(r, i) ==
    {[id |-> r.calls[i].id, ok |-> TRUE, call |-> i]}
    \union {[id |-> id, ok |-> FALSE, call |-> i] : id \in MayCarry(r.calls[i].id, TRUE)}

Answers(r) ==
    UNION {{answer \in [DOMAIN r.calls -> UNION {Responses(r, i) : i \in DOMAIN r.calls}] :
              \A k \in DOMAIN r.calls : answer[k] \in Responses(r, order[k])} :
           order \in Orders(Len(r.calls))}
=============================================================================
