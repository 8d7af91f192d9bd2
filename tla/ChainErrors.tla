----------------------------- MODULE ChainErrors -----------------------------
(***************************************************************************)
(* How each chain classifies the JSON-RPC error a provider put in its      *)
(* answer: chain.Chain.HandleError of eth, solana, tron and btc.  A result *)
(* of a (sub-)request is OK or an error code; the only message HandleError *)
(* looks at is that of Geth's -32000, so that code has a second value for  *)
(* the messages that carry one of dataUnavailableHints.  In place of a     *)
(* response there may be null, which decodes to a nil *Response.           *)
(***************************************************************************)
EXTENDS Integers

OK == 1                       \* a result, no error object
Null == 2                     \* no response at all
NonSpecError == 0             \* GetError on an error object it cannot decode
ServerError == -32000
ServerErrorNoData == -132000  \* -32000 with a data-unavailable message

IsError(result) == result \notin {OK, Null}

Kinds == {"eth", "solana", "tron", "btc"}

\* nil: the error is the client's and goes back to it unchanged.
Dispositions == {"nil", "methodNotSupported", "tryNext", "rateLimited", "unhealthy", "panic"}

EthHandleError(code) ==
    CASE code \in {-32601, -32604, -32004, -32612, -32613} -> "methodNotSupported"
      [] code = -32005 -> "rateLimited"
      [] code \in {-32603, -32011} -> "unhealthy"
      [] code \in {-32001, -32002, ServerErrorNoData} -> "tryNext"
      [] OTHER -> "nil"

SolanaHandleError(code) ==
    CASE code = -32601 -> "methodNotSupported"
      [] code = -32005 -> "rateLimited"
      [] code = -32603 -> "unhealthy"
      [] code \in {-32001, -32004, -32007, -32008,
                   -32009, -32011, -32014, -32016} -> "tryNext"
      [] OTHER -> "nil"

TronHandleError(code) ==
    CASE code = -32005 -> "rateLimited"
      [] code \in {-32002, -32603} -> "unhealthy"
      [] OTHER -> "nil"

BtcHandleError(code) == IF code = -32603 THEN "unhealthy" ELSE "nil"

HandleError(kind, code) ==
    CASE kind = "eth" -> EthHandleError(code)
      [] kind = "solana" -> SolanaHandleError(code)
      [] kind = "tron" -> TronHandleError(code)
      [] kind = "btc" -> BtcHandleError(code)

\* What a result means to the failover loop: only errors are classified, and a
\* nil response is dereferenced before its error is looked for.
Disposition(kind, result) ==
    CASE result = OK -> "nil"
      [] result = Null -> "panic"
      [] OTHER -> HandleError(kind, result)
=============================================================================
