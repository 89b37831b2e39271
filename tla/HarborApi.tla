------------------------------ MODULE HarborApi ------------------------------
(***************************************************************************)
(* The upstream client HarborAPI of src/harbor/dex_proxy/harbor_api.py, as *)
(* far as it is a function of its inputs: which base URL each operation    *)
(* calls, and what _send_request makes of one delivered reply.  The part  *)
(* that depends on the shared aiohttp session (sending, closing, timeouts) *)
(* is modelled in Harbor, which composes this module.                      *)
(*                                                                         *)
(* Data is abstracted to what the properties tell apart: a reply is its    *)
(* status, whether its Content-Type names JSON, and the kind of its body;   *)
(* a parsed value is its shape ("dict", "list", "str"); an error message   *)
(* is its cause.                                                           *)
(***************************************************************************)
EXTENDS Naturals

\* The operations that go to the primary REST base through _request.
RestOps == {"get_markets", "get_account", "get_depth", "create_order",
            "update_order", "cancel_order", "get_order", "get_orders",
            "withdraw", "get_withdraw"}

\* The operations that go to the secondary xnode base through _request_xnode.
XnodeOps == {"get_inbound_addresses", "get_outbound_fees", "get_tx_details"}

\* The raw text of a reply, by what json.loads makes of it: "" , a JSON
\* object, a JSON array, or text that is not JSON at all.
BodyKinds == {"empty", "object", "list", "garbage"}

\* The value held in `data` when the body is parsed as JSON; "decode_error"
\* stands for json.loads raising JSONDecodeError.
JsonShape == [empty |-> "dict", object |-> "dict", list |-> "list",
              garbage |-> "decode_error"]

\* `data` after the Content-Type test: parsed JSON, or the raw text.
ParseBody(reply) == IF reply.json THEN JsonShape[reply.body] ELSE "str"

(***************************************************************************)
(* What a call of a HarborAPI operation ends in: a value returned to the   *)
(* caller ("result", its payload the shape of the returned mapping), a     *)
(* HarborAPIError ("api_error", with its status, the cause of its message  *)
(* and its payload, "none" for None), or an exception of another class    *)
(* ("exception").                                                          *)
(***************************************************************************)
Outcome(kind, status, msg, payload) ==
    [kind |-> kind, status |-> status, msg |-> msg, payload |-> payload]

\* Fault-injection variant of SendOutcome: the error test written `> 400`.
SendOutcome_Gt400(reply) ==
    LET data == ParseBody(reply) IN
    IF data = "decode_error"
    THEN Outcome("exception", 0, "decode_error", "none")
    ELSE IF reply.status > 400
    THEN Outcome("api_error", reply.status, "upstream_status", data)
    ELSE Outcome("result", 0, "none", IF data = "dict" THEN "dict" ELSE "wrapped")

\* _send_request on a delivered reply: parse first, then test the status,
\* then wrap a value that is not a dict under "result".
SendOutcome(reply) ==
    LET data == ParseBody(reply) IN
    IF data = "decode_error"
    THEN Outcome("exception", 0, "decode_error", "none")
    ELSE IF reply.status >= 400
    THEN Outcome("api_error", reply.status, "upstream_status", data)
    ELSE Outcome("result", 0, "none", IF data = "dict" THEN "dict" ELSE "wrapped")

\* _send_request when aiohttp raises a ClientError (refused, reset, DNS,
\* connection closed under the request).
NetworkErrorOutcome == Outcome("api_error", 503, "network", "none")

\* _request_xnode when no xnode base URL is configured.
XnodeUnconfiguredOutcome == Outcome("api_error", 500, "xnode_unconfigured", "none")
=============================================================================
