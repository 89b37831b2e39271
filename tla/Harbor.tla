------------------------------- MODULE Harbor -------------------------------
(***************************************************************************)
(* The Harbor adapter of src/harbor/dex_proxy/harbor.py together with the  *)
(* session-dependent half of its HarborAPI client: the lifecycle (start,   *)
(* stop) that builds and tears down the shared aiohttp session and the     *)
(* client wrapping it, and the request handlers that validate their        *)
(* parameters, call the client and turn the outcome into (status, body).  *)
(*                                                                         *)
(* Everything runs on one asyncio event loop.  A coroutine runs without    *)
(* interruption from one suspension to the next, so each action below is   *)
(* the code between two awaits that can really suspend: the lifecycle      *)
(* hooks of DexCommon, the closing of a session, and the network exchange *)
(* of a request.  Lifecycle calls come from Callers (the host), requests  *)
(* from Requests (one inbound HTTP request each).                          *)
(***************************************************************************)
EXTENDS Naturals, FiniteSets, HarborApi

CONSTANTS
    Callers,            \* tasks of the host that call start() and stop()
    Requests,           \* inbound HTTP requests, one handler task each
    MaxLifecycleCalls,  \* bound on the number of start()/stop() calls
    UpstreamStatuses,   \* HTTP statuses the Harbor server may answer with
    UpstreamBodies,     \* kinds of body it may send (a subset of BodyKinds)
    Traffic,            \* the handlers the clients call (a subset of Handlers)
    TrafficParams,      \* the parameter shapes they send (a subset of ParamShapes)
    XnodeConfigured,    \* connectors.harbor.xnode.base_uri is set
    RequestTimeoutSet,  \* connectors.harbor.rest.request_timeout is truthy
    SessionTimeoutSet   \* connectors.harbor.rest.session_timeout is truthy

ASSUME ConstantsAssumption ==
    /\ Callers # {} /\ IsFiniteSet(Callers)
    /\ IsFiniteSet(Requests)
    /\ MaxLifecycleCalls \in Nat
    /\ UpstreamStatuses \subseteq 100..599
    /\ UpstreamBodies \subseteq BodyKinds
    /\ XnodeConfigured \in BOOLEAN
    /\ RequestTimeoutSet \in BOOLEAN
    /\ SessionTimeoutSet \in BOOLEAN

VARIABLES
    session,   \* Harbor._session: the id of the session, NoSession for None
    api,       \* Harbor._api: the id of the session the client wraps, or NoSession
    open,      \* ids of the sessions that are not closed
    nsess,     \* number of sessions created so far (ids are 1..nsess)
    lpc,       \* lpc[c]: where caller c is suspended in start() or stop()
    lcalls,    \* number of lifecycle calls made so far
    rpc,       \* rpc[r]: "idle", "inflight" (awaiting Harbor) or "done"
    rreq,      \* rreq[r]: the handler the request was routed to and its params
    rsess,     \* rsess[r]: the session the request was sent on
    rev,       \* rev[r]: what happened to the upstream call (history)
    rrep,      \* rrep[r]: the reply Harbor delivered (history)
    resp,      \* resp[r]: the (status, body) the handler returned
    rfrom      \* rfrom[r]: for deposit instructions answered 200, the start()
               \* whose from-address table they carry (the id of the session
               \* that start() created; 0 for none)

lifecycleVars == <<session, api, open, nsess, lpc, lcalls>>
requestVars == <<rpc, rreq, rsess, rev, rrep, resp, rfrom>>
vars == <<lifecycleVars, requestVars>>

NoSession == 0
Replies == [status : UpstreamStatuses, json : BOOLEAN, body : UpstreamBodies]
NoReply == [status |-> 0, json |-> FALSE, body |-> "empty"]

(***************************************************************************)
(* The endpoint table.                                                     *)
(***************************************************************************)
\* The client operation each registered handler ends in; deposit
\* instructions is the inbound-addresses call plus local data.
Route == [get_markets |-> "get_markets", get_depth |-> "get_depth",
          get_account |-> "get_account", create_order |-> "create_order",
          update_order |-> "update_order", cancel_order |-> "cancel_order",
          get_order |-> "get_order", get_orders |-> "get_orders",
          withdraw |-> "withdraw", get_withdraw |-> "get_withdraw",
          get_inbound_addresses |-> "get_inbound_addresses",
          get_outbound_fees |-> "get_outbound_fees",
          get_tx_details |-> "get_tx_details",
          get_deposit_instructions |-> "get_inbound_addresses"]

Handlers == DOMAIN Route

\* The query or body a handler is given: empty; non-empty but without the
\* key the handler requires; with it; with it and a depth int() rejects.
ParamShapes == {"empty", "lacking", "complete", "bad_depth"}

ASSUME TrafficAssumption == Traffic \subseteq Handlers /\ TrafficParams \subseteq ParamShapes

\* Handlers that reject an empty mapping (`if not params`).
NeedsParams == {"create_order", "update_order", "cancel_order", "get_order"}

\* Fault-injection variant of NeedsKey: the withdraw fields left unchecked.
NeedsKey_NoWithdraw == {"get_depth", "get_withdraw", "get_tx_details"}

\* Handlers that require a named key (symbol; the five withdraw fields;
\* withdrawId/withdraw_id; txId/tx_id).
NeedsKey == {"get_depth", "withdraw", "get_withdraw", "get_tx_details"}

\* What the handler does before it reaches _execute_api_call: "bad" is
\* _bad_request (400); "raise" is int(depth) raising ValueError.
Validate(h, p) ==
    IF \/ h \in NeedsParams /\ p = "empty"
       \/ h \in NeedsKey /\ p \in {"empty", "lacking"}
    THEN "bad"
    ELSE IF h = "get_depth" /\ p = "bad_depth" THEN "raise" ELSE "ok"

(***************************************************************************)
(* Responses: status and body.  A body is its error-message cause and its  *)
(* payload ("none" when absent); status 0 marks a handler that raised.     *)
(***************************************************************************)
Response(status, msg, payload) == [status |-> status, msg |-> msg, payload |-> payload]
NoResponse == Response(0, "none", "none")
BadRequest == Response(400, "bad_request", "none")
NotReady == Response(503, "not_ready", "none")
Raised == Response(0, "raised", "none")

\* The exceptions that reach _execute_api_call's `except Exception`.
SessionClosedOutcome == Outcome("exception", 0, "session_closed", "none")
TimeoutOutcome == Outcome("exception", 0, "timeout", "none")

\* Fault-injection variant of ExecuteResult: unexpected errors answered 504.
ExecuteResult_Gateway(o) ==
    CASE o.kind = "result"    -> Response(200, "none", o.payload)
      [] o.kind = "api_error" -> Response(o.status, o.msg, o.payload)
      [] o.kind = "exception" -> Response(504, o.msg, "none")

\* Fault-injection variant of ExecuteResult: only HarborAPIError is caught,
\* any other exception escapes the handler.
ExecuteResult_Uncaught(o) ==
    CASE o.kind = "result"    -> Response(200, "none", o.payload)
      [] o.kind = "api_error" -> Response(o.status, o.msg, o.payload)
      [] o.kind = "exception" -> Raised

\* _execute_api_call's conversion of an outcome of the client.
ExecuteResult(o) ==
    CASE o.kind = "result"    -> Response(200, "none", o.payload)
      [] o.kind = "api_error" -> Response(o.status, o.msg, o.payload)
      [] o.kind = "exception" -> Response(500, o.msg, "none")

\* Fault-injection variant of TimeoutArmed: no timeout is ever armed.
TimeoutArmed_Dropped == FALSE

\* HarborAPI._timeout: a per-request timeout is passed to every
\* session.request, None when request_timeout is unset; aiohttp turns an
\* explicit None into ClientTimeout(total=None), overriding the session's.
TimeoutArmed == RequestTimeoutSet

(***************************************************************************)
(* Lifecycle.                                                              *)
(***************************************************************************)
LcStates == {"idle", "start_super", "start_api", "start_sess",
             "stop_super", "stop_api", "stop_sess"}

\* The host calls start(); it suspends in DexCommon.start().
CallStart(c) ==
    /\ lpc[c] = "idle"
    /\ lcalls < MaxLifecycleCalls
    /\ lpc' = [lpc EXCEPT ![c] = "start_super"]
    /\ lcalls' = lcalls + 1
    /\ UNCHANGED <<session, api, open, nsess, requestVars>>

\* The host calls stop(); it suspends in DexCommon.stop().
CallStop(c) ==
    /\ lpc[c] = "idle"
    /\ lcalls < MaxLifecycleCalls
    /\ lpc' = [lpc EXCEPT ![c] = "stop_super"]
    /\ lcalls' = lcalls + 1
    /\ UNCHANGED <<session, api, open, nsess, requestVars>>

\* A new ClientSession and a HarborAPI wrapping it; start() returns.
CreateClient(c) ==
    /\ nsess' = nsess + 1
    /\ session' = nsess + 1
    /\ api' = nsess + 1
    /\ open' = open \cup {nsess + 1}
    /\ lpc' = [lpc EXCEPT ![c] = "idle"]

\* From `self._api = None` on: close the session if it is open (and suspend),
\* else create the new one.
StartTail(c) ==
    \/ /\ session \in open
       /\ open' = open \ {session}
       /\ api' = NoSession
       /\ lpc' = [lpc EXCEPT ![c] = "start_sess"]
       /\ UNCHANGED <<session, nsess>>
    \/ /\ session \notin open
       /\ CreateClient(c)

\* Fault-injection variant of StartAfterSuper: no teardown of the previous
\* client and session before the new ones are created.
StartAfterSuper_NoTeardown(c) ==
    /\ lpc[c] = "start_super"
    /\ CreateClient(c)
    /\ UNCHANGED <<lcalls, requestVars>>

\* start() resumes after DexCommon.start(): close the old client if there is
\* one whose session is open (and suspend), else go on.
StartAfterSuper(c) ==
    /\ lpc[c] = "start_super"
    /\ \/ /\ api \in open
          /\ open' = open \ {api}
          /\ lpc' = [lpc EXCEPT ![c] = "start_api"]
          /\ UNCHANGED <<session, api, nsess>>
       \/ /\ api \notin open
          /\ StartTail(c)
    /\ UNCHANGED <<lcalls, requestVars>>

\* start() resumes after `await self._api.close()`.
StartAfterApiClose(c) ==
    /\ lpc[c] = "start_api"
    /\ StartTail(c)
    /\ UNCHANGED <<lcalls, requestVars>>

\* start() resumes after `await self._session.close()`.
StartAfterSessionClose(c) ==
    /\ lpc[c] = "start_sess"
    /\ CreateClient(c)
    /\ UNCHANGED <<lcalls, requestVars>>

\* Fault-injection variant of StopTail: `self._session = None` forgotten.
StopTail_KeepSession(c) ==
    \/ /\ session \in open
       /\ open' = open \ {session}
       /\ api' = NoSession
       /\ lpc' = [lpc EXCEPT ![c] = "stop_sess"]
       /\ UNCHANGED session
    \/ /\ session \notin open
       /\ api' = NoSession
       /\ lpc' = [lpc EXCEPT ![c] = "idle"]
       /\ UNCHANGED <<session, open>>

\* From `self._api = None` on: close the session if it is open (and suspend),
\* else clear it; stop() returns.
StopTail(c) ==
    \/ /\ session \in open
       /\ open' = open \ {session}
       /\ api' = NoSession
       /\ lpc' = [lpc EXCEPT ![c] = "stop_sess"]
       /\ UNCHANGED session
    \/ /\ session \notin open
       /\ session' = NoSession
       /\ api' = NoSession
       /\ lpc' = [lpc EXCEPT ![c] = "idle"]
       /\ UNCHANGED open

\* Fault-injection variant of StopAfterSuper: stop() drops _api and _session
\* without closing them.
StopAfterSuper_NoClose(c) ==
    /\ lpc[c] = "stop_super"
    /\ session' = NoSession
    /\ api' = NoSession
    /\ lpc' = [lpc EXCEPT ![c] = "idle"]
    /\ UNCHANGED <<open, nsess, lcalls, requestVars>>

\* stop() resumes after DexCommon.stop(): close the client if there is one
\* whose session is open (and suspend), else go on.
StopAfterSuper(c) ==
    /\ lpc[c] = "stop_super"
    /\ \/ /\ api \in open
          /\ open' = open \ {api}
          /\ lpc' = [lpc EXCEPT ![c] = "stop_api"]
          /\ UNCHANGED <<session, api>>
       \/ /\ api \notin open
          /\ StopTail(c)
    /\ UNCHANGED <<nsess, lcalls, requestVars>>

\* stop() resumes after `await self._api.close()`.
StopAfterApiClose(c) ==
    /\ lpc[c] = "stop_api"
    /\ StopTail(c)
    /\ UNCHANGED <<nsess, lcalls, requestVars>>

\* stop() resumes after `await self._session.close()`.
StopAfterSessionClose(c) ==
    /\ lpc[c] = "stop_sess"
    /\ session' = NoSession
    /\ lpc' = [lpc EXCEPT ![c] = "idle"]
    /\ UNCHANGED <<api, open, nsess, lcalls, requestVars>>

\* The steps a caller takes when the event loop resumes it.
LifecycleResume(c) ==
    \/ StartAfterSuper(c) \/ StartAfterApiClose(c) \/ StartAfterSessionClose(c)
    \/ StopAfterSuper(c) \/ StopAfterApiClose(c) \/ StopAfterSessionClose(c)

(***************************************************************************)
(* Requests.  A handler runs without suspending from its dispatch through  *)
(* validation, _execute_api_call's read of self._api and the client's      *)
(* checks up to aiohttp's first real suspension inside session.request;    *)
(* the request then awaits Harbor.                                         *)
(***************************************************************************)
\* The handler returns `response`; rev records how the call ended.
Finish(r, response, event) ==
    /\ rpc' = [rpc EXCEPT ![r] = "done"]
    /\ resp' = [resp EXCEPT ![r] = response]
    /\ rev' = [rev EXCEPT ![r] = event]

\* _execute_api_call(op) from its read of self._api to the send: no client
\* (503); an xnode call without an xnode base (500); a client whose session
\* is closed, where aiohttp raises RuntimeError("Session is closed") (500);
\* else the request is sent on the client's session.
ExecuteApiCall(r, op) ==
    \/ /\ api = NoSession
       /\ Finish(r, NotReady, "no_client")
       /\ UNCHANGED rsess
    \/ /\ api # NoSession
       /\ op \in XnodeOps /\ ~XnodeConfigured
       /\ Finish(r, ExecuteResult(XnodeUnconfiguredOutcome), "unconfigured")
       /\ UNCHANGED rsess
    \/ /\ api # NoSession
       /\ op \in RestOps \/ XnodeConfigured
       /\ api \notin open
       /\ Finish(r, ExecuteResult(SessionClosedOutcome), "closed_session")
       /\ UNCHANGED rsess
    \/ /\ api \in open
       /\ op \in RestOps \/ XnodeConfigured
       /\ rpc' = [rpc EXCEPT ![r] = "inflight"]
       /\ rsess' = [rsess EXCEPT ![r] = api]
       /\ rev' = [rev EXCEPT ![r] = "inflight"]
       /\ UNCHANGED resp

\* The web server dispatches request r to handler h with params p.
Dispatch(r) ==
    /\ rpc[r] = "idle"
    /\ \E h \in Traffic, p \in TrafficParams :
          /\ rreq' = [rreq EXCEPT ![r] = [handler |-> h, params |-> p]]
          /\ \/ /\ Validate(h, p) = "bad"
                /\ Finish(r, BadRequest, "not_sent")
                /\ UNCHANGED rsess
             \/ /\ Validate(h, p) = "raise"
                /\ Finish(r, Raised, "not_sent")
                /\ UNCHANGED rsess
             \/ /\ Validate(h, p) = "ok"
                /\ ExecuteApiCall(r, Route[h])
    /\ UNCHANGED <<rrep, rfrom, lifecycleVars>>

\* Fault-injection variant of DepositAnswer: the `status != 200` test
\* dropped, instructions built whatever the sub-call answered.
DepositAnswer_PassFailure(response) == Response(200, "none", "instructions")

\* _get_deposit_instructions after its sub-call: a failure is returned as
\* it is, a success becomes the instructions (inbound addresses, the
\* from-address table, the websocket URL).
DepositAnswer(response) ==
    IF response.status # 200 THEN response ELSE Response(200, "none", "instructions")

\* The handler's answer once _execute_api_call has returned `response`.
Answer(h, response) == IF h = "get_deposit_instructions" THEN DepositAnswer(response) ELSE response

\* Harbor's reply arrives on the open connection and is read in full; the
\* handler resumes and returns without suspending again.  The from-address
\* table deposit instructions read is the one the last client creation
\* computed, that of the start() that created session nsess.
UpstreamReply(r) ==
    /\ rpc[r] = "inflight"
    /\ rsess[r] \in open
    /\ \E reply \in Replies :
          LET result == ExecuteResult(SendOutcome(reply)) IN
          /\ rrep' = [rrep EXCEPT ![r] = reply]
          /\ Finish(r, Answer(rreq[r].handler, result), "reply")
          /\ rfrom' = IF rreq[r].handler = "get_deposit_instructions" /\ result.status = 200
                      THEN [rfrom EXCEPT ![r] = nsess] ELSE rfrom
    /\ UNCHANGED <<rreq, rsess, lifecycleVars>>

\* The exchange fails with an aiohttp.ClientError (refused, reset, DNS).
ConnectionError(r) ==
    /\ rpc[r] = "inflight"
    /\ rsess[r] \in open
    /\ Finish(r, ExecuteResult(NetworkErrorOutcome), "client_error")
    /\ UNCHANGED <<rreq, rsess, rrep, rfrom, lifecycleVars>>

\* The session was closed under the request: closing the connector closes
\* its connections and the pending read fails with a ClientError.
SessionClosedUnder(r) ==
    /\ rpc[r] = "inflight"
    /\ rsess[r] \notin open
    /\ Finish(r, ExecuteResult(NetworkErrorOutcome), "client_error")
    /\ UNCHANGED <<rreq, rsess, rrep, rfrom, lifecycleVars>>

\* aiohttp's total timeout expires: asyncio.TimeoutError, not a ClientError.
TimeoutFires(r) ==
    /\ rpc[r] = "inflight"
    /\ TimeoutArmed
    /\ Finish(r, ExecuteResult(TimeoutOutcome), "timeout")
    /\ UNCHANGED <<rreq, rsess, rrep, rfrom, lifecycleVars>>

(***************************************************************************)
(* The specification.                                                      *)
(***************************************************************************)
Init ==
    /\ session = NoSession
    /\ api = NoSession
    /\ open = {}
    /\ nsess = 0
    /\ lpc = [c \in Callers |-> "idle"]
    /\ lcalls = 0
    /\ rpc = [r \in Requests |-> "idle"]
    /\ rreq = [r \in Requests |-> [handler |-> "none", params |-> "none"]]
    /\ rsess = [r \in Requests |-> NoSession]
    /\ rev = [r \in Requests |-> "none"]
    /\ rrep = [r \in Requests |-> NoReply]
    /\ resp = [r \in Requests |-> NoResponse]
    /\ rfrom = [r \in Requests |-> 0]

\* Every request answered and every lifecycle call made and returned: the
\* adapter idles.
Quiescent ==
    /\ \A r \in Requests : rpc[r] = "done"
    /\ \A c \in Callers : lpc[c] = "idle"
    /\ lcalls = MaxLifecycleCalls
    /\ UNCHANGED vars

Next ==
    \/ \E c \in Callers : CallStart(c) \/ CallStop(c) \/ LifecycleResume(c)
    \/ \E r \in Requests :
          \/ Dispatch(r) \/ UpstreamReply(r) \/ ConnectionError(r)
          \/ SessionClosedUnder(r) \/ TimeoutFires(r)
    \/ Quiescent

\* The event loop resumes every task whose await has completed, and a timer
\* or a closed connection is always delivered; the host, the clients and
\* Harbor itself are under no obligation to act.
Fairness ==
    /\ \A c \in Callers : WF_vars(LifecycleResume(c))
    /\ \A r \in Requests : WF_vars(SessionClosedUnder(r)) /\ WF_vars(TimeoutFires(r))

Spec == Init /\ [][Next]_vars /\ Fairness

(***************************************************************************)
(* Properties.                                                             *)
(***************************************************************************)
RespStatuses == {0, 200, 400, 500, 503} \cup UpstreamStatuses
Payloads == {"none", "dict", "list", "str", "wrapped", "instructions"}
Msgs == {"none", "bad_request", "raised", "not_ready", "xnode_unconfigured",
         "session_closed", "timeout", "decode_error", "network", "upstream_status"}
Events == {"none", "not_sent", "no_client", "unconfigured", "closed_session",
           "inflight", "reply", "client_error", "timeout"}

TypeOK ==
    /\ session \in Nat /\ api \in Nat /\ nsess \in Nat
    /\ open \subseteq 1..nsess
    /\ session <= nsess /\ api <= nsess
    /\ lpc \in [Callers -> LcStates]
    /\ lcalls \in 0..MaxLifecycleCalls
    /\ rpc \in [Requests -> {"idle", "inflight", "done"}]
    /\ rreq \in [Requests -> [handler : Handlers \cup {"none"},
                              params : ParamShapes \cup {"none"}]]
    /\ rsess \in [Requests -> 0..nsess]
    /\ rev \in [Requests -> Events]
    /\ rrep \in [Requests -> Replies \cup {NoReply}]
    /\ resp \in [Requests -> [status : RespStatuses, msg : Msgs, payload : Payloads]]
    /\ rfrom \in [Requests -> 0..nsess]

\* Spec 3 and 8: validation happens before any upstream call.  A request
\* that lacks what the spec's endpoint table (section 6) requires is answered
\* 400 and never reaches session.request, whatever the lifecycle state.
SpecRequiresKey == {"get_depth", "withdraw", "get_withdraw", "get_tx_details"}
SpecRequiresBody == {"create_order", "update_order", "cancel_order", "get_order"}
ValidationBeforeUpstream ==
    \A r \in Requests :
        (\/ rreq[r].handler \in SpecRequiresKey /\ rreq[r].params \in {"empty", "lacking"}
         \/ rreq[r].handler \in SpecRequiresBody /\ rreq[r].params = "empty")
        => rev[r] = "not_sent" /\ resp[r] = BadRequest

\* Session hygiene (spec: "exactly one live upstream session per adapter
\* instance ... no leaked connections across restarts"): every session that
\* is still open is one the adapter still references through _session or
\* through _api, so a later start() or stop() can close it.  start() and
\* stop() close and replace these references across several awaits.
NoLeakedSession == open \subseteq {session, api}

\* Spec: "the session and client are both None before start() and both
\* non-None after".  Whenever no start() or stop() is under way, _api wraps
\* exactly _session, and that session is open when there is one.
ClientSessionPaired ==
    (\A c \in Callers : lpc[c] = "idle") =>
        /\ api = session
        /\ session # NoSession => session \in open

UpstreamErrorRelayed ==
    \A r \in Requests :
        (/\ rev[r] = "reply"
         /\ rrep[r].status >= 400
         /\ ParseBody(rrep[r]) # "decode_error")
        => resp[r] = Response(rrep[r].status, "upstream_status", ParseBody(rrep[r]))

\* Spec 4.1 and 7: a handler answers 200 exactly when Harbor answered its
\* request with a parsable reply below 400.  No other path (no client, a
\* closed or unconfigured client, a transport error, a timeout, deposit
\* instructions over a failed inbound-addresses call, harbor.py 309-320)
\* makes up a success, and a late timeout does not undo one.
SuccessOnlyFromHarbor ==
    \A r \in Requests :
        rpc[r] = "done" =>
            (resp[r].status = 200 <=> /\ rev[r] = "reply"
                                      /\ rrep[r].status < 400
                                      /\ ParseBody(rrep[r]) # "decode_error")

\* Spec 8: "for all upstream responses with status >= 400, the resulting
\* error's status equals the upstream status".
UpstreamErrorStatusKept ==
    \A r \in Requests :
        rev[r] = "reply" /\ rrep[r].status >= 400 => resp[r].status = rrep[r].status

\* Spec 4.2(5), 7e: a request that finds no usable client (none, or one
\* whose session has been closed by a stop() or start() under way) is
\* answered 503 "client not initialised".
NotReadyIs503 ==
    \A r \in Requests : rev[r] \in {"no_client", "closed_session"} => resp[r].status = 503

\* Spec 4.1, 7c: a transport failure, a timeout included, becomes 503.
TransportFailureIs503 ==
    \A r \in Requests : rev[r] \in {"client_error", "timeout"} => resp[r].status = 503

\* Spec 7: "no exception/fault ever crosses into the caller-facing surface":
\* every handler that finished returned a (status, body) pair.
HandlerAlwaysResponds ==
    \A r \in Requests : rpc[r] = "done" => resp[r].status # 0

\* Spec 7, where the code meets it: _execute_api_call's catch-all turns
\* every failure of the client (HarborAPIError, the RuntimeError of a closed
\* session, a JSON decode error, a timeout) into a (status, body) pair, so
\* the one way a finished handler can have raised is int() rejecting
\* get_depth's depth before that call (harbor.py 255).
OnlyDepthConversionRaises ==
    \A r \in Requests :
        rpc[r] = "done" /\ resp[r].status = 0
            => rreq[r] = [handler |-> "get_depth", params |-> "bad_depth"]

\* Liveness: with a request or a session timeout configured, every request
\* sent to Harbor is eventually answered, even if Harbor never replies and
\* even across stop() and start().
TimeoutBoundsRequests ==
    (RequestTimeoutSet \/ SessionTimeoutSet) =>
        \A r \in Requests : rpc[r] = "inflight" ~> rpc[r] = "done"

\* Liveness: stop() (harbor.py 202-211) answers every request that is in
\* flight when it is called, even with no timeout configured: it closes the
\* client and session the request was sent on, and closing the connector
\* fails the pending read.  A request sent meanwhile on a session that
\* stop() does not close would wait on Harbor for ever.
StopDrainsRequests ==
    \A r \in Requests, c \in Callers :
        rpc[r] = "inflight" /\ lpc[c] = "stop_super" ~> rpc[r] = "done"

\* Deposit instructions (harbor.py 309-320) read _from_addresses after the
\* inbound-addresses call has awaited Harbor.  A 200 answer pairs the
\* inbound addresses fetched through a client with the from-address table
\* computed by the same start() that created that client, even when
\* stop() and start() ran while the call was in flight.
DepositFromSameStart ==
    \A r \in Requests :
        rfrom[r] # 0 => rfrom[r] = rsess[r]
\* The refinement mapping: the usable client is _api when its session is
\* open; the clients made are the sessions created; a request was sent on
\* the session rsess records.
LiveClient == IF api # NoSession /\ api \in open THEN api ELSE NoSession
Lifecycle == INSTANCE HarborLifecycle WITH client <- LiveClient, made <- nsess, sentOn <- rsess

\* Spec 3 and 4.2 as a specification: start() and stop() (harbor.py
\* 169-211), with requests dispatched meanwhile, implement the abstract
\* lifecycle: a new client only once the old one is closed, and requests
\* sent through the one usable client.
ImplementsLifecycle == Lifecycle!Spec

\* The inductive strengthening of NoLeakedSession and ClientSessionPaired
\* when one task of the host makes the lifecycle calls (c0 the only
\* caller): at most the session _session names is open, and where start()
\* or stop() is suspended fixes how _api and _session stand to it.
HygieneInv(c0) ==
    /\ TypeOK
    /\ open \subseteq {session}
    /\ lpc[c0] \in {"idle", "start_super", "stop_super"} =>
           /\ api = session
           /\ session # NoSession => session \in open
    /\ lpc[c0] \in {"start_api", "stop_api"} => api = session /\ open = {}
    /\ lpc[c0] \in {"start_sess", "stop_sess"} => api = NoSession /\ open = {}
=============================================================================
