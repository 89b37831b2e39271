---------------------------- MODULE HarborProofs ----------------------------
(***************************************************************************)
(* Proofs about the Harbor adapter model, for every value of the constants *)
(* that satisfies ConstantsAssumption and TrafficAssumption.               *)
(***************************************************************************)
EXTENDS Harbor, TLAPS

\* The response a handler builds from any outcome the client can produce is
\* a well-typed response.
LEMMA ExecuteResultType ==
    ASSUME NEW reply \in Replies
    PROVE  /\ ExecuteResult(SendOutcome(reply)) \in
                  [status : RespStatuses, msg : Msgs, payload : Payloads]
           /\ ExecuteResult(NetworkErrorOutcome) \in
                  [status : RespStatuses, msg : Msgs, payload : Payloads]
           /\ ExecuteResult(XnodeUnconfiguredOutcome) \in
                  [status : RespStatuses, msg : Msgs, payload : Payloads]
           /\ ExecuteResult(SessionClosedOutcome) \in
                  [status : RespStatuses, msg : Msgs, payload : Payloads]
           /\ ExecuteResult(TimeoutOutcome) \in
                  [status : RespStatuses, msg : Msgs, payload : Payloads]
<1>1. ParseBody(reply) \in {"dict", "list", "str", "decode_error"}
    <2>1. reply.body \in BodyKinds /\ reply.json \in BOOLEAN
        BY ConstantsAssumption DEF Replies
    <2>2. \A b \in BodyKinds : JsonShape[b] \in {"dict", "list", "decode_error"}
        BY DEF JsonShape, BodyKinds
    <2>. QED
        BY <2>1, <2>2 DEF ParseBody
<1>2. reply.status \in UpstreamStatuses
    BY DEF Replies
<1>. QED
    BY <1>1, <1>2 DEF ExecuteResult, SendOutcome, Outcome, Response, NetworkErrorOutcome,
       XnodeUnconfiguredOutcome, SessionClosedOutcome, TimeoutOutcome,
       RespStatuses, Msgs, Payloads

\* The initial state of the adapter (no session, no client, no request
\* received) is well typed.
LEMMA TypeInit == Init => TypeOK
BY ConstantsAssumption DEF Init, TypeOK, NoSession, NoReply, Replies, NoResponse,
   Response, RespStatuses, Msgs, Payloads, Events, LcStates

\* Every step of a lifecycle call or a handler keeps the state well typed.
LEMMA TypeOKInductive == TypeOK /\ [Next]_vars => TypeOK'
<1> SUFFICES ASSUME TypeOK, [Next]_vars PROVE TypeOK'
    OBVIOUS
<1>1. ASSUME NEW c \in Callers, CallStart(c) \/ CallStop(c) PROVE TypeOK'
    <2>1. UNCHANGED <<session, api, open, nsess, rpc, rreq, rsess, rev, rrep, resp, rfrom>>
        BY <1>1 DEF CallStart, CallStop, requestVars
    <2>2. lcalls' \in 0..MaxLifecycleCalls
        BY <1>1, ConstantsAssumption DEF CallStart, CallStop, TypeOK
    <2>3. lpc' \in [Callers -> LcStates]
        BY <1>1 DEF CallStart, CallStop, TypeOK, LcStates
    <2>. QED
        BY <2>1, <2>2, <2>3 DEF TypeOK
<1>2. ASSUME NEW c \in Callers, LifecycleResume(c) PROVE TypeOK'
    <2>0. UNCHANGED <<lcalls, rpc, rreq, rsess, rev, rrep, resp, rfrom>>
        BY <1>2 DEF LifecycleResume, StartAfterSuper, StartAfterApiClose,
           StartAfterSessionClose, StopAfterSuper, StopAfterApiClose,
           StopAfterSessionClose, requestVars
    <2>. USE <2>0 DEF TypeOK, LcStates, NoSession
    <2>a. ASSUME CreateClient(c) PROVE TypeOK'
        <3>1. nsess' \in Nat /\ session' = nsess' /\ api' = nsess'
            BY <2>a DEF CreateClient
        <3>2. open' \subseteq 1..nsess'
            BY <2>a DEF CreateClient
        <3>3. lpc' \in [Callers -> LcStates] /\ rsess \in [Requests -> 0..nsess']
              /\ rfrom \in [Requests -> 0..nsess']
            BY <2>a DEF CreateClient
        <3>. QED
            BY <3>1, <3>2, <3>3
    <2>1. ASSUME StartTail(c) PROVE TypeOK'
        <3>1. CASE session \in open /\ open' = open \ {session} /\ api' = NoSession
                   /\ lpc' = [lpc EXCEPT ![c] = "start_sess"]
                   /\ UNCHANGED <<session, nsess>>
            BY <3>1
        <3>. QED
            BY <2>1, <2>a, <3>1 DEF StartTail
    <2>2. ASSUME StopTail(c), UNCHANGED nsess PROVE TypeOK'
        <3>1. CASE session \in open /\ open' = open \ {session} /\ api' = NoSession
                   /\ lpc' = [lpc EXCEPT ![c] = "stop_sess"]
                   /\ UNCHANGED session
            BY <3>1, <2>2 DEF StopTail
        <3>2. CASE session \notin open /\ session' = NoSession /\ api' = NoSession
                   /\ lpc' = [lpc EXCEPT ![c] = "idle"]
                   /\ UNCHANGED open
            BY <3>2, <2>2 DEF StopTail
        <3>. QED
            BY <2>2, <3>1, <3>2 DEF StopTail
    <2>3. CASE StartAfterSuper(c)
        BY <2>1, <2>3 DEF StartAfterSuper
    <2>4. CASE StartAfterApiClose(c)
        BY <2>1, <2>4 DEF StartAfterApiClose
    <2>5. CASE StartAfterSessionClose(c)
        BY <2>5 DEF StartAfterSessionClose, CreateClient
    <2>6. CASE StopAfterSuper(c)
        BY <2>2, <2>6 DEF StopAfterSuper
    <2>7. CASE StopAfterApiClose(c)
        BY <2>2, <2>7 DEF StopAfterApiClose
    <2>8. CASE StopAfterSessionClose(c)
        BY <2>8 DEF StopAfterSessionClose
    <2>. QED
        BY <1>2, <2>3, <2>4, <2>5, <2>6, <2>7, <2>8 DEF LifecycleResume
<1>3. ASSUME NEW r \in Requests, Dispatch(r) PROVE TypeOK'
    <2>1. PICK h \in Traffic, p \in TrafficParams :
              /\ rreq' = [rreq EXCEPT ![r] = [handler |-> h, params |-> p]]
              /\ \/ Validate(h, p) = "bad" /\ Finish(r, BadRequest, "not_sent")
                    /\ UNCHANGED rsess
                 \/ Validate(h, p) = "raise" /\ Finish(r, Raised, "not_sent")
                    /\ UNCHANGED rsess
                 \/ Validate(h, p) = "ok" /\ ExecuteApiCall(r, Route[h])
        BY <1>3 DEF Dispatch
    <2>2. rreq' \in [Requests -> [handler : Handlers \cup {"none"},
                                  params : ParamShapes \cup {"none"}]]
        BY <2>1, TrafficAssumption DEF TypeOK
    <2>3. ExecuteResult(XnodeUnconfiguredOutcome) \in
              [status : RespStatuses, msg : Msgs, payload : Payloads]
          /\ ExecuteResult(SessionClosedOutcome) \in
              [status : RespStatuses, msg : Msgs, payload : Payloads]
        BY ExecuteResultType DEF ExecuteResult, XnodeUnconfiguredOutcome,
           SessionClosedOutcome, Outcome, Response, RespStatuses, Msgs, Payloads
    <2>4. UNCHANGED lifecycleVars /\ UNCHANGED <<rrep, rfrom>>
        BY <1>3 DEF Dispatch
    <2>5. \A x \in {BadRequest, Raised, NotReady} :
              x \in [status : RespStatuses, msg : Msgs, payload : Payloads]
        BY DEF BadRequest, Raised, NotReady, Response, RespStatuses, Msgs, Payloads
    <2>6. ASSUME NEW response \in [status : RespStatuses, msg : Msgs, payload : Payloads],
                 NEW event \in Events,
                 Finish(r, response, event), UNCHANGED rsess
          PROVE  TypeOK'
        BY <2>2, <2>4, <2>6 DEF Finish, TypeOK, lifecycleVars
    <2>7. ASSUME ExecuteApiCall(r, Route[h]) PROVE TypeOK'
        <3>1. CASE api \in open /\ rpc' = [rpc EXCEPT ![r] = "inflight"]
                   /\ rsess' = [rsess EXCEPT ![r] = api]
                   /\ rev' = [rev EXCEPT ![r] = "inflight"]
                   /\ UNCHANGED resp
            BY <2>2, <2>4, <3>1 DEF TypeOK, lifecycleVars, Events
        <3>. QED
            BY <2>3, <2>5, <2>6, <2>7, <3>1 DEF ExecuteApiCall, Events
    <2>. QED
        BY <2>1, <2>5, <2>6, <2>7 DEF Events
<1>4. ASSUME NEW r \in Requests, UpstreamReply(r) PROVE TypeOK'
    <2>1. PICK reply \in Replies :
              LET result == ExecuteResult(SendOutcome(reply)) IN
              /\ rrep' = [rrep EXCEPT ![r] = reply]
              /\ Finish(r, Answer(rreq[r].handler, result), "reply")
              /\ rfrom' = IF rreq[r].handler = "get_deposit_instructions" /\ result.status = 200
                          THEN [rfrom EXCEPT ![r] = nsess] ELSE rfrom
        BY <1>4 DEF UpstreamReply
    <2>2. ExecuteResult(SendOutcome(reply)) \in
              [status : RespStatuses, msg : Msgs, payload : Payloads]
        BY ExecuteResultType
    <2>3. Answer(rreq[r].handler, ExecuteResult(SendOutcome(reply))) \in
              [status : RespStatuses, msg : Msgs, payload : Payloads]
        BY <2>2 DEF Answer, DepositAnswer, Response, RespStatuses, Msgs, Payloads
    <2>4. UNCHANGED <<session, api, open, nsess, lpc, lcalls, rreq, rsess>>
        BY <1>4 DEF UpstreamReply, lifecycleVars
    <2>5. rfrom' \in [Requests -> 0..nsess']
        BY <2>1, <2>4 DEF TypeOK
    <2>. QED
        BY <2>1, <2>3, <2>4, <2>5 DEF TypeOK, Finish, Events, Replies, NoReply
<1>5. ASSUME NEW r \in Requests,
             ConnectionError(r) \/ SessionClosedUnder(r) \/ TimeoutFires(r)
      PROVE TypeOK'
    <2>1. /\ ExecuteResult(NetworkErrorOutcome) \in
              [status : RespStatuses, msg : Msgs, payload : Payloads]
          /\ ExecuteResult(TimeoutOutcome) \in
              [status : RespStatuses, msg : Msgs, payload : Payloads]
        BY DEF ExecuteResult, NetworkErrorOutcome, TimeoutOutcome, Outcome,
           Response, RespStatuses, Msgs, Payloads
    <2>2. UNCHANGED <<session, api, open, nsess, lpc, lcalls, rreq, rsess, rrep, rfrom>>
        BY <1>5 DEF ConnectionError, SessionClosedUnder, TimeoutFires, lifecycleVars
    <2>3. PICK x \in {ExecuteResult(NetworkErrorOutcome), ExecuteResult(TimeoutOutcome)},
               e \in {"client_error", "timeout"} : Finish(r, x, e)
        BY <1>5 DEF ConnectionError, SessionClosedUnder, TimeoutFires
    <2>. QED
        BY <2>1, <2>2, <2>3 DEF TypeOK, Finish, Events
<1>6. CASE Quiescent \/ UNCHANGED vars
    <2>1. UNCHANGED <<session, api, open, nsess, lpc, lcalls,
                      rpc, rreq, rsess, rev, rrep, resp, rfrom>>
        BY <1>6 DEF Quiescent, vars, lifecycleVars, requestVars
    <2>. QED
        BY <2>1 DEF TypeOK
<1>. QED
    BY <1>1, <1>2, <1>3, <1>4, <1>5, <1>6 DEF Next

\* Type correctness: every reachable state satisfies TypeOK.
THEOREM TypeCorrect == Spec => []TypeOK
BY TypeInit, TypeOKInductive, PTL DEF Spec
(***************************************************************************)
(* Session hygiene with one lifecycle caller c0.  HygieneInv(c0) is        *)
(* inductive; the steps that create a session or clear _session are       *)
(* taken from a state where no session is open.                            *)
(***************************************************************************)

\* start() creating the new session and client when none is open leaves
\* exactly that session open, referenced by _session and by _api.
LEMMA CreateClientHygiene ==
    ASSUME NEW c0, Callers = {c0}, TypeOK, TypeOK', open = {}, CreateClient(c0)
    PROVE  HygieneInv(c0)'
<1>1. lpc'[c0] = "idle"
    BY DEF CreateClient, TypeOK
<1>2. open' = {session'} /\ api' = session' /\ session' # NoSession
    BY DEF CreateClient, NoSession, TypeOK
<1>. QED
    BY <1>1, <1>2 DEF HygieneInv

\* stop() clearing _session and _api when no session is open leaves the
\* adapter idle with neither.
LEMMA StopClearHygiene ==
    ASSUME NEW c0, Callers = {c0}, TypeOK', open = {}, open' = open,
           session' = NoSession, api' = NoSession, lpc'[c0] = "idle"
    PROVE  HygieneInv(c0)'
BY DEF HygieneInv

\* A step that leaves the lifecycle state alone keeps HygieneInv.
LEMMA LifecycleFrameHygiene ==
    ASSUME NEW c0, HygieneInv(c0), TypeOK', UNCHANGED <<session, api, open, lpc>>
    PROVE  HygieneInv(c0)'
BY DEF HygieneInv

\* The session-hygiene invariant holds in every reachable state when one
\* task of the host makes the lifecycle calls.
LEMMA HygieneInvariant ==
    ASSUME NEW c0, Callers = {c0}
    PROVE  Spec => []HygieneInv(c0)
<1>1. Init => HygieneInv(c0)
    BY TypeInit DEF Init, HygieneInv, NoSession
<1>2. HygieneInv(c0) /\ [Next]_vars => HygieneInv(c0)'
    <2> SUFFICES ASSUME HygieneInv(c0), [Next]_vars PROVE HygieneInv(c0)'
        OBVIOUS
    <2>0. TypeOK /\ TypeOK'
        BY TypeOKInductive DEF HygieneInv
    <2>1. CASE \E c \in Callers : CallStart(c) \/ CallStop(c)
        <3>1. CallStart(c0) \/ CallStop(c0)
            BY <2>1
        <3>2. /\ lpc[c0] = "idle"
              /\ lpc'[c0] \in {"start_super", "stop_super"}
              /\ UNCHANGED <<session, api, open>>
            BY <2>0, <3>1 DEF CallStart, CallStop, TypeOK
        <3>. QED
            BY <2>0, <3>2 DEF HygieneInv
    <2>2. CASE StartAfterSuper(c0)
        <3>1. lpc[c0] = "start_super" /\ api = session /\ open \subseteq {session}
            BY <2>2 DEF StartAfterSuper, HygieneInv
        <3>2. CASE api \in open /\ open' = open \ {api}
                   /\ lpc' = [lpc EXCEPT ![c0] = "start_api"]
                   /\ UNCHANGED <<session, api, nsess>>
            <4>1. lpc'[c0] = "start_api"
                BY <2>0, <3>2 DEF TypeOK
            <4>. QED
                BY <2>0, <3>1, <3>2, <4>1 DEF HygieneInv
        <3>3. CASE api \notin open /\ StartTail(c0)
            <4>1. open = {} /\ session \notin open
                BY <3>1, <3>3
            <4>. QED
                BY <2>0, <3>3, <4>1, CreateClientHygiene DEF StartTail
        <3>. QED
            BY <2>2, <3>2, <3>3 DEF StartAfterSuper
    <2>3. CASE StartAfterApiClose(c0) \/ StartAfterSessionClose(c0)
        <3>1. open = {}
            BY <2>3 DEF StartAfterApiClose, StartAfterSessionClose, HygieneInv
        <3>2. CreateClient(c0)
            BY <2>3, <3>1 DEF StartAfterApiClose, StartAfterSessionClose, StartTail
        <3>. QED
            BY <2>0, <3>1, <3>2, CreateClientHygiene
    <2>4. CASE StopAfterSuper(c0)
        <3>1. lpc[c0] = "stop_super" /\ api = session /\ open \subseteq {session}
            BY <2>4 DEF StopAfterSuper, HygieneInv
        <3>2. CASE api \in open /\ open' = open \ {api}
                   /\ lpc' = [lpc EXCEPT ![c0] = "stop_api"]
                   /\ UNCHANGED <<session, api>>
            <4>1. lpc'[c0] = "stop_api"
                BY <2>0, <3>2 DEF TypeOK
            <4>. QED
                BY <2>0, <3>1, <3>2, <4>1 DEF HygieneInv
        <3>3. CASE api \notin open /\ StopTail(c0)
            <4>1. open = {} /\ session \notin open
                BY <3>1, <3>3
            <4>2. open' = open /\ session' = NoSession /\ api' = NoSession
                  /\ lpc' = [lpc EXCEPT ![c0] = "idle"]
                BY <3>3, <4>1 DEF StopTail
            <4>3. lpc'[c0] = "idle"
                BY <2>0, <4>2 DEF TypeOK
            <4>. QED
                BY <2>0, <4>1, <4>2, <4>3, StopClearHygiene
        <3>. QED
            BY <2>4, <3>2, <3>3 DEF StopAfterSuper
    <2>5. CASE StopAfterApiClose(c0)
        <3>1. open = {} /\ session \notin open
            BY <2>5 DEF StopAfterApiClose, HygieneInv
        <3>2. open' = open /\ session' = NoSession /\ api' = NoSession
              /\ lpc' = [lpc EXCEPT ![c0] = "idle"]
            BY <2>5, <3>1 DEF StopAfterApiClose, StopTail
        <3>3. lpc'[c0] = "idle"
            BY <2>0, <3>2 DEF TypeOK
        <3>. QED
            BY <2>0, <3>1, <3>2, <3>3, StopClearHygiene
    <2>6. CASE StopAfterSessionClose(c0)
        <3>1. open = {} /\ api = NoSession
            BY <2>6 DEF StopAfterSessionClose, HygieneInv
        <3>2. lpc'[c0] = "idle"
            BY <2>0, <2>6 DEF StopAfterSessionClose, TypeOK
        <3>. QED
            BY <2>0, <2>6, <3>1, <3>2, StopClearHygiene DEF StopAfterSessionClose
    <2>7. CASE \E r \in Requests :
                  \/ Dispatch(r) \/ UpstreamReply(r) \/ ConnectionError(r)
                  \/ SessionClosedUnder(r) \/ TimeoutFires(r)
        <3>1. UNCHANGED <<session, api, open, lpc>>
            BY <2>7 DEF Dispatch, UpstreamReply, ConnectionError, SessionClosedUnder,
               TimeoutFires, lifecycleVars
        <3>. QED
            BY <2>0, <3>1, LifecycleFrameHygiene
    <2>8. CASE Quiescent \/ UNCHANGED vars
        <3>1. UNCHANGED <<session, api, open, lpc>>
            BY <2>8 DEF Quiescent, vars, lifecycleVars
        <3>. QED
            BY <2>0, <3>1, LifecycleFrameHygiene
    <2>. QED
        BY <2>1, <2>2, <2>3, <2>4, <2>5, <2>6, <2>7, <2>8 DEF Next, LifecycleResume
<1>. QED
    BY <1>1, <1>2, PTL DEF Spec

\* Session hygiene (NoLeakedSession, ClientSessionPaired): with one task of
\* the host calling start() and stop(), no open session is ever left
\* unreferenced by _session or _api, and between calls _api wraps _session
\* and that session is open.
THEOREM SessionHygiene ==
    ASSUME NEW c0, Callers = {c0}
    PROVE  Spec => [](NoLeakedSession /\ ClientSessionPaired)
<1>1. HygieneInv(c0) => NoLeakedSession /\ ClientSessionPaired
    BY DEF HygieneInv, NoLeakedSession, ClientSessionPaired
<1>. QED
    BY <1>1, HygieneInvariant, PTL

\* ClientSessionPaired (spec 3: "the session and client are both None
\* before start() and both non-None after"): with one host task, whenever
\* start() and stop() are not under way, _api wraps _session and that
\* session is open if set.  The inductive HygieneInv(c0) is what it needs,
\* because inside start() and stop() the pairing is broken on purpose.
THEOREM ClientAlwaysPaired ==
    ASSUME NEW c0, Callers = {c0}
    PROVE  Spec => []ClientSessionPaired
<1>1. HygieneInv(c0) => ClientSessionPaired
    BY DEF HygieneInv, ClientSessionPaired
<1>. QED
    BY <1>1, HygieneInvariant, PTL

=============================================================================
