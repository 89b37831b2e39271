--------------------------- MODULE HarborHandlerProofs ---------------------------
(***************************************************************************)
(* Proofs, for every value of the constants, of the two request-handling   *)
(* invariants of Harbor: a request that fails validation never reaches     *)
(* Harbor and is answered 400, and an upstream error status is relayed.    *)
(***************************************************************************)
EXTENDS HarborProofs

\* Request r carries parameters the spec says must be rejected.
BadShape(r) ==
    \/ rreq[r].handler \in SpecRequiresKey /\ rreq[r].params \in {"empty", "lacking"}
    \/ rreq[r].handler \in SpecRequiresBody /\ rreq[r].params = "empty"

\* The inductive strengthening of ValidationBeforeUpstream: a request not
\* yet dispatched carries no parameters, and a badly shaped one is done, so
\* no completion of an in-flight exchange can overwrite its answer.
ValidationInv ==
    /\ TypeOK
    /\ \A r \in Requests :
          /\ rpc[r] = "idle" => rreq[r].handler = "none"
          /\ BadShape(r) => rpc[r] = "done" /\ rev[r] = "not_sent" /\ resp[r] = BadRequest

\* Every handler rejects the shapes the spec names with _bad_request before
\* _execute_api_call.
LEMMA BadShapeRejected ==
    ASSUME NEW h \in Handlers, NEW p \in ParamShapes,
           \/ h \in SpecRequiresKey /\ p \in {"empty", "lacking"}
           \/ h \in SpecRequiresBody /\ p = "empty"
    PROVE  Validate(h, p) = "bad"
BY DEF Validate, SpecRequiresKey, SpecRequiresBody, NeedsKey, NeedsParams

\* The steps that end an in-flight exchange touch only that request, and
\* only while it is in flight.
LEMMA CompletionShape ==
    ASSUME NEW r \in Requests,
           UpstreamReply(r) \/ ConnectionError(r) \/ SessionClosedUnder(r) \/ TimeoutFires(r)
    PROVE  /\ rpc[r] = "inflight"
           /\ rpc' = [rpc EXCEPT ![r] = "done"]
           /\ UNCHANGED rreq
           /\ \E e \in {"reply", "client_error", "timeout"} : rev' = [rev EXCEPT ![r] = e]
           /\ \E x : resp' = [resp EXCEPT ![r] = x]
BY DEF UpstreamReply, ConnectionError, SessionClosedUnder, TimeoutFires, Finish

LEMMA ValidationInductive == ValidationInv /\ [Next]_vars => ValidationInv'
<1> SUFFICES ASSUME ValidationInv, [Next]_vars, NEW s \in Requests
             PROVE  /\ rpc'[s] = "idle" => rreq'[s].handler = "none"
                    /\ BadShape(s)' => /\ rpc'[s] = "done" /\ rev'[s] = "not_sent"
                                       /\ resp'[s] = BadRequest
    BY TypeOKInductive DEF ValidationInv
<1>0. TypeOK
    BY DEF ValidationInv
<1>1. CASE UNCHANGED <<rpc, rreq, rev, resp>>
    BY <1>1 DEF ValidationInv, BadShape
<1>2. CASE \E r \in Requests : Dispatch(r)
    <2>1. PICK r \in Requests, h \in Traffic, p \in TrafficParams :
              /\ rpc[r] = "idle"
              /\ rreq' = [rreq EXCEPT ![r] = [handler |-> h, params |-> p]]
              /\ \/ /\ Validate(h, p) = "bad"
                    /\ Finish(r, BadRequest, "not_sent")
                 \/ /\ Validate(h, p) = "raise"
                    /\ Finish(r, Raised, "not_sent")
                 \/ /\ Validate(h, p) = "ok"
                    /\ ExecuteApiCall(r, Route[h])
        BY <1>2 DEF Dispatch
    <2>2. \E st, e, x :
              /\ st # "idle"
              /\ rpc' = [rpc EXCEPT ![r] = st]
              /\ rev' = [rev EXCEPT ![r] = e]
              /\ (resp' = resp \/ resp' = [resp EXCEPT ![r] = x])
        BY <2>1 DEF Finish, ExecuteApiCall
    <2>3. CASE s # r
        <3>1. rpc'[s] = rpc[s] /\ rreq'[s] = rreq[s] /\ rev'[s] = rev[s] /\ resp'[s] = resp[s]
            BY <1>0, <2>1, <2>2, <2>3 DEF TypeOK
        <3>. QED
            BY <3>1 DEF ValidationInv, BadShape
    <2>4. CASE s = r
        <3>1. rreq'[s] = [handler |-> h, params |-> p] /\ rpc'[s] # "idle"
            BY <1>0, <2>1, <2>2, <2>4 DEF TypeOK
        <3>2. ASSUME BadShape(s)'
              PROVE  rpc'[s] = "done" /\ rev'[s] = "not_sent" /\ resp'[s] = BadRequest
            <4>1. Validate(h, p) = "bad"
                BY <3>1, <3>2, BadShapeRejected, TrafficAssumption DEF BadShape
            <4>. QED
                BY <1>0, <2>1, <2>4, <4>1 DEF Finish, TypeOK
        <3>. QED
            BY <3>1, <3>2
    <2>. QED
        BY <2>3, <2>4
<1>3. CASE \E r \in Requests : UpstreamReply(r) \/ ConnectionError(r)
                               \/ SessionClosedUnder(r) \/ TimeoutFires(r)
    <2>1. PICK r \in Requests : UpstreamReply(r) \/ ConnectionError(r)
                                \/ SessionClosedUnder(r) \/ TimeoutFires(r)
        BY <1>3
    <2>2. ~BadShape(r)
        BY <2>1, CompletionShape DEF ValidationInv
    <2>3. CASE s = r
        BY <1>0, <2>1, <2>2, <2>3, CompletionShape DEF TypeOK, BadShape
    <2>4. CASE s # r
        <3>1. rpc'[s] = rpc[s] /\ rreq'[s] = rreq[s] /\ rev'[s] = rev[s] /\ resp'[s] = resp[s]
            BY <1>0, <2>1, <2>4, CompletionShape DEF TypeOK
        <3>. QED
            BY <3>1 DEF ValidationInv, BadShape
    <2>. QED
        BY <2>3, <2>4
<1>4. CASE \E c \in Callers : CallStart(c) \/ CallStop(c) \/ LifecycleResume(c)
    BY <1>4, <1>1 DEF CallStart, CallStop, LifecycleResume, StartAfterSuper,
       StartAfterApiClose, StartAfterSessionClose, StopAfterSuper, StopAfterApiClose,
       StopAfterSessionClose, requestVars
<1>5. CASE Quiescent \/ UNCHANGED vars
    BY <1>5, <1>1 DEF Quiescent, vars, requestVars
<1>. QED
    BY <1>2, <1>3, <1>4, <1>5 DEF Next

\* Spec 5 and 6: for every traffic and configuration, a request whose
\* parameters lack a required key or body is answered 400 by the handler's
\* _bad_request and never handed to _execute_api_call.
THEOREM RejectedBeforeUpstream == Spec => []ValidationBeforeUpstream
<1>1. Init => ValidationInv
    BY TypeInit DEF Init, ValidationInv, BadShape, SpecRequiresKey, SpecRequiresBody
<1>2. ValidationInv => ValidationBeforeUpstream
    BY DEF ValidationInv, ValidationBeforeUpstream, BadShape
<1>. QED
    BY <1>1, <1>2, ValidationInductive, PTL DEF Spec

\* _send_request raises a HarborAPIError with the upstream status for a
\* parsed reply of status 400 or more; _execute_api_call answers with it and
\* _get_deposit_instructions passes a non-200 answer through unchanged.
LEMMA RelayedReply ==
    ASSUME NEW reply \in Replies, NEW h,
           reply.status >= 400, ParseBody(reply) # "decode_error"
    PROVE  Answer(h, ExecuteResult(SendOutcome(reply)))
               = Response(reply.status, "upstream_status", ParseBody(reply))
<1>0. reply.status \in UpstreamStatuses
    BY DEF Replies
<1>1. reply.status \in 100..599
    <2>1. UpstreamStatuses \subseteq 100..599
        BY ConstantsAssumption
    <2>. QED
        BY <1>0, <2>1
<1>2. ExecuteResult(SendOutcome(reply))
          = Response(reply.status, "upstream_status", ParseBody(reply))
    BY <1>1 DEF ExecuteResult, SendOutcome, Outcome
<1>. QED
    BY <1>1, <1>2 DEF Answer, DepositAnswer, Response

\* UpstreamErrorRelayed is inductive given TypeOK: only UpstreamReply sets
\* an event "reply", and it sets the reply and the answer with it.
LEMMA ErrorRelayedInductive ==
    TypeOK /\ UpstreamErrorRelayed /\ [Next]_vars => UpstreamErrorRelayed'
<1> SUFFICES ASSUME TypeOK, UpstreamErrorRelayed, [Next]_vars, NEW s \in Requests,
                    rev'[s] = "reply", rrep'[s].status >= 400,
                    ParseBody(rrep'[s]) # "decode_error"
             PROVE  resp'[s] = Response(rrep'[s].status, "upstream_status", ParseBody(rrep'[s]))
    BY DEF UpstreamErrorRelayed
<1>1. CASE UNCHANGED <<rev, rrep, resp>>
    BY <1>1 DEF UpstreamErrorRelayed
<1>2. CASE \E r \in Requests : Dispatch(r) \/ ConnectionError(r)
                               \/ SessionClosedUnder(r) \/ TimeoutFires(r)
    <2>1. PICK r \in Requests : Dispatch(r) \/ ConnectionError(r)
                                \/ SessionClosedUnder(r) \/ TimeoutFires(r)
        BY <1>2
    <2>2. \E e, x : /\ e # "reply"
                    /\ rev' = [rev EXCEPT ![r] = e]
                    /\ (resp' = resp \/ resp' = [resp EXCEPT ![r] = x])
                    /\ UNCHANGED rrep
        BY <2>1 DEF Dispatch, ExecuteApiCall, ConnectionError, SessionClosedUnder,
           TimeoutFires, Finish
    <2>. QED
        BY <2>2 DEF TypeOK, UpstreamErrorRelayed
<1>3. CASE \E r \in Requests : UpstreamReply(r)
    <2>1. PICK r \in Requests, reply \in Replies :
              /\ rrep' = [rrep EXCEPT ![r] = reply]
              /\ resp' = [resp EXCEPT ![r] = Answer(rreq[r].handler,
                                                     ExecuteResult(SendOutcome(reply)))]
              /\ rev' = [rev EXCEPT ![r] = "reply"]
        BY <1>3 DEF UpstreamReply, Finish
    <2>2. CASE s = r
        <3>1. rrep'[s] = reply
            BY <2>1, <2>2 DEF TypeOK
        <3>. QED
            BY <2>1, <2>2, <3>1, RelayedReply DEF TypeOK
    <2>3. CASE s # r
        BY <2>1, <2>3 DEF TypeOK, UpstreamErrorRelayed
    <2>. QED
        BY <2>2, <2>3
<1>4. CASE \E c \in Callers : CallStart(c) \/ CallStop(c) \/ LifecycleResume(c)
    BY <1>4, <1>1 DEF CallStart, CallStop, LifecycleResume, StartAfterSuper,
       StartAfterApiClose, StartAfterSessionClose, StopAfterSuper, StopAfterApiClose,
       StopAfterSessionClose, requestVars
<1>5. CASE Quiescent \/ UNCHANGED vars
    BY <1>5, <1>1 DEF Quiescent, vars, requestVars
<1>. QED
    BY <1>2, <1>3, <1>4, <1>5 DEF Next

\* Spec 8: for every configuration, a Harbor reply of status 400 or more
\* whose body parses is answered with that status, the upstream-status
\* message and the parsed body, whichever handler made the call and
\* whatever start() and stop() do meanwhile.
THEOREM ErrorStatusRelayed == Spec => []UpstreamErrorRelayed
<1>1. Init => UpstreamErrorRelayed
    BY DEF Init, UpstreamErrorRelayed
<1>. QED
    BY <1>1, ErrorRelayedInductive, TypeCorrect, PTL DEF Spec

-----------------------------------------------------------------------------
(* Handlers answer once, and only the depth conversion raises.             *)

\* Every answer _execute_api_call or _get_deposit_instructions builds from
\* an outcome of the client carries a real HTTP status.
LEMMA ConvertedStatusNonZero ==
    ASSUME NEW reply \in Replies, NEW h
    PROVE  Answer(h, ExecuteResult(SendOutcome(reply))).status # 0
<1>1. reply.status \in 100..599
    <2>1. reply.status \in UpstreamStatuses
        BY DEF Replies
    <2>2. UpstreamStatuses \subseteq 100..599
        BY ConstantsAssumption
    <2>. QED
        BY <2>1, <2>2
<1>2. ExecuteResult(SendOutcome(reply)).status \in {200, 500} \cup 100..599
    BY <1>1 DEF ExecuteResult, SendOutcome, Outcome, Response
<1>3. Answer(h, ExecuteResult(SendOutcome(reply))).status \in {200, 500} \cup 100..599
    BY <1>2 DEF Answer, DepositAnswer, Response
<1>. QED
    BY <1>3

\* The answers for no client, a missing xnode base, a closed session, a
\* network error and a timeout carry a real HTTP status.
LEMMA FixedStatusNonZero ==
    /\ NotReady.status # 0
    /\ ExecuteResult(NetworkErrorOutcome).status # 0
    /\ ExecuteResult(XnodeUnconfiguredOutcome).status # 0
    /\ ExecuteResult(SessionClosedOutcome).status # 0
    /\ ExecuteResult(TimeoutOutcome).status # 0
<1>1. NotReady.status # 0
    BY DEF NotReady, Response
<1>2. ExecuteResult(NetworkErrorOutcome).status # 0
    BY DEF ExecuteResult, NetworkErrorOutcome, Outcome, Response
<1>3. ExecuteResult(XnodeUnconfiguredOutcome).status # 0
    BY DEF ExecuteResult, XnodeUnconfiguredOutcome, Outcome, Response
<1>4. ExecuteResult(SessionClosedOutcome).status # 0
    BY DEF ExecuteResult, SessionClosedOutcome, Outcome, Response
<1>5. ExecuteResult(TimeoutOutcome).status # 0
    BY DEF ExecuteResult, TimeoutOutcome, Outcome, Response
<1>. QED
    BY <1>1, <1>2, <1>3, <1>4, <1>5

\* A handler raises only from Validate's "raise", which is get_depth with a
\* depth int() rejects.
LEMMA RaiseIsDepth ==
    ASSUME NEW h, NEW p, Validate(h, p) = "raise"
    PROVE  h = "get_depth" /\ p = "bad_depth"
BY DEF Validate

\* A dispatch touches only its own request, which it takes out of "idle".
LEMMA DispatchShape ==
    ASSUME NEW r \in Requests, Dispatch(r)
    PROVE  /\ rpc[r] = "idle"
           /\ \E st : rpc' = [rpc EXCEPT ![r] = st]
           /\ \E x : rreq' = [rreq EXCEPT ![r] = x]
           /\ \E x : resp' = resp \/ resp' = [resp EXCEPT ![r] = x]
BY DEF Dispatch, ExecuteApiCall, Finish

\* OnlyDepthConversionRaises is inductive given TypeOK.
LEMMA DepthOnlyInductive ==
    TypeOK /\ OnlyDepthConversionRaises /\ [Next]_vars => OnlyDepthConversionRaises'
<1> SUFFICES ASSUME TypeOK, OnlyDepthConversionRaises, [Next]_vars, NEW s \in Requests,
                    rpc'[s] = "done", resp'[s].status = 0
             PROVE  rreq'[s] = [handler |-> "get_depth", params |-> "bad_depth"]
    BY DEF OnlyDepthConversionRaises
<1>1. CASE UNCHANGED <<rpc, rreq, resp>>
    BY <1>1 DEF OnlyDepthConversionRaises
<1>2. CASE \E r \in Requests : Dispatch(r)
    <2>0. PICK r \in Requests : Dispatch(r)
        BY <1>2
    <2>1. PICK h \in Traffic, p \in TrafficParams :
              /\ rpc[r] = "idle"
              /\ rreq' = [rreq EXCEPT ![r] = [handler |-> h, params |-> p]]
              /\ \/ /\ Validate(h, p) = "bad"
                    /\ Finish(r, BadRequest, "not_sent")
                 \/ /\ Validate(h, p) = "raise"
                    /\ Finish(r, Raised, "not_sent")
                 \/ /\ Validate(h, p) = "ok"
                    /\ ExecuteApiCall(r, Route[h])
        BY <2>0 DEF Dispatch
    <2>2. CASE s # r
        <3>1. rpc'[s] = rpc[s] /\ rreq'[s] = rreq[s] /\ resp'[s] = resp[s]
            BY <2>0, <2>2, DispatchShape DEF TypeOK
        <3>. QED
            BY <3>1 DEF OnlyDepthConversionRaises
    <2>3. CASE s = r
        <3>1. rreq'[s] = [handler |-> h, params |-> p]
            BY <2>1, <2>3 DEF TypeOK
        <3>2. CASE Validate(h, p) = "bad" /\ Finish(r, BadRequest, "not_sent")
            BY <2>3, <3>2 DEF Finish, BadRequest, Response, TypeOK
        <3>3. CASE Validate(h, p) = "raise"
            BY <3>1, <3>3, RaiseIsDepth
        <3>4. CASE Validate(h, p) = "ok" /\ ExecuteApiCall(r, Route[h])
            <4>1. ASSUME NEW o \in {NotReady, ExecuteResult(XnodeUnconfiguredOutcome),
                                   ExecuteResult(SessionClosedOutcome)}
                  PROVE  o.status # 0
                BY FixedStatusNonZero
            <4>. QED
                BY <2>3, <3>4, <4>1 DEF ExecuteApiCall, Finish, TypeOK
        <3>. QED
            BY <2>1, <3>2, <3>3, <3>4
    <2>. QED
        BY <2>2, <2>3
<1>3. CASE \E r \in Requests : UpstreamReply(r)
    <2>1. PICK r \in Requests, reply \in Replies :
              /\ rpc[r] = "inflight"
              /\ rpc' = [rpc EXCEPT ![r] = "done"]
              /\ resp' = [resp EXCEPT ![r] = Answer(rreq[r].handler,
                                                     ExecuteResult(SendOutcome(reply)))]
              /\ UNCHANGED rreq
        BY <1>3 DEF UpstreamReply, Finish
    <2>. QED
        BY <2>1, ConvertedStatusNonZero DEF TypeOK, OnlyDepthConversionRaises
<1>4. CASE \E r \in Requests : ConnectionError(r) \/ SessionClosedUnder(r) \/ TimeoutFires(r)
    <2>1. PICK r \in Requests :
              /\ rpc' = [rpc EXCEPT ![r] = "done"]
              /\ \/ resp' = [resp EXCEPT ![r] = ExecuteResult(NetworkErrorOutcome)]
                 \/ resp' = [resp EXCEPT ![r] = ExecuteResult(TimeoutOutcome)]
              /\ UNCHANGED rreq
        BY <1>4 DEF ConnectionError, SessionClosedUnder, TimeoutFires, Finish
    <2>. QED
        BY <2>1, FixedStatusNonZero DEF TypeOK, OnlyDepthConversionRaises
<1>5. CASE \E c \in Callers : CallStart(c) \/ CallStop(c) \/ LifecycleResume(c)
    BY <1>5, <1>1 DEF CallStart, CallStop, LifecycleResume, StartAfterSuper,
       StartAfterApiClose, StartAfterSessionClose, StopAfterSuper, StopAfterApiClose,
       StopAfterSessionClose, requestVars
<1>6. CASE Quiescent \/ UNCHANGED vars
    BY <1>6, <1>1 DEF Quiescent, vars, requestVars
<1>. QED
    BY <1>2, <1>3, <1>4, <1>5, <1>6 DEF Next

\* Spec 7, for every configuration and traffic: every handler that finished
\* returned a (status, body) pair, except _get_depth given a depth int()
\* rejects; _execute_api_call's catch-all covers every failure of the client.
THEOREM OnlyDepthRaises == Spec => []OnlyDepthConversionRaises
<1>1. Init => OnlyDepthConversionRaises
    BY DEF Init, OnlyDepthConversionRaises
<1>. QED
    BY <1>1, DepthOnlyInductive, TypeCorrect, PTL DEF Spec

=============================================================================
