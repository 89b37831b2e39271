--------------------------- MODULE HarborSuccessProofs ---------------------------
(***************************************************************************)
(* Proofs, for every value of the constants and any number of host tasks, *)
(* that a handler answers 200 exactly when Harbor answered its request     *)
(* with a parsable reply below 400.                                        *)
(***************************************************************************)
EXTENDS HarborHandlerProofs

\* _get_deposit_instructions keeps the status of the answer it builds on:
\* it returns a failure as it is and builds instructions only over a 200.
LEMMA AnswerKeepsStatus ==
    ASSUME NEW h, NEW x
    PROVE  Answer(h, x).status = x.status
BY DEF Answer, DepositAnswer, Response

\* A delivered reply is answered 200 exactly when its body parses and its
\* status is below 400 (harbor_api.py 146-157, harbor.py 327-329).
LEMMA ReplySuccess ==
    ASSUME NEW reply \in Replies, NEW h
    PROVE  Answer(h, ExecuteResult(SendOutcome(reply))).status = 200
               <=> reply.status < 400 /\ ParseBody(reply) # "decode_error"
<1>1. reply.status \in 100..599
    <2>1. reply.status \in UpstreamStatuses
        BY DEF Replies
    <2>2. UpstreamStatuses \subseteq 100..599
        BY ConstantsAssumption
    <2>. QED
        BY <2>1, <2>2
<1>2. ExecuteResult(SendOutcome(reply)).status
          = IF ParseBody(reply) = "decode_error" THEN 500
            ELSE IF reply.status >= 400 THEN reply.status ELSE 200
    BY <1>1 DEF ExecuteResult, SendOutcome, Outcome, Response
<1>3. Answer(h, ExecuteResult(SendOutcome(reply))).status
          = ExecuteResult(SendOutcome(reply)).status
    BY AnswerKeepsStatus
<1>. QED
    BY <1>1, <1>2, <1>3

\* The answers given without a reply (a rejected parameter, a raising
\* conversion, no client, a missing xnode base, a closed session, a
\* network error, a timeout) are never a success.
LEMMA FixedNotSuccess ==
    /\ BadRequest.status # 200
    /\ Raised.status # 200
    /\ NotReady.status # 200
    /\ ExecuteResult(XnodeUnconfiguredOutcome).status # 200
    /\ ExecuteResult(SessionClosedOutcome).status # 200
    /\ ExecuteResult(NetworkErrorOutcome).status # 200
    /\ ExecuteResult(TimeoutOutcome).status # 200
<1>1. BadRequest.status # 200 /\ Raised.status # 200 /\ NotReady.status # 200
    BY DEF BadRequest, Raised, NotReady, Response
<1>2. ExecuteResult(XnodeUnconfiguredOutcome).status # 200
    BY DEF ExecuteResult, XnodeUnconfiguredOutcome, Outcome, Response
<1>3. ExecuteResult(SessionClosedOutcome).status # 200
    BY DEF ExecuteResult, SessionClosedOutcome, Outcome, Response
<1>4. ExecuteResult(NetworkErrorOutcome).status # 200
    BY DEF ExecuteResult, NetworkErrorOutcome, Outcome, Response
<1>5. ExecuteResult(TimeoutOutcome).status # 200
    BY DEF ExecuteResult, TimeoutOutcome, Outcome, Response
<1>. QED
    BY <1>1, <1>2, <1>3, <1>4, <1>5

\* A dispatch either answers its request at once, with a failure and an
\* event other than "reply", or sends it and leaves its answer alone.
LEMMA DispatchOutcome ==
    ASSUME TypeOK, NEW r \in Requests, Dispatch(r)
    PROVE  /\ rpc[r] = "idle"
           /\ UNCHANGED rrep
           /\ \/ \E x, e : /\ x.status # 200 /\ e # "reply"
                           /\ rpc' = [rpc EXCEPT ![r] = "done"]
                           /\ resp' = [resp EXCEPT ![r] = x]
                           /\ rev' = [rev EXCEPT ![r] = e]
              \/ /\ rpc' = [rpc EXCEPT ![r] = "inflight"]
                 /\ rev' = [rev EXCEPT ![r] = "inflight"]
                 /\ UNCHANGED resp
<1>1. PICK h \in Traffic, p \in TrafficParams :
          /\ rpc[r] = "idle"
          /\ \/ Finish(r, BadRequest, "not_sent")
             \/ Finish(r, Raised, "not_sent")
             \/ ExecuteApiCall(r, Route[h])
          /\ UNCHANGED rrep
    BY DEF Dispatch
<1>2. CASE Finish(r, BadRequest, "not_sent") \/ Finish(r, Raised, "not_sent")
    BY <1>1, <1>2, FixedNotSuccess DEF Finish
<1>3. CASE ExecuteApiCall(r, Route[h])
    BY <1>1, <1>3, FixedNotSuccess DEF ExecuteApiCall, Finish
<1>. QED
    BY <1>1, <1>2, <1>3

\* The steps that end an exchange other than a reply answer with a failure.
LEMMA FailureOutcome ==
    ASSUME NEW r \in Requests, ConnectionError(r) \/ SessionClosedUnder(r) \/ TimeoutFires(r)
    PROVE  /\ rpc[r] = "inflight"
           /\ UNCHANGED <<rrep, rreq>>
           /\ \E x, e : /\ x.status # 200 /\ e # "reply"
                        /\ rpc' = [rpc EXCEPT ![r] = "done"]
                        /\ resp' = [resp EXCEPT ![r] = x]
                        /\ rev' = [rev EXCEPT ![r] = e]
BY FixedNotSuccess DEF ConnectionError, SessionClosedUnder, TimeoutFires, Finish

\* No step touches an answered request: its state, answer, event and reply
\* stay as they are.
LEMMA DoneFrozen ==
    ASSUME TypeOK, [Next]_vars, NEW s \in Requests, rpc[s] = "done"
    PROVE  /\ rpc'[s] = "done" /\ resp'[s] = resp[s]
           /\ rev'[s] = rev[s] /\ rrep'[s] = rrep[s]
<1>1. CASE UNCHANGED <<rpc, rev, rrep, resp>>
    BY <1>1
<1>2. CASE \E r \in Requests : Dispatch(r)
    <2>1. PICK r \in Requests : Dispatch(r)
        BY <1>2
    <2>2. r # s
        BY <2>1, DispatchOutcome
    <2>. QED
        BY <2>1, <2>2, DispatchOutcome DEF TypeOK
<1>3. CASE \E r \in Requests : ConnectionError(r) \/ SessionClosedUnder(r) \/ TimeoutFires(r)
    <2>1. PICK r \in Requests : ConnectionError(r) \/ SessionClosedUnder(r) \/ TimeoutFires(r)
        BY <1>3
    <2>2. r # s
        BY <2>1, FailureOutcome
    <2>. QED
        BY <2>1, <2>2, FailureOutcome DEF TypeOK
<1>4. CASE \E r \in Requests : UpstreamReply(r)
    <2>1. PICK r \in Requests : UpstreamReply(r)
        BY <1>4
    <2>2. /\ rpc[r] = "inflight"
          /\ rpc' = [rpc EXCEPT ![r] = "done"]
          /\ \E x : resp' = [resp EXCEPT ![r] = x]
          /\ rev' = [rev EXCEPT ![r] = "reply"]
          /\ \E x : rrep' = [rrep EXCEPT ![r] = x]
        BY <2>1 DEF UpstreamReply, Finish
    <2>. QED
        BY <2>2 DEF TypeOK
<1>5. CASE \E c \in Callers : CallStart(c) \/ CallStop(c) \/ LifecycleResume(c)
    BY <1>5, <1>1 DEF CallStart, CallStop, LifecycleResume, StartAfterSuper,
       StartAfterApiClose, StartAfterSessionClose, StopAfterSuper, StopAfterApiClose,
       StopAfterSessionClose, requestVars
<1>6. CASE Quiescent \/ UNCHANGED vars
    BY <1>6, <1>1 DEF Quiescent, vars, requestVars
<1>. QED
    BY <1>2, <1>3, <1>4, <1>5, <1>6 DEF Next

-----------------------------------------------------------------------------
(* A success comes from Harbor.                                            *)

\* SuccessOnlyFromHarbor is inductive given TypeOK: a request is answered
\* by one step, which sets its answer, its event and (for a reply) the
\* reply together, and DoneFrozen keeps them afterwards.
LEMMA SuccessInductive ==
    TypeOK /\ SuccessOnlyFromHarbor /\ [Next]_vars => SuccessOnlyFromHarbor'
<1> DEFINE Ok(r) == /\ rev[r] = "reply" /\ rrep[r].status < 400
                    /\ ParseBody(rrep[r]) # "decode_error"
<1> SUFFICES ASSUME TypeOK, SuccessOnlyFromHarbor, [Next]_vars, NEW s \in Requests,
                    rpc'[s] = "done"
             PROVE  resp'[s].status = 200 <=> Ok(s)'
    BY DEF SuccessOnlyFromHarbor
<1>1. CASE rpc[s] = "done"
    BY <1>1, DoneFrozen DEF SuccessOnlyFromHarbor
<1>2. CASE rpc[s] # "done"
    <2>1. CASE UNCHANGED rpc
        BY <1>2, <2>1
    <2>2. CASE \E r \in Requests : Dispatch(r)
        <3>1. PICK r \in Requests : Dispatch(r)
            BY <2>2
        <3>2. CASE r = s
            BY <3>1, <3>2, DispatchOutcome DEF TypeOK
        <3>3. CASE r # s
            BY <1>2, <3>1, <3>3, DispatchOutcome DEF TypeOK
        <3>. QED
            BY <3>2, <3>3
    <2>6. CASE \E r \in Requests : ConnectionError(r) \/ SessionClosedUnder(r) \/ TimeoutFires(r)
        <3>1. PICK r \in Requests : ConnectionError(r) \/ SessionClosedUnder(r) \/ TimeoutFires(r)
            BY <2>6
        <3>2. CASE r = s
            BY <3>1, <3>2, FailureOutcome DEF TypeOK
        <3>3. CASE r # s
            BY <1>2, <3>1, <3>3, FailureOutcome DEF TypeOK
        <3>. QED
            BY <3>2, <3>3
    <2>7. CASE \E r \in Requests : UpstreamReply(r)
        <3>1. PICK r \in Requests, reply \in Replies :
                  /\ rpc' = [rpc EXCEPT ![r] = "done"]
                  /\ rrep' = [rrep EXCEPT ![r] = reply]
                  /\ resp' = [resp EXCEPT ![r] = Answer(rreq[r].handler,
                                                         ExecuteResult(SendOutcome(reply)))]
                  /\ rev' = [rev EXCEPT ![r] = "reply"]
            BY <2>7 DEF UpstreamReply, Finish
        <3>2. CASE r = s
            <4>1. rrep'[s] = reply /\ rev'[s] = "reply"
                  /\ resp'[s] = Answer(rreq[r].handler, ExecuteResult(SendOutcome(reply)))
                BY <3>1, <3>2 DEF TypeOK
            <4>. QED
                BY <3>2, <4>1, ReplySuccess
        <3>3. CASE r # s
            BY <1>2, <3>1, <3>3 DEF TypeOK
        <3>. QED
            BY <3>2, <3>3
    <2>8. CASE \E c \in Callers : CallStart(c) \/ CallStop(c) \/ LifecycleResume(c)
        BY <2>8, <2>1 DEF CallStart, CallStop, LifecycleResume, StartAfterSuper,
           StartAfterApiClose, StartAfterSessionClose, StopAfterSuper, StopAfterApiClose,
           StopAfterSessionClose, requestVars
    <2>9. CASE Quiescent \/ UNCHANGED vars
        BY <2>9, <2>1 DEF Quiescent, vars, requestVars
    <2>. QED
        BY <2>2, <2>6, <2>7, <2>8, <2>9 DEF Next
<1>. QED
    BY <1>1, <1>2

\* Spec 4.1 and 7, for every configuration and any number of host tasks:
\* a handler answers 200 exactly when Harbor answered its request with a
\* parsable reply below 400; no failure, deposit instructions over a failed
\* sub-call included, is turned into a success, and no success is lost.
THEOREM SuccessFromHarbor == Spec => []SuccessOnlyFromHarbor
<1>1. Init => SuccessOnlyFromHarbor
    BY DEF Init, SuccessOnlyFromHarbor
<1>. QED
    BY <1>1, SuccessInductive, TypeCorrect, PTL DEF Spec

=============================================================================
