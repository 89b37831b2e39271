------------------------- MODULE HarborLifecycleProofs -------------------------
(***************************************************************************)
(* The adapter with one host task implements the abstract lifecycle of    *)
(* HarborLifecycle under the mapping LiveClient, nsess, rsess.             *)
(***************************************************************************)
EXTENDS HarborProofs

\* A request that has not been dispatched has not been sent on any session.
IdleUnsent == \A r \in Requests : rpc[r] = "idle" => rsess[r] = NoSession

\* No step sends a request twice: a request leaves "idle" for good when it
\* is dispatched, and only dispatch assigns rsess.
LEMMA IdleUnsentInductive == TypeOK /\ IdleUnsent /\ [Next]_vars => IdleUnsent'
<1> SUFFICES ASSUME TypeOK, IdleUnsent, [Next]_vars,
                    NEW s \in Requests, rpc'[s] = "idle"
             PROVE  rsess'[s] = NoSession
    BY DEF IdleUnsent
<1>1. CASE UNCHANGED <<rpc, rsess>>
    BY <1>1 DEF IdleUnsent
<1>2. CASE \E r \in Requests : Dispatch(r)
    <2>1. PICK r \in Requests : Dispatch(r)
        BY <1>2
    <2>2. rpc' = [rpc EXCEPT ![r] = "done"] \/ rpc' = [rpc EXCEPT ![r] = "inflight"]
        BY <2>1 DEF Dispatch, ExecuteApiCall, Finish
    <2>3. rsess' = rsess \/ rsess' = [rsess EXCEPT ![r] = api]
        BY <2>1 DEF Dispatch, ExecuteApiCall
    <2>4. s # r
        BY <2>2 DEF TypeOK
    <2>. QED
        BY <2>2, <2>3, <2>4 DEF TypeOK, IdleUnsent
<1>3. CASE \E r \in Requests : UpstreamReply(r) \/ ConnectionError(r)
                               \/ SessionClosedUnder(r) \/ TimeoutFires(r)
    <2>1. PICK r \in Requests : rpc' = [rpc EXCEPT ![r] = "done"] /\ UNCHANGED rsess
        BY <1>3 DEF UpstreamReply, ConnectionError, SessionClosedUnder, TimeoutFires, Finish
    <2>. QED
        BY <2>1 DEF TypeOK, IdleUnsent
<1>4. CASE \E c \in Callers : CallStart(c) \/ CallStop(c) \/ LifecycleResume(c)
    BY <1>4, <1>1 DEF CallStart, CallStop, LifecycleResume, StartAfterSuper,
       StartAfterApiClose, StartAfterSessionClose, StopAfterSuper, StopAfterApiClose,
       StopAfterSessionClose, requestVars
<1>5. CASE Quiescent \/ UNCHANGED vars
    BY <1>5, <1>1 DEF Quiescent, vars, requestVars
<1>. QED
    BY <1>2, <1>3, <1>4, <1>5 DEF Next

\* IdleUnsent holds in every reachable state.
LEMMA IdleUnsentInvariant == Spec => []IdleUnsent
<1>1. Init => IdleUnsent
    BY DEF Init, IdleUnsent
<1>. QED
    BY <1>1, IdleUnsentInductive, TypeCorrect, PTL DEF Spec

\* A step that leaves _api, the open sessions, the count of sessions and
\* rsess alone is a stutter of the abstract lifecycle.
LEMMA LifecycleStutter ==
    ASSUME UNCHANGED <<api, open, nsess, rsess>>
    PROVE  UNCHANGED Lifecycle!avars
BY DEF Lifecycle!avars, LiveClient

\* Creating the client when no session is open is the abstract Open.
LEMMA CreateClientOpens ==
    ASSUME NEW c0, TypeOK, open = {}, CreateClient(c0), UNCHANGED rsess
    PROVE  Lifecycle!Open
<1>1. LiveClient = NoSession
    BY DEF LiveClient
<1>2. LiveClient' = nsess + 1
    BY DEF CreateClient, LiveClient, NoSession, TypeOK
<1>. QED
    BY <1>1, <1>2 DEF Lifecycle!Open, CreateClient, NoSession

\* Closing the client whose session is open is the abstract Close.
LEMMA CloseApiCloses ==
    ASSUME TypeOK, api \in open, open' = open \ {api}, UNCHANGED <<api, nsess, rsess>>
    PROVE  Lifecycle!Close
<1>1. LiveClient = api /\ api # NoSession
    BY DEF LiveClient, TypeOK, NoSession
<1>2. LiveClient' = NoSession
    BY DEF LiveClient
<1>. QED
    BY <1>1, <1>2 DEF Lifecycle!Close, NoSession

\* Spec 3 and 4.2: with one host task calling start() and stop(), the
\* adapter implements the abstract lifecycle; every start() closes the
\* usable client before it makes the next one, and every request reaches
\* Harbor through the client usable when it is dispatched.
THEOREM Refinement ==
    ASSUME NEW c0, Callers = {c0}
    PROVE  Spec => ImplementsLifecycle
<1>1. Init => Lifecycle!Init
    BY DEF Init, Lifecycle!Init, LiveClient, NoSession
<1>2. HygieneInv(c0) /\ IdleUnsent /\ [Next]_vars => [Lifecycle!Next]_Lifecycle!avars
    <2> SUFFICES ASSUME HygieneInv(c0), IdleUnsent, [Next]_vars
                 PROVE  [Lifecycle!Next]_Lifecycle!avars
        OBVIOUS
    <2>0. TypeOK /\ open \subseteq {session}
        BY DEF HygieneInv
    <2>1. CASE \E c \in Callers : CallStart(c) \/ CallStop(c)
        BY <2>1, LifecycleStutter DEF CallStart, CallStop, requestVars
    <2>2. CASE StartAfterSuper(c0)
        <3>1. api = session
            BY <2>2 DEF StartAfterSuper, HygieneInv
        <3>2. CASE api \in open /\ open' = open \ {api}
                   /\ lpc' = [lpc EXCEPT ![c0] = "start_api"]
                   /\ UNCHANGED <<session, api, nsess>>
            BY <2>0, <2>2, <3>2, CloseApiCloses DEF StartAfterSuper, requestVars, Lifecycle!Next
        <3>3. CASE api \notin open /\ StartTail(c0)
            <4>1. open = {} /\ session \notin open
                BY <2>0, <3>1, <3>3
            <4>. QED
                BY <2>0, <2>2, <3>3, <4>1, CreateClientOpens
                   DEF StartTail, StartAfterSuper, requestVars, Lifecycle!Next
        <3>. QED
            BY <2>2, <3>2, <3>3 DEF StartAfterSuper
    <2>3. CASE StartAfterApiClose(c0) \/ StartAfterSessionClose(c0)
        <3>1. open = {}
            BY <2>3 DEF StartAfterApiClose, StartAfterSessionClose, HygieneInv
        <3>2. CreateClient(c0) /\ UNCHANGED rsess
            BY <2>3, <3>1 DEF StartAfterApiClose, StartAfterSessionClose, StartTail,
               requestVars
        <3>. QED
            BY <2>0, <3>1, <3>2, CreateClientOpens DEF Lifecycle!Next
    <2>4. CASE StopAfterSuper(c0)
        <3>1. api = session
            BY <2>4 DEF StopAfterSuper, HygieneInv
        <3>2. CASE api \in open /\ open' = open \ {api}
                   /\ lpc' = [lpc EXCEPT ![c0] = "stop_api"]
                   /\ UNCHANGED <<session, api>>
            BY <2>0, <2>4, <3>2, CloseApiCloses DEF StopAfterSuper, requestVars, Lifecycle!Next
        <3>3. CASE api \notin open /\ StopTail(c0)
            <4>1. session \notin open
                BY <3>1, <3>3
            <4>2. open' = open /\ api' = NoSession /\ api \notin open
                BY <3>3, <4>1 DEF StopTail
            <4>3. LiveClient = NoSession /\ LiveClient' = NoSession
                BY <4>2 DEF LiveClient
            <4>. QED
                BY <2>4, <4>3 DEF StopAfterSuper, requestVars, Lifecycle!avars
        <3>. QED
            BY <2>4, <3>2, <3>3 DEF StopAfterSuper
    <2>5. CASE StopAfterApiClose(c0)
        <3>1. open = {}
            BY <2>5 DEF StopAfterApiClose, HygieneInv
        <3>2. open' = open /\ api' = NoSession
            BY <2>5, <3>1 DEF StopAfterApiClose, StopTail
        <3>3. LiveClient = NoSession /\ LiveClient' = NoSession
            BY <3>1, <3>2 DEF LiveClient
        <3>. QED
            BY <2>5, <3>3 DEF StopAfterApiClose, requestVars, Lifecycle!avars
    <2>6. CASE StopAfterSessionClose(c0)
        BY <2>6, LifecycleStutter DEF StopAfterSessionClose, requestVars
    <2>7. CASE \E r \in Requests : Dispatch(r)
        <3>1. PICK r \in Requests : Dispatch(r)
            BY <2>7
        <3>2. UNCHANGED <<api, open, nsess>>
            BY <3>1 DEF Dispatch, lifecycleVars
        <3>3. CASE UNCHANGED rsess
            BY <3>2, <3>3, LifecycleStutter
        <3>4. CASE rsess' = [rsess EXCEPT ![r] = api] /\ api \in open
            <4>1. rpc[r] = "idle"
                BY <3>1 DEF Dispatch
            <4>2. rsess[r] = 0 /\ LiveClient = api /\ LiveClient # 0
                BY <2>0, <3>4, <4>1 DEF IdleUnsent, LiveClient, NoSession, TypeOK
            <4>3. LiveClient' = LiveClient
                BY <3>2 DEF LiveClient
            <4>. QED
                BY <3>2, <3>4, <4>2, <4>3 DEF Lifecycle!Send, Lifecycle!Next
        <3>. QED
            BY <3>1, <3>3, <3>4 DEF Dispatch, ExecuteApiCall
    <2>8. CASE \E r \in Requests : UpstreamReply(r) \/ ConnectionError(r)
                                   \/ SessionClosedUnder(r) \/ TimeoutFires(r)
        BY <2>8, LifecycleStutter DEF UpstreamReply, ConnectionError, SessionClosedUnder,
           TimeoutFires, lifecycleVars
    <2>9. CASE Quiescent \/ UNCHANGED vars
        BY <2>9, LifecycleStutter DEF Quiescent, vars, lifecycleVars, requestVars
    <2>. QED
        BY <2>1, <2>2, <2>3, <2>4, <2>5, <2>6, <2>7, <2>8, <2>9 DEF Next, LifecycleResume
<1>. QED
    BY <1>1, <1>2, HygieneInvariant, IdleUnsentInvariant, PTL
       DEF Spec, ImplementsLifecycle, Lifecycle!Spec

-----------------------------------------------------------------------------
(* Deposit instructions and the from-address table.                         *)

\* The inductive strengthening of DepositFromSameStart with one host task:
\* _session is None or the last session made, and a request whose answer
\* carries a from-address table is done and names the session it used.
DepositInv ==
    /\ session \in {NoSession, nsess}
    /\ \A r \in Requests : rfrom[r] # 0 => rpc[r] = "done" /\ rfrom[r] = rsess[r]

\* start() and stop() leave _session as it was (and then make no session),
\* set it to the session they make, or clear it.
LEMMA SessionCurrentStep ==
    ASSUME NEW c \in Callers, CallStart(c) \/ CallStop(c) \/ LifecycleResume(c)
    PROVE  \/ session' = session /\ nsess' = nsess
           \/ session' = nsess'
           \/ session' = NoSession
<1>1. CASE CallStart(c) \/ CallStop(c)
    BY <1>1 DEF CallStart, CallStop
<1>2. CASE StartAfterSuper(c) \/ StartAfterApiClose(c) \/ StartAfterSessionClose(c)
    BY <1>2 DEF StartAfterSuper, StartAfterApiClose, StartAfterSessionClose, StartTail,
       CreateClient
<1>3. CASE StopAfterSuper(c) \/ StopAfterApiClose(c) \/ StopAfterSessionClose(c)
    BY <1>3 DEF StopAfterSuper, StopAfterApiClose, StopAfterSessionClose, StopTail
<1>. QED
    BY <1>1, <1>2, <1>3 DEF LifecycleResume

LEMMA DepositInductive ==
    ASSUME NEW c0, Callers = {c0}, HygieneInv(c0), DepositInv, [Next]_vars
    PROVE  DepositInv'
<1>0. TypeOK /\ open \subseteq {session}
    BY DEF HygieneInv
<1>1. CASE \E c \in Callers : CallStart(c) \/ CallStop(c) \/ LifecycleResume(c)
    <2>1. UNCHANGED <<rpc, rsess, rfrom>>
        BY <1>1 DEF CallStart, CallStop, LifecycleResume, StartAfterSuper,
           StartAfterApiClose, StartAfterSessionClose, StopAfterSuper, StopAfterApiClose,
           StopAfterSessionClose, requestVars
    <2>. QED
        BY <1>1, <2>1, SessionCurrentStep DEF DepositInv
<1>2. CASE \E r \in Requests : Dispatch(r)
    <2>1. PICK r \in Requests : Dispatch(r)
        BY <1>2
    <2>2. rfrom[r] = 0
        BY <2>1 DEF Dispatch, DepositInv
    <2>3. /\ UNCHANGED <<session, nsess, rfrom>>
          /\ \E st : rpc' = [rpc EXCEPT ![r] = st]
          /\ rsess' = rsess \/ rsess' = [rsess EXCEPT ![r] = api]
        BY <2>1 DEF Dispatch, ExecuteApiCall, Finish, lifecycleVars
    <2>. QED
        BY <1>0, <2>2, <2>3 DEF DepositInv, TypeOK
<1>3. CASE \E r \in Requests : UpstreamReply(r)
    <2>1. PICK r \in Requests : UpstreamReply(r)
        BY <1>3
    <2>2. rpc[r] = "inflight" /\ rsess[r] \in open /\ rfrom[r] = 0
        BY <2>1 DEF UpstreamReply, DepositInv
    <2>3. rsess[r] = nsess
        BY <1>0, <2>2 DEF DepositInv, TypeOK, NoSession
    <2>4. /\ UNCHANGED <<session, nsess, rsess>>
          /\ rpc' = [rpc EXCEPT ![r] = "done"]
          /\ rfrom' = rfrom \/ rfrom' = [rfrom EXCEPT ![r] = nsess]
        BY <2>1 DEF UpstreamReply, Finish, lifecycleVars
    <2>. QED
        BY <1>0, <2>2, <2>3, <2>4 DEF DepositInv, TypeOK
<1>4. CASE \E r \in Requests : ConnectionError(r) \/ SessionClosedUnder(r) \/ TimeoutFires(r)
    <2>1. PICK r \in Requests : ConnectionError(r) \/ SessionClosedUnder(r) \/ TimeoutFires(r)
        BY <1>4
    <2>2. /\ UNCHANGED <<session, nsess, rsess, rfrom>>
          /\ rpc' = [rpc EXCEPT ![r] = "done"]
        BY <2>1 DEF ConnectionError, SessionClosedUnder, TimeoutFires, Finish, lifecycleVars
    <2>. QED
        BY <1>0, <2>2 DEF DepositInv, TypeOK
<1>5. CASE Quiescent \/ UNCHANGED vars
    BY <1>5 DEF Quiescent, vars, lifecycleVars, requestVars, DepositInv
<1>. QED
    BY <1>1, <1>2, <1>3, <1>4, <1>5 DEF Next

\* With one host task, the deposit instructions _get_deposit_instructions
\* answers carry the from-address table of the start() that created the
\* session their inbound-addresses call went through (harbor.py 311-316
\* read _from_addresses after that call's await).
THEOREM DepositsFromOneStart ==
    ASSUME NEW c0, Callers = {c0}
    PROVE  Spec => []DepositFromSameStart
<1>1. Init => DepositInv
    BY DEF Init, DepositInv, NoSession
<1>2. DepositInv => DepositFromSameStart
    BY DEF DepositInv, DepositFromSameStart
<1>3. HygieneInv(c0) /\ DepositInv /\ [Next]_vars => DepositInv'
    BY DepositInductive
<1>. QED
    BY <1>1, <1>2, <1>3, HygieneInvariant, PTL DEF Spec
=============================================================================
