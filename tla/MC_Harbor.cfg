\* One lifecycle caller (start, stop, start again), request timeout
\* configured: session hygiene, error relaying, deposit instructions from
\* one start(), every 200 answer from a Harbor reply, the lifecycle refinement.
CONSTANTS
    c1 = c1
    c2 = c2
    r1 = r1
    r2 = r2
    Callers <- MC_OneCaller
    Requests <- MC_Requests
    MaxLifecycleCalls = 3
    UpstreamStatuses <- MC_Statuses
    UpstreamBodies = {"object", "list", "garbage"}
    Traffic = {"get_markets", "get_deposit_instructions"}
    TrafficParams = {"complete"}
    XnodeConfigured = TRUE
    RequestTimeoutSet = TRUE
    SessionTimeoutSet = TRUE
SPECIFICATION Spec
INVARIANT TypeOK
INVARIANT NoLeakedSession
INVARIANT ClientSessionPaired
INVARIANT UpstreamErrorRelayed
INVARIANT DepositFromSameStart
PROPERTY ImplementsLifecycle
INVARIANT SuccessOnlyFromHarbor
