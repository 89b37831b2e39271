\* Violation expected: overlapping start()/stop() calls leave an open session unreferenced.
CONSTANTS
    c1 = c1
    c2 = c2
    r1 = r1
    r2 = r2
    Callers <- MC_TwoCallers
    Requests = {}
    MaxLifecycleCalls = 5
    UpstreamStatuses = {200}
    UpstreamBodies = {"object"}
    Traffic = {"get_markets"}
    TrafficParams = {"complete"}
    XnodeConfigured = TRUE
    RequestTimeoutSet = TRUE
    SessionTimeoutSet = FALSE
SPECIFICATION Spec
INVARIANT NoLeakedSession
