\* Violation expected: an error reply whose JSON body does not parse loses its status.
CONSTANTS
    c1 = c1
    c2 = c2
    r1 = r1
    r2 = r2
    Callers <- MC_OneCaller
    Requests <- MC_OneRequest
    MaxLifecycleCalls = 1
    UpstreamStatuses = {502}
    UpstreamBodies = {"garbage"}
    Traffic = {"get_markets"}
    TrafficParams = {"complete"}
    XnodeConfigured = TRUE
    RequestTimeoutSet = TRUE
    SessionTimeoutSet = FALSE
SPECIFICATION Spec
INVARIANT UpstreamErrorStatusKept
