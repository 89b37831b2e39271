\* Violation expected: session_timeout alone bounds no request.
CONSTANTS
    c1 = c1
    c2 = c2
    r1 = r1
    r2 = r2
    Callers <- MC_OneCaller
    Requests <- MC_OneRequest
    MaxLifecycleCalls = 1
    UpstreamStatuses = {200}
    UpstreamBodies = {"object"}
    Traffic = {"get_markets"}
    TrafficParams = {"complete"}
    XnodeConfigured = TRUE
    RequestTimeoutSet = FALSE
    SessionTimeoutSet = TRUE
SPECIFICATION Spec
PROPERTY TimeoutBoundsRequests
