\* Violation expected: a request racing stop() gets 500 "Session is closed", not 503.
CONSTANTS
    c1 = c1
    c2 = c2
    r1 = r1
    r2 = r2
    Callers <- MC_OneCaller
    Requests <- MC_OneRequest
    MaxLifecycleCalls = 2
    UpstreamStatuses = {200}
    UpstreamBodies = {"object"}
    Traffic = {"get_markets"}
    TrafficParams = {"complete"}
    XnodeConfigured = TRUE
    RequestTimeoutSet = TRUE
    SessionTimeoutSet = FALSE
SPECIFICATION Spec
INVARIANT NotReadyIs503
