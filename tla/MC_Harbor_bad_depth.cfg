\* Violation expected: a non-integer depth escapes the handler as ValueError.
CONSTANTS
    c1 = c1
    c2 = c2
    r1 = r1
    r2 = r2
    Callers <- MC_OneCaller
    Requests <- MC_OneRequest
    MaxLifecycleCalls = 1
    UpstreamStatuses = {200}
    UpstreamBodies = {"object"}
    Traffic = {"get_depth"}
    TrafficParams <- ParamShapes
    XnodeConfigured = TRUE
    RequestTimeoutSet = TRUE
    SessionTimeoutSet = FALSE
SPECIFICATION Spec
INVARIANT HandlerAlwaysResponds
