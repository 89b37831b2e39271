\* One host task (start, stop, start), two requests, no timeout of any kind: stop() still answers the requests in flight.
CONSTANTS
    c1 = c1
    c2 = c2
    r1 = r1
    r2 = r2
    Callers <- MC_OneCaller
    Requests <- MC_Requests
    MaxLifecycleCalls = 3
    UpstreamStatuses = {200}
    UpstreamBodies = {"object"}
    Traffic = {"get_markets"}
    TrafficParams = {"complete"}
    XnodeConfigured = TRUE
    RequestTimeoutSet = FALSE
    SessionTimeoutSet = FALSE
SPECIFICATION Spec
 
PROPERTY StopDrainsRequests
