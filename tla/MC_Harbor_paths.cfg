\* Every handler with every parameter shape, no xnode base, two host tasks whose start()/stop() overlap: validation precedes any upstream call and answers keep their meaning.
CONSTANTS
    c1 = c1
    c2 = c2
    r1 = r1
    r2 = r2
    Callers <- MC_TwoCallers
    Requests <- MC_OneRequest
    MaxLifecycleCalls = 4
    UpstreamStatuses = {200, 400}
    UpstreamBodies = {"object", "garbage"}
    Traffic <- Handlers
    TrafficParams <- ParamShapes
    XnodeConfigured = FALSE
    RequestTimeoutSet = TRUE
    SessionTimeoutSet = FALSE
SPECIFICATION Spec
INVARIANT TypeOK
INVARIANT ValidationBeforeUpstream
INVARIANT UpstreamErrorRelayed
INVARIANT OnlyDepthConversionRaises
INVARIANT SuccessOnlyFromHarbor
