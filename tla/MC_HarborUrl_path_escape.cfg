\* A caller-supplied identifier holding "../": the request leaves the
\* endpoint's path.
CONSTANTS
    RestBaseUris <- MC_RestBaseUris
    RestApiPaths <- MC_RestApiPaths
    XnodeBaseUris <- MC_XnodeBaseUris
    XnodeApiPaths <- MC_XnodeApiPaths
    Ids <- MC_HostileIds
SPECIFICATION Spec
INVARIANT ArgumentConfined
