\* Every operation on every combination of configured bases and sub-paths,
\* with plain identifiers: the URL is the segments joined once.
CONSTANTS
    RestBaseUris <- MC_RestBaseUris
    RestApiPaths <- MC_RestApiPaths
    XnodeBaseUris <- MC_XnodeBaseUris
    XnodeApiPaths <- MC_XnodeApiPaths
    Ids <- MC_PlainIds
SPECIFICATION Spec
INVARIANT UrlIsSegmentJoin
