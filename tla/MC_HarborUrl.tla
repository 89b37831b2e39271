----------------------------- MODULE MC_HarborUrl -----------------------------
(* Configured URIs and caller identifiers for TLC, as token sequences.      *)
EXTENDS HarborUrl

\* A bare host, the same with a trailing "/", a host with a path.
MC_RestBaseUris == {<<"https://h">>, <<"https://h", "/">>,
                    <<"https://h", "/", "api", "/", "/">>}
\* No sub-path, a lone "/", a bare word, a word between separators.
MC_RestApiPaths == {<<>>, <<"/">>, <<"v1">>, <<"/", "v1", "/">>}
MC_XnodeBaseUris == {<<"https://x">>, <<"https://x", "/">>}
MC_XnodeApiPaths == {<<>>, <<"/", "x1", "/">>}
\* Identifiers as the handlers pass them on: plain, ending in a dot or in "/".
MC_PlainIds == {<<"BTC">>, <<"BTC", ".">>, <<"BTC", "/">>}
\* A public caller's symbol that climbs out of /depth/.
MC_HostileIds == {<<"BTC">>, <<".", ".", "/", "order">>}
=============================================================================
