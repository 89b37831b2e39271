------------------------------ MODULE HarborUrl ------------------------------
(***************************************************************************)
(* How HarborAPI builds the URL of each operation: HarborAPI.__init__      *)
(* trims the configured bases and sub-paths, every operation names its     *)
(* endpoint path (three of them with a caller-supplied identifier in it),  *)
(* _request / _request_xnode add a leading "/" and _compose_url joins the  *)
(* base, the sub-path and the path (src/harbor/dex_proxy/harbor_api.py).    *)
(*                                                                         *)
(* A string is a sequence of tokens: "/" is the separator, "." a single    *)
(* dot, and every other token a run of characters that holds neither (a    *)
(* word of the path, or the scheme and host of a base URI).  The strip     *)
(* and join of _compose_url only tell "/" from the rest, so nothing they   *)
(* do is lost.                                                             *)
(***************************************************************************)
EXTENDS Naturals, Sequences, SequencesExt, HarborApi

CONSTANTS
    RestBaseUris,   \* connectors.harbor.rest.base_uri values
    RestApiPaths,   \* connectors.harbor.rest.api_path values
    XnodeBaseUris,  \* connectors.harbor.xnode.base_uri values (all set)
    XnodeApiPaths,  \* connectors.harbor.xnode.api_path values
    Ids             \* identifiers a caller may send (symbol, withdrawId, txId)

VARIABLES
    cfg,    \* the bases and sub-paths HarborAPI.__init__ stored
    call,   \* the last operation called and its identifier argument
    url     \* the URL it passed to session.request

vars == <<cfg, call, url>>

-----------------------------------------------------------------------------
(* String helpers, as Python's str methods on tokens.                      *)

\* s.lstrip("/")
LStrip(s) ==
    LET i == SelectInSeq(s, LAMBDA t : t # "/")
    IN  IF i = 0 THEN <<>> ELSE SubSeq(s, i, Len(s))

\* s.rstrip("/")
RStrip(s) == SubSeq(s, 1, SelectLastInSeq(s, LAMBDA t : t # "/"))

\* s.strip("/")
Strip(s) == LStrip(RStrip(s))

\* "/".join(parts)
JoinSlash(parts) ==
    IF parts = <<>> THEN <<>>
    ELSE FoldLeft(LAMBDA acc, p : acc \o <<"/">> \o p, parts[1], Tail(parts))

-----------------------------------------------------------------------------
(* The endpoint paths.                                                     *)

\* The operations whose path ends in an identifier the caller supplies.
ArgOps == {"get_depth", "get_withdraw", "get_tx_details"}

\* The literal part of each operation's path (the f-string before {...}).
FixedPath ==
    [get_markets |-> <<"/", "markets">>, get_account |-> <<"/", "account">>,
     get_depth |-> <<"/", "depth", "/">>,
     create_order |-> <<"/", "order">>, update_order |-> <<"/", "order">>,
     cancel_order |-> <<"/", "order">>, get_order |-> <<"/", "order">>,
     get_orders |-> <<"/", "orders">>, withdraw |-> <<"/", "withdraw">>,
     get_withdraw |-> <<"/", "withdraw", "/">>,
     get_inbound_addresses |-> <<"/", "inbound_addresses">>,
     get_outbound_fees |-> <<"/", "outbound_fees">>,
     get_tx_details |-> <<"/", "tx", "/", "details", "/">>]

\* The path an operation passes to _request or _request_xnode: the
\* identifier is interpolated as it is.
OpPath(op, arg) == IF op \in ArgOps THEN FixedPath[op] \o arg ELSE FixedPath[op]

-----------------------------------------------------------------------------
(* URL composition.                                                        *)

\* Fault-injection variant of ComposeUrl: the parts joined without strip.
ComposeUrl_NoStrip(base, apiPath, path) ==
    LET parts == <<base>> \o (IF apiPath # <<>> THEN <<LStrip(apiPath)>> ELSE <<>>)
                          \o <<LStrip(path)>>
    IN  JoinSlash(SelectSeq(parts, LAMBDA p : p # <<>>))

\* HarborAPI._compose_url: empty parts are dropped before the strip.
ComposeUrl(base, apiPath, path) ==
    LET parts == <<base>> \o (IF apiPath # <<>> THEN <<LStrip(apiPath)>> ELSE <<>>)
                          \o <<LStrip(path)>>
        kept  == SelectSeq(parts, LAMBDA p : p # <<>>)
    IN  JoinSlash([i \in 1..Len(kept) |-> Strip(kept[i])])

\* `if not path.startswith("/"): path = f"/{path}"`
Rooted(path) == IF path # <<>> /\ path[1] = "/" THEN path ELSE <<"/">> \o path

\* HarborAPI.__init__: the stored bases and sub-paths.
Configure(restBase, restApiPath, xnodeBase, xnodeApiPath) ==
    [restBase |-> RStrip(restBase), restApiPath |-> RStrip(restApiPath),
     xnodeBase |-> RStrip(xnodeBase), xnodeApiPath |-> RStrip(xnodeApiPath)]

Init ==
    /\ \E b \in RestBaseUris, p \in RestApiPaths, xb \in XnodeBaseUris, xp \in XnodeApiPaths :
          cfg = Configure(b, p, xb, xp)
    /\ call = [op |-> "none", arg |-> <<>>]
    /\ url = <<>>

\* A HarborAPI operation: _request for a REST operation, _request_xnode for
\* an xnode one, up to the URL handed to session.request.
Request(op, arg) ==
    /\ call' = [op |-> op, arg |-> IF op \in ArgOps THEN arg ELSE <<>>]
    /\ url' = IF op \in RestOps
              THEN ComposeUrl(cfg.restBase, cfg.restApiPath, Rooted(OpPath(op, arg)))
              ELSE ComposeUrl(cfg.xnodeBase, cfg.xnodeApiPath, Rooted(OpPath(op, arg)))
    /\ UNCHANGED cfg

Next == \E op \in RestOps \cup XnodeOps, arg \in Ids : Request(op, arg)

Spec == Init /\ [][Next]_vars

-----------------------------------------------------------------------------
(* Properties.                                                             *)

\* The non-empty runs between separators.
Segments(s) ==
    LET split == FoldLeft(LAMBDA acc, t : IF t = "/" THEN Append(acc, <<>>)
                                          ELSE [acc EXCEPT ![Len(acc)] = Append(@, t)],
                          <<<<>>>>, s)
    IN  SelectSeq(split, LAMBDA g : g # <<>>)

\* The base and sub-path the call went to, as configured.
CallBase == IF call.op \in RestOps THEN cfg.restBase ELSE cfg.xnodeBase
CallApiPath == IF call.op \in RestOps THEN cfg.restApiPath ELSE cfg.xnodeApiPath

\* Spec 4.1 and 8, path normalisation: whatever leading and trailing
\* separators the configured base, the configured sub-path and the
\* endpoint path carry, _compose_url yields their segments joined by
\* exactly one "/", with no doubled and no missing separator.
UrlIsSegmentJoin ==
    call.op # "none" =>
        url = JoinSlash(Segments(CallBase) \o Segments(CallApiPath)
                        \o Segments(OpPath(call.op, call.arg)))

\* The path an HTTP client resolves the URL to: after the scheme and host,
\* "." segments dropped and ".." removing the segment before it (yarl, which
\* aiohttp builds the request URL with, normalises dot segments).
RemoveDots(segs) ==
    FoldLeft(LAMBDA acc, g : IF g = <<".">> THEN acc
                             ELSE IF g = <<".", ".">> THEN SubSeq(acc, 1, Len(acc) - 1)
                             ELSE Append(acc, g),
             <<>>, segs)
ResolvedPath(u) == RemoveDots(Tail(Segments(u)))

\* The identifier of get_depth, get_withdraw and get_tx_details names one
\* resource: the request reaches the endpoint's own path with the
\* identifier as its last segment, under the configured sub-path, and no
\* other Harbor endpoint.
ArgumentConfined ==
    call.op \in ArgOps =>
        ResolvedPath(url) = Tail(Segments(CallBase)) \o Segments(CallApiPath)
                            \o Segments(FixedPath[call.op]) \o <<call.arg>>
=============================================================================
