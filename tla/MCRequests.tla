------------------------------ MODULE MCRequests ------------------------------
(***************************************************************************)
(* TLC instances of what serves a request.  The components share no state: *)
(* a behaviour moves one of them and leaves the others in one of their     *)
(* initial states.                                                         *)
(***************************************************************************)
EXTENDS IdempotentAction, DataCache, SessionStore, RequestContext, MCRequestHost,
        RenderStream, ActionBodies, Router, TLC

CONSTANT MCOwners   \* whose sessions the private cache entries are

VARIABLE focus   \* the component that moves

\* Calls, attempts and tasks are interchangeable, and so are the owners of sessions.
MCSymmetry == Permutations(Requests) \cup Permutations(MCOwners)

-----------------------------------------------------------------------------
(* The cache: a private policy that coalesces fills and a public one in    *)
(* two namespaces and epochs that does not; two sessions and everybody.    *)

CachePolicyOf(id, namespace, epoch, domain, coalesce) ==
    [id |-> id, revision |-> 1, namespace |-> namespace, epoch |-> epoch, domain |-> domain,
     vary |-> {}, fresh |-> 1, stale |-> 0, maxKey |-> 1, maxValue |-> 1, maxTags |-> 2,
     timeout |-> 1, coalesce |-> coalesce]
MCPolicies ==
    {CachePolicyOf("p", "n", 1, "private-session", TRUE), CachePolicyOf("q", "m", 2, "public-runtime", FALSE)}

CacheInputOf(partition, owner) ==
    [operation |-> "op", vary |-> << >>, partition |-> partition, owner |-> owner, bytes |-> 1,
     valueBytes |-> 1, tags |-> {"data", "other"}]
MCCacheInputs ==
    {CacheInputOf("session", u) : u \in MCOwners} \cup {CacheInputOf("none", "all")}

\* Sessions live two ticks when idle and three at most.
MCSessionPolicy ==
    [schema |-> 1, idle |-> 2, absolute |-> 3, maxClaims |-> 64,
     cookie |-> [host |-> TRUE, securePrefix |-> FALSE, path |-> "/", secure |-> TRUE,
                 sameSite |-> "Lax"]]

-----------------------------------------------------------------------------
(* The request context: a deduplicated loader in two revisions and one     *)
(* that is not, one granted resource, one reachable host.                  *)

MCLoaders ==
    {[id |-> "a", revision |-> 1, maxOutput |-> 10, dedup |-> TRUE],
     [id |-> "a", revision |-> 2, maxOutput |-> 10, dedup |-> TRUE],
     [id |-> "b", revision |-> 1, maxOutput |-> 10, dedup |-> FALSE]}
MCGranted == {l \in MCLoaders : l.revision = 1}
MCLoaderInputs == {<<<<"x", 1>>, <<"y", 2>>>>, <<<<"y", 2>>, <<"x", 1>>>>}

MCRegistry ==
    [i \in {"db", "mail"} |-> [caps |-> {"read"}, lease |-> IF i = "db" THEN 1 ELSE 0]]
MCGrants == [i \in {"db"} |-> {"read", "write"}]
MCRequirements ==
    {[id |-> "db", caps |-> {"read"}], [id |-> "db", caps |-> {"write"}],
     [id |-> "mail", caps |-> {"read"}]}

MCOutbound ==
    [hosts |-> {"api"}, ports |-> {443}, prefixes |-> {"/v1/"}, http |-> FALSE,
     private |-> FALSE, timeout |-> 1, redirects |-> 1, addresses |-> 2]
UrlOf(scheme, domain) ==
    [scheme |-> scheme, host |-> domain, port |-> 443, prefix |-> "/v1/", odd |-> FALSE,
     credentials |-> FALSE, literal |-> {}]
MCUrls == {UrlOf("https", "api"), UrlOf("http", "api"), UrlOf("https", "other")}
AddressOf(kind, a, b) == [kind |-> kind, octets |-> <<a, b, 0, 1>>]
MCResolutions ==
    {{}, {AddressOf("v4", 93, 184)}, {AddressOf("v4", 93, 184), AddressOf("v4", 10, 0)},
     {AddressOf("mapped", 127, 0)}}

-----------------------------------------------------------------------------
(* Rendering: documents without layouts, under two, with a slot out of     *)
(* place and with a layout that is missing; bodies of up to three parts.   *)

HeadOf(title, assets) == [title |-> title, language |-> {}, assets |-> assets]
WrapOf(before, after) == [before |-> before, after |-> after]
LayerOf(operations, head) == [operations |-> operations, head |-> head]
DocumentOf(layouts, layers, head) ==
    [layouts |-> layouts, layers |-> layers, head |-> head, valid |-> TRUE, assetLimit |-> 2]

NavAndMain ==
    LayerOf(<<WrapOf(<<<<"nav", 1>>>>, << >>),
              WrapOf(<<<<"main", 1>>>>, <<<<"/main", 1>>>>)>>, HeadOf({"site"}, <<"a", "b">>))
Aside == LayerOf(<<WrapOf(<< >>, <<<<"aside", 1>>>>)>>, HeadOf({"b"}, <<"b">>))
Misplaced == LayerOf(<<WrapOf(<<RenSlot>>, << >>)>>, HeadOf({"t"}, << >>))

MCDocuments ==
    {DocumentOf(<< >>, << >>, HeadOf({"t"}, << >>)),
     DocumentOf(<< >>, << >>, HeadOf({}, << >>)),
     DocumentOf(<<"root", "blog">>, ("root" :> NavAndMain) @@ ("blog" :> Aside),
                HeadOf({}, <<"a">>)),
     DocumentOf(<<"root">>, "root" :> Misplaced, NoHead),
     DocumentOf(<<"root">>, << >>, HeadOf({"t"}, << >>))}

ChunkOf(id, pieces, ends) == [id |-> id, pieces |-> pieces, ends |-> ends]
MCBodies ==
    SeqOf({ChunkOf("a", <<<<"A", 2>>>>, "ok"), ChunkOf("b", <<<<"B", 1>>>>, "ok"),
           ChunkOf("c", << >>, "ok"), ChunkOf("d", <<<<"D", 1>>>>, "error"),
           ChunkOf("e", <<<<"E", 1>>>>, "panic")}, 3)
MCRenderOptions ==
    [chunks |-> 2, boundaries |-> 3, inFlight |-> 2, maxBytes |-> 9, bodyStatus |-> TRUE]

-----------------------------------------------------------------------------
(* Action bodies: forms, and uploads of up to four parts of which some are *)
(* unknown, too long, of the wrong kind or no text.                        *)

MCUploadPolicy ==
    [media |-> {"form", "multipart"}, encodings |-> {"identity", "gzip"}, maxEncoded |-> 4,
     maxDecoded |-> 5, maxFields |-> 2, origin |-> "self", maxParts |-> 3, maxFiles |-> 2,
     maxText |-> 1, maxFile |-> 2, maxTotal |-> 6, csrfField |-> "csrf",
     kinds |-> ("csrf" :> "text") @@ ("photo" :> "file")]
BodyOf(media, encodings, decoded, parts) ==
    [sealed |-> TRUE, method |-> "POST", media |-> media, encodings |-> encodings,
     origin |-> "self", encoded |-> 2, decoded |-> decoded, fields |-> 1, gzip |-> TRUE,
     schema |-> TRUE, csrf |-> "bound", parts |-> parts]
PartOf(name, filename, chunks, utf8) ==
    [name |-> name, filename |-> filename, chunks |-> chunks, utf8 |-> utf8]
MCParts ==
    {PartOf("csrf", "none", <<1>>, TRUE), PartOf("csrf", "none", <<1>>, FALSE),
     PartOf("photo", "ok", <<1, 1>>, TRUE), PartOf("photo", "ok", <<3>>, TRUE),
     PartOf("photo", "none", <<1>>, TRUE), PartOf("zip", "none", << >>, TRUE)}
MCBodiesSent ==
    {BodyOf("multipart", {}, 0, parts) : parts \in SeqOf(MCParts, 4)}
    \cup {BodyOf("form", {"gzip"}, 9, << >>), BodyOf("form", {}, 2, << >>),
          BodyOf("json", {}, 2, << >>),
          [BodyOf("form", {}, 2, << >>) EXCEPT !.csrf = "missing"]}

-----------------------------------------------------------------------------
(* The router: every kind of segment, two scopes of which one may be its   *)
(* own ancestor, and paths of up to three components.                      *)

Seg(kind, name) == [kind |-> kind, name |-> name]
MCPatterns ==
    << << >>, <<Seg("literal", "a")>>, <<Seg("literal", "A")>>, <<Seg("parameter", "x")>>,
       <<Seg("parameter", "y")>>, <<Seg("optional", "x")>>, <<Seg("catchall", "x")>>,
       <<Seg("literal", "a"), Seg("optional", "y")>>,
       <<Seg("group", "g"), Seg("parameter", "x"), Seg("literal", "b")>>,
       <<Seg("parameter", "x"), Seg("optional", "y")>>,
       <<Seg("parameter", "x"), Seg("parameter", "x")>>,
       <<Seg("literal", "a"), Seg("catchall", "y")>>,
       <<Seg("parameter", "x"), Seg("catchall", "y")>> >>
RouteOf(i, method, scope) ==
    [id |-> i, method |-> method, pattern |-> MCPatterns[i], scope |-> scope,
     middleware |-> << >>, boundaries |-> <<"top">>, loaders |-> << >>, actions |-> << >>,
     resources |-> {}]
MCRoutes ==
    {RouteOf(i, "GET", "none") : i \in DOMAIN MCPatterns}
    \cup {RouteOf(2, "POST", "in"), [RouteOf(4, "GET", "in") EXCEPT !.middleware = <<"m">>]}
ScopeOf(id, parent, kind, middleware) ==
    [id |-> id, kind |-> kind, parent |-> parent, middleware |-> middleware,
     boundaries |-> << >>, loaders |-> <<id>>, resources |-> {<<id, "read">>}]
MCScopes ==
    {ScopeOf("in", "out", "layout", << >>), ScopeOf("out", "none", "group", <<"auth">>),
     ScopeOf("out", "in", "group", << >>)}
MCRoots ==
    {[pre |-> <<"trace">>, boundaries |-> <<"root">>, declared |-> d] :
        d \in {{"trace"}, {"trace", "auth"}, {"trace", "auth", "m"}}}
MCFold ==
    [c \in {"a", "A", "b", "z"} |-> [nfc |-> c, key |-> IF c = "A" THEN "a" ELSE c]]
MCPaths ==
    {<< >>, <<"A">>, <<"a", "z", "z">>, <<"z", "z", "z">>, <<"..">>}
    \cup {<<c>> : c \in {"a", "b", "z"}} \cup {<<c, d>> : c, d \in {"a", "b", "z"}}
MCRouteRequests == [method : {"GET", "POST"}, path : MCPaths]
MCRouterLimits ==
    [routes |-> 3, scopes |-> 2, depth |-> 2, middleware |-> 2, boundaries |-> 2, loaders |-> 2]

-----------------------------------------------------------------------------
MCInit ==
    /\ focus \in {"action", "cache", "session", "context", "host", "render", "body", "router"}
    /\ Init /\ CacheInit /\ SessionInit /\ CtxInit /\ ReqInit /\ RenInit /\ UpInit /\ RouInit
    /\ focus # "router" => rou.root.declared = {"trace"}
    /\ focus # "action" => \A c \in Requests : call[c].input = "i"

\* Everything but one component.
Others(component) ==
    /\ UNCHANGED focus
    /\ component # "action"  => UNCHANGED vars
    /\ component # "cache"   => UNCHANGED cacheVars
    /\ component # "session" => UNCHANGED sessionVars
    /\ component # "context" => UNCHANGED ctxVars
    /\ component # "host"    => UNCHANGED reqVars
    /\ component # "render"  => UNCHANGED renVars
    /\ component # "body"    => UNCHANGED upVars
    /\ component # "router"  => UNCHANGED rouVars

MCNext ==
    \/ focus = "action"  /\ Next        /\ Others("action")
    \/ focus = "cache"   /\ CacheNext   /\ Others("cache")
    \/ focus = "session" /\ SessionNext /\ Others("session")
    \/ focus = "context" /\ CtxNext     /\ Others("context")
    \/ focus = "host"    /\ ReqNext     /\ Others("host")
    \/ focus = "render"  /\ RenNext     /\ Others("render")
    \/ focus = "body"    /\ UpNext      /\ Others("body")
    \/ focus = "router"  /\ RouNext     /\ Others("router")
=============================================================================
