---------------------------- MODULE MCRequestHost ----------------------------
(***************************************************************************)
(* TLC instance of RequestHost: one route under two layers, in a builder   *)
(* that registers the cache its action invalidates and in one that does    *)
(* not, and requests for the route, for none and over a limit, whose body  *)
(* is longer than the limit once it is read.                               *)
(***************************************************************************)
EXTENDS RequestHost

HostRoute ==
    [id |-> "home", layers |-> <<"auth">>, boundaries |-> {"oops"}, actions |-> {"save"},
     loaders |-> {"page"}, cache |-> "none", resources |-> {"db"}]

HostLayers ==
    [m \in {"auth", "trace"} |->
        IF m = "auth" THEN {"reject"} ELSE {"mutate-response-headers"}]

HostBuilder(caches) ==
    [routes |-> {HostRoute}, duplicates |-> {}, handlers |-> {"home"}, pre |-> <<"trace">>,
     layers |-> HostLayers, declared |-> HostLayers, boundaries |-> {"oops"},
     actions |-> [a \in {"save"} |-> [invalidates |-> {"list"}, resources |-> {"db"}]],
     loaders |-> [l \in {"page"} |-> [cache |-> "none", resources |-> {"db"}]],
     caches |-> caches]
MCBuilders == {HostBuilder({"list"}), HostBuilder({})}

HostHead(path, target, odd) ==
    [path |-> path, target |-> target, headers |-> 1, length |-> FALSE, chunked |-> TRUE,
     bytes |-> 2, encoding |-> "identity", multipart |-> FALSE, odd |-> odd]
MCHeads == {HostHead("home", 1, TRUE), HostHead("gone", 9, FALSE), HostHead("none", 1, FALSE)}

MCHostLimits ==
    [target |-> 2, headers |-> 2, body |-> 1, response |-> 1, cleanups |-> 1,
     concurrent |-> 1, connections |-> 2, gzip |-> FALSE, multipart |-> FALSE]
=============================================================================
