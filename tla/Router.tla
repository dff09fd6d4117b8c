-------------------------------- MODULE Router --------------------------------
(***************************************************************************)
(* pliego-router: route patterns, the scopes they inherit behaviours from, *)
(* what RouteGraphBuilder::seal refuses, and how a sealed graph resolves a *)
(* request.  A pattern is a sequence of segments [kind, name]; a request   *)
(* path a sequence of components.  NFC and the portable case key of a      *)
(* literal are given by RouFold.                                           *)
(***************************************************************************)
EXTENDS Naturals, Sequences, SequencesExt, FiniteSets

CONSTANTS
    RouRoutes,     \* RouteSpec: [id, method, pattern, scope, middleware, boundaries,
                   \*             loaders, actions, resources]
    RouScopes,     \* RouteScopeSpec: [id, kind, parent, middleware, boundaries, loaders,
                   \*                  resources]
    RouRoots,      \* [pre, boundaries, declared]: the rest of the builder
    RouRequests,   \* [method, path]
    RouFold,       \* literal or component |-> [nfc, key]
    RouMax,        \* [routes, scopes, depth, middleware, boundaries, loaders]: the limits
    RouBound       \* routes and scopes a builder is given

RouKinds == {"literal", "parameter", "optional", "catchall", "group"}

\* The case key of a name is computed from its NFC.
ASSUME RouAssumption ==
    /\ \A r \in RouRoutes : r.pattern \in Seq([kind : RouKinds, name : STRING])
    /\ \A q \in RouRequests : q.path \in Seq(STRING)
    /\ \A c, d \in DOMAIN RouFold : RouFold[c].nfc = RouFold[d].nfc => RouFold[c].key = RouFold[d].key

VARIABLES
    rou,           \* the builder: [at, routes, scopes, root]
    rouMatch       \* the last answer of resolve

rouVars == <<rou, rouMatch>>

-----------------------------------------------------------------------------
(* Patterns.                                                               *)

\* RoutePattern::parse and parse_segment: optional and catch-all segments are
\* the last of the pattern, parameter names are distinct.
RouPatternValid(p) ==
    /\ Len(p) <= 32
    /\ \A i \in DOMAIN p :
          /\ p[i].kind = "literal" => p[i].name \in DOMAIN RouFold
          /\ p[i].kind \in {"optional", "catchall"} => i = Len(p)
          /\ \A j \in DOMAIN p : (i /= j /\ {p[i].kind, p[j].kind} \cap {"literal", "group"} = {})
                => p[i].name /= p[j].name

\* Groups consume no part of a path.
RouSegments(p) ==
    FoldLeft(LAMBDA kept, s : IF s.kind = "group" THEN kept ELSE Append(kept, s), <<>>, p)

RouShape(s) ==
    CASE s.kind = "literal" -> <<"=", RouFold[s.name].key>>
      [] s.kind \in {"parameter", "optional"} -> <<":">>
      [] s.kind = "catchall" -> <<"*">>

\* Mutant: an optional parameter has only the shape of its presence.
RouShapeKeysFull(p) ==
    LET full == [i \in DOMAIN RouSegments(p) |-> RouShape(RouSegments(p)[i])] IN {full}

\* shape_keys: with an optional parameter, also the shape without it.
RouShapeKeys(p) ==
    LET segments == RouSegments(p)
        full == [i \in DOMAIN segments |-> RouShape(segments[i])]
    IN {full} \cup
        IF segments /= <<>> /\ segments[Len(segments)].kind = "optional"
        THEN {SubSeq(full, 1, Len(full) - 1)} ELSE {}

RouWeight == [k \in RouKinds |->
    CASE k = "literal" -> 4 [] k = "parameter" -> 3 [] k = "optional" -> 2
      [] k = "catchall" -> 1 [] k = "group" -> 0]
RouSpecificity(p) == [i \in DOMAIN RouSegments(p) |-> RouWeight[RouSegments(p)[i].kind]]

\* Vec<u8> is compared lexicographically.
RouLess(u, v) ==
    \E n \in 0..Len(v) :
        /\ n <= Len(u) /\ SubSeq(u, 1, n) = SubSeq(v, 1, n)
        /\ n < Len(v) /\ (n = Len(u) \/ u[n + 1] < v[n + 1])

\* match_admitted, segment by segment, of a path in NFC.
RouMatches(p, path) ==
    LET s == RouSegments(p)
        fits(i) == CASE s[i].kind = "literal" -> RouFold[s[i].name].nfc = path[i]
                     [] OTHER -> TRUE
        open == s /= <<>> /\ s[Len(s)].kind \in {"optional", "catchall"}
        fixed == IF open THEN Len(s) - 1 ELSE Len(s)
    IN /\ fixed <= Len(path) /\ \A i \in 1..fixed : fits(i)
       /\ IF ~open THEN Len(path) = fixed
          ELSE IF s[Len(s)].kind = "optional" THEN Len(path) \in {fixed, fixed + 1}
          ELSE Len(path) > fixed

\* The parameters a match binds.
RouParameters(p, path) ==
    LET s == RouSegments(p)
        bound == {i \in DOMAIN s : s[i].kind /= "literal" /\ i <= Len(path)}
    IN {<<s[i].name, IF s[i].kind = "catchall" THEN SubSeq(path, i, Len(path)) ELSE <<path[i]>>>>
          : i \in bound}

-----------------------------------------------------------------------------
(* Scopes.                                                                 *)

RouScope(b, id) == CHOOSE s \in b.scopes : s.id = id

\* The parents of a scope from the root down to it; empty when the walk meets
\* a scope that is unknown or was met before.
RouChain(b, leaf) ==
    LET bound == Cardinality(b.scopes) + 1
        walk[n \in 0..bound] ==
            IF n = 0 THEN <<leaf>>
            ELSE LET up == walk[n - 1]
                     known == \E s \in b.scopes : s.id = up[1]
                 IN IF known /\ RouScope(b, up[1]).parent /= "none"
                    THEN <<RouScope(b, up[1]).parent>> \o up ELSE up
        all == walk[bound]
    IN IF leaf = "none" \/ ~IsInjective(all) \/ \E i \in DOMAIN all : all[i] \notin {s.id : s \in b.scopes}
       THEN <<>> ELSE all

\* What the scopes of a chain and the route itself declare, outermost first.
RouInherited(b, leaf, f) ==
    FlattenSeq([i \in DOMAIN RouChain(b, leaf) |-> RouScope(b, RouChain(b, leaf)[i])[f]])

RouBehaviours(b, r, f) == RouInherited(b, r.scope, f) \o r[f]

\* resolve_scope_chain succeeds.
RouChainValid(b, leaf) ==
    leaf /= "none" =>
        /\ RouChain(b, leaf) /= <<>> /\ Len(RouChain(b, leaf)) <= RouMax.depth
        /\ \A f \in {"middleware", "boundaries", "loaders"} : IsInjective(RouInherited(b, leaf, f))

\* The capabilities required of each resource, of the scopes and the route.
RouResources(b, r) ==
    UNION {RouScope(b, id).resources : id \in ToSet(RouChain(b, r.scope))} \cup r.resources

-----------------------------------------------------------------------------
(* RouteGraphBuilder.                                                      *)

RouInit ==
    /\ \E root \in RouRoots :
          rou = [at |-> "open", routes |-> {}, scopes |-> {}, again |-> FALSE, root |-> root]
    /\ rouMatch = [outcome |-> "none"]

\* The builders of a scope and of a route refuse a repeated behaviour and more
\* of them than the limits allow.
RouScopeSpecValid(s) ==
    \A f \in {"middleware", "boundaries", "loaders"} : IsInjective(s[f]) /\ Len(s[f]) <= RouMax[f]

RouRouteSpecValid(r) ==
    /\ RouPatternValid(r.pattern)
    /\ \A f \in {"middleware", "boundaries", "loaders"} : IsInjective(r[f]) /\ Len(r[f]) <= RouMax[f]
    /\ IsInjective(r.actions)

\* The builder keeps what it is given, also what it was given before.
RouAdd(r) ==
    /\ rou.at = "open" /\ Cardinality(rou.routes) < RouBound
    /\ RouRouteSpecValid(r)
    /\ rou' = [rou EXCEPT !.routes = @ \cup {r}, !.again = @ \/ r \in rou.routes]
    /\ UNCHANGED rouMatch

RouAddScope(s) ==
    /\ rou.at = "open" /\ Cardinality(rou.scopes) < RouBound
    /\ RouScopeSpecValid(s)
    /\ rou' = [rou EXCEPT !.scopes = @ \cup {s}, !.again = @ \/ s \in rou.scopes]
    /\ UNCHANGED rouMatch

RouUsed(b) ==
    UNION {ToSet(r.middleware) : r \in b.routes} \cup UNION {ToSet(s.middleware) : s \in b.scopes}

\* The scopes: known, acyclic, within the limits, each reached by a route.
RouScopesValid(b) ==
    /\ \A s, t \in b.scopes : s.id = t.id => s = t
    /\ \A s \in b.scopes : RouChainValid(b, s.id)
    /\ \A r \in b.routes :
          /\ RouChainValid(b, r.scope)
          /\ \A f \in {"middleware", "loaders"} :
                /\ IsInjective(RouBehaviours(b, r, f))
                /\ Len(RouBehaviours(b, r, f)) <= RouMax[f]
          /\ IsInjective(b.root.boundaries \o RouBehaviours(b, r, "boundaries"))
          /\ Len(b.root.boundaries \o RouBehaviours(b, r, "boundaries")) <= RouMax.boundaries
    /\ {s.id : s \in b.scopes} \subseteq UNION {ToSet(RouChain(b, r.scope)) : r \in b.routes}

\* No two routes of one id, no two of one method with a shape in common.
RouCollides(b) ==
    \E r, s \in b.routes : r /= s /\
        (r.id = s.id \/ (r.method = s.method
                         /\ RouShapeKeys(r.pattern) \cap RouShapeKeys(s.pattern) /= {}))

\* Every middleware used is declared, every declaration used, none in two phases.
RouMiddlewareValid(b) ==
    /\ ToSet(b.root.pre) \cap RouUsed(b) = {}
    /\ b.root.declared = RouUsed(b) \cup ToSet(b.root.pre)

RouSealable(b) ==
    /\ Cardinality(b.routes) <= RouMax.routes /\ Cardinality(b.scopes) <= RouMax.scopes
    /\ ~b.again /\ RouScopesValid(b) /\ ~RouCollides(b) /\ RouMiddlewareValid(b)

RouSeal ==
    /\ rou.at = "open"
    /\ rou' = [rou EXCEPT !.at = IF RouSealable(rou) THEN "sealed" ELSE "refused"]
    /\ UNCHANGED rouMatch

\* The first route of match_order that matches; equal specificity is ordered by
\* canonical pattern and id.
RouBest(b, method, path) ==
    LET matching == {r \in b.routes : r.method = method /\ RouMatches(r.pattern, path)}
    IN CHOOSE r \in matching :
          \A s \in matching : ~RouLess(RouSpecificity(r.pattern), RouSpecificity(s.pattern))

\* The layouts among the scopes of a route.
RouLayouts(b, chain) == SelectSeq(chain, LAMBDA id : RouScope(b, id).kind = "layout")

\* The request's path in NFC.
RouPath(q) == [i \in DOMAIN q.path |-> RouFold[q.path[i]].nfc]

\* RouteGraph::resolve, of a path validate_request_path accepts.
RouAnswer(b, q) ==
    LET path == RouPath(q)
        allowed == {r.method : r \in {s \in b.routes : RouMatches(s.pattern, path)}}
    IN IF \E i \in DOMAIN q.path : q.path[i] \notin DOMAIN RouFold
       THEN [outcome |-> "invalid"]
       ELSE IF q.method \in allowed
       THEN LET r == RouBest(b, q.method, path)
            IN [outcome |-> "matched", route |-> r.id,
                parameters |-> RouParameters(r.pattern, path),
                scopes |-> RouChain(b, r.scope),
                layouts |-> RouLayouts(b, RouChain(b, r.scope)),
                middleware |-> RouBehaviours(b, r, "middleware"),
                boundaries |-> RouBehaviours(b, r, "boundaries"),
                loaders |-> RouBehaviours(b, r, "loaders"),
                actions |-> r.actions, resources |-> RouResources(b, r)]
       ELSE IF allowed = {} THEN [outcome |-> "not-found"]
       ELSE [outcome |-> "method", allowed |-> allowed]

RouResolve(q) ==
    /\ rou.at = "sealed"
    /\ rouMatch' = RouAnswer(rou, q)
    /\ UNCHANGED rou

RouNext ==
    \/ \E r \in RouRoutes : RouAdd(r)
    \/ \E s \in RouScopes : RouAddScope(s)
    \/ RouSeal
    \/ \E q \in RouRequests : RouResolve(q)

RouSpec == RouInit /\ [][RouNext]_rouVars

-----------------------------------------------------------------------------
(* Properties.                                                             *)

\* A request of the route's method that it matches and that has, wherever the
\* route spells no literal, components that no route of the graph spells.
RouFills(b, r, q) ==
    LET segments == RouSegments(r.pattern)
        spelt(c) == \E s \in b.routes : \E t \in ToSet(s.pattern) :
                        t.kind = "literal" /\ RouFold[t.name].nfc = c
    IN /\ q.method = r.method /\ ToSet(q.path) \subseteq DOMAIN RouFold
       /\ RouMatches(r.pattern, RouPath(q))
       /\ \A i \in DOMAIN q.path :
             spelt(RouPath(q)[i]) => i <= Len(segments) /\ segments[i].kind = "literal"

\* A route that matches too, has the shapes of a route that ends in a catch-all
\* up to there, and a parameter where the catch-all stands.
RouOvertakes(s, r, q) ==
    LET mine == RouSegments(s.pattern)
        theirs == RouSegments(r.pattern)
        n == Len(theirs)
    IN /\ s.method = r.method /\ RouMatches(s.pattern, RouPath(q))
       /\ n > 0 /\ theirs[n].kind = "catchall"
       /\ Len(mine) >= n /\ mine[n].kind \in {"parameter", "optional"}
       /\ \A i \in 1..(n - 1) : RouShape(mine[i]) = RouShape(theirs[i])

\* A route of a sealed graph answers every request that only fills its
\* parameters, whatever other routes were sealed with it and whichever order
\* they were added in; the one exception is a catch-all, overtaken where another
\* route has a parameter in its place (seal's collision test on shape_keys and
\* match_order together, lib.rs:1021-1037 and 1197-1204).
RouOnlyCatchAllsAreShadowed ==
    rou.at = "sealed" => \A r \in rou.routes, q \in RouRequests :
        RouFills(rou, r, q) =>
            \/ RouAnswer(rou, q).outcome = "matched" /\ RouAnswer(rou, q).route = r.id
            \/ \E s \in rou.routes : RouOvertakes(s, r, q)

\* What every step preserves: the routes are built ones, and a sealed graph has
\* no two that collide.
RouInvariant ==
    /\ rou \in [at : {"open", "sealed", "refused"}, routes : SUBSET RouRoutes,
                scopes : SUBSET RouScopes, again : BOOLEAN,
                root : RouRoots]
    /\ \A r \in rou.routes : RouRouteSpecValid(r)
    /\ rou.at = "sealed" => ~RouCollides(rou)
================================================================================
