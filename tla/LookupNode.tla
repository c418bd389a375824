----------------------------- MODULE LookupNode -----------------------------
(***************************************************************************)
(* What the walk of module RouteLookup and the Pike VM of module PikeVM ask *)
(* of the tree: which route of a node serves the request, directly or with  *)
(* a trailing slash added or dropped, and what kind of edge a wildcard is.  *)
(***************************************************************************)
EXTENDS CowTree, RouteMatch, Regprog

CONSTANT Prog(_)     \* the program of an expression

VARIABLES nodes,     \* the nodes of the tree
          top,       \* its root
          req        \* the request

tree == <<nodes, top, req>>

InputOf(mode) == IF mode = "host" THEN req.host ELSE req.path
DelimOf(mode) == IF mode = "host" THEN Dot ELSE Slash

NoRegexpOn(n) == nodes[n].key \in {"?", "*"}
MatchRegexp(n, s) == NoRegexpOn(n) \/ Accepts(nodes[n].key, s)

IsSlash(n)  == nodes[n].label = Slash /\ nodes[n].key = <<Slash>>
SlashChild(n) == Slash \in DOMAIN nodes[n].statics /\ IsSlash(nodes[n].statics[Slash])

\* A wildcard that something of the same part may follow, and one that may take
\* the rest of it.
InfixEdge(mode, w) == IF mode = "host" THEN DOMAIN nodes[w].statics # {Slash}
                                       ELSE DOMAIN nodes[w].statics # {}
SuffixEdge(mode, w) == IF mode = "host" THEN DOMAIN nodes[w].statics # {Dot}
                                        ELSE IsLeaf(nodes[w])

-----------------------------------------------------------------------------
(* The routes of a node *)

\* The routes a loop over node.routes considers.
Eligible(r, use) ==
    /\ use \in {"slash", "drop", "emptySlash"} => r.slash # "exact"
    /\ use = "drop" => ~CatchAll(r)
    /\ use \in {"empty", "emptySlash"} => r.pattern.optionalCatchAll

FirstRoute(n, use) ==
    LET rs == nodes[n].routes
    IN  FirstOf({i \in DOMAIN rs : Eligible(rs[i], use) /\ RouteAccepts(rs[i], req)})

\* The first wildcard below n with a catch-all for the empty string.
EmptyCatchAll(n, use) ==
    FirstOf({i \in DOMAIN nodes[n].wildcards : FirstRoute(nodes[n].wildcards[i], use) # 0})

\* matchTrailingSlash: c is a static child that adds the slash.
MatchTrailingSlash(c) == FirstRoute(c, "slash") # 0 \/ EmptyCatchAll(c, "emptySlash") # 0

TrailingSlash(c) ==
    LET w == nodes[c].wildcards[EmptyCatchAll(c, "emptySlash")]
    IN  IF FirstRoute(c, "slash") # 0 THEN [node |-> c, index |-> FirstRoute(c, "slash")]
        ELSE [node |-> w, index |-> FirstRoute(w, "emptySlash")]

\* The key is the rest of the path and a slash, but does not end with two.
MissesSlash(key, rest) == key = Append(rest, Slash) /\ key[Len(key) - 1] # Slash

\* The path ends with the slash that a leaf lacks.
DropsSlash(n, rest) ==
    /\ rest = <<Slash>>
    /\ ~EndsWith(req.path, <<Slash, Slash>>)
    /\ FirstRoute(n, "drop") # 0

\* At the end of the path: a slash is missing below n, or n is a slash too much.
EndAddsSlash(n) == SlashChild(n) /\ ~EndsWith(req.path, <<Slash>>)
EndDropsSlash(n, parent) ==
    /\ ~EndAddsSlash(n)
    /\ IsSlash(n) /\ parent # Nil
    /\ ~EndsWith(req.path, <<Slash, Slash>>)
    /\ FirstRoute(parent, "drop") # 0
=============================================================================
