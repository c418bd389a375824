----------------------------- MODULE MCDispatch -----------------------------
(* Small instances of Dispatch for TLC, with the matching of RouteMatch. *)
EXTENDS Dispatch

NoAccepts(e, s) == TRUE

NoExpression == "none"    \* NoRegexp of RouteTable

Token(typ, chars) == [typ |-> typ, value |-> chars, regexp |-> NoExpression]
Static(chars) == Token("static", chars)
P == Token("param", <<>>)
W == Token("wildcard", <<>>)

Route(str, tokens, optional, slash, ms) ==
    [pattern |-> [str |-> str, tokens |-> tokens, optionalCatchAll |-> optional, hostLen |-> 0],
     methods |-> ms, matchers |-> {}, name |-> <<>>, priority |-> 0, slash |-> slash, tag |-> 0]

Req(m, p) == [method |-> m, path |-> p, malformed |-> FALSE, opaque |-> FALSE, preflight |-> FALSE]

Modes == {"exact", "normalize", "redirect"}
SlashModes == {"exact", "relaxed", "redirect"}

-----------------------------------------------------------------------------
(* Redirects: paths with runs of slashes and dot segments, every mode. *)

RedirectConfigs ==
    {[merge |-> m, collapse |-> c, noMethod |-> FALSE, autoOptions |-> FALSE, systemWide |-> FALSE] :
        m \in Modes, c \in Modes}

RedirectRoutes(s) ==
    {Route("/a", <<Static(<<"/", "a">>)>>, FALSE, s, {}),
     Route("/a/", <<Static(<<"/", "a", "/">>)>>, FALSE, s, {}),
     Route("/", <<Static(<<"/">>)>>, FALSE, s, {}),
     Route("/{p}/a", <<Static(<<"/">>), P, Static(<<"/", "a">>)>>, FALSE, s, {}),
     Route("/+{w}/", <<Static(<<"/">>), W, Static(<<"/">>)>>, FALSE, s, {}),
     Route("/a/*{w}", <<Static(<<"/", "a", "/">>), W>>, TRUE, s, {})}

\* One route for every path: also for "//", what "/.//" collapses to.
Everything == Route("/+{w}", <<Static(<<"/">>), W>>, FALSE, "redirect", {})

RedirectTables == {{r} : r \in UNION {RedirectRoutes(s) : s \in SlashModes}} \cup
                  {RedirectRoutes("redirect"), RedirectRoutes("relaxed"), {Everything}}

Strings(chars, n) == UNION {[1 .. k -> chars] : k \in 0 .. n}

RedirectPaths == {<<Slash>> \o s : s \in Strings({"a", ".", "/"}, 4)} \cup
                 {<<>>, <<"/", "a", "/", "a", "/", ".", ".">>}

RedirectRequests ==
    {[Req(m, p) EXCEPT !.malformed = b] : m \in {"GET", "CONNECT"}, p \in RedirectPaths, b \in {FALSE}}
    \cup {[Req("GET", p) EXCEPT !.malformed = TRUE] : p \in {q \in RedirectPaths : Len(q) < 4}}
    \cup {[Req("GET", p) EXCEPT !.opaque = TRUE] : p \in {<<>>, <<"/", "a", "/">>, <<"/", "/", "a">>}}

-----------------------------------------------------------------------------
(* Allow: routes that share paths and differ in methods and slashes. *)

AllowConfigs ==
    {[merge |-> m, collapse |-> "exact", noMethod |-> n, autoOptions |-> o, systemWide |-> s] :
        <<m, s>> \in {<<"exact", TRUE>>, <<"normalize", TRUE>>, <<"redirect", FALSE>>},
        n \in BOOLEAN, o \in BOOLEAN}

AllowRoutes ==
    UNION {{Route("/a", <<Static(<<"/", "a">>)>>, FALSE, s, {"GET"}),
            Route("/{p}", <<Static(<<"/">>), P>>, FALSE, s, {"GET", "PUT"}),
            Route("/{p}/", <<Static(<<"/">>), P, Static(<<"/">>)>>, FALSE, s, {"POST", "CONNECT"}),
            Route("/+{w}", <<Static(<<"/">>), W>>, FALSE, s, {"PUT", "OPTIONS"}),
            Route("/a/", <<Static(<<"/", "a", "/">>)>>, FALSE, s, {}),
            Route("/+{w}/a", <<Static(<<"/">>), W, Static(<<"/", "a">>)>>, FALSE, s, {"PUT", "CONNECT"})} : s \in SlashModes}

\* No two routes of a table have a pattern in common.
AllowTables ==
    {t \in kSubset(2, AllowRoutes) : \A r1, r2 \in t : r1 # r2 => r1.pattern.str # r2.pattern.str}
    \cup {{r} : r \in AllowRoutes} \cup {{}}

MCMethods == {"GET", "POST", "PUT", "OPTIONS", "CONNECT"}

AllowRequests ==
    {Req(m, p) : m \in MCMethods \cup {"HEAD"},
                 p \in {<<"/", "a">>, <<"/", "a", "/">>, <<"/", "b">>, <<"/">>, <<"/", "/", "/", "a">>, <<"/", ".", "/">>}}
    \cup {Req("OPTIONS", <<"*">>), Req("", <<"/", "a">>)}
    \cup {[Req("OPTIONS", p) EXCEPT !.preflight = TRUE] : p \in {<<"/", "a">>, <<"/">>}}
    \cup {[Req("GET", <<"/", "a", "/">>) EXCEPT !.opaque = TRUE]}

-----------------------------------------------------------------------------

MCScenarios ==
    {[confs |-> RedirectConfigs, tables |-> RedirectTables, reqs |-> RedirectRequests],
     [confs |-> AllowConfigs, tables |-> AllowTables, reqs |-> AllowRequests]}
=============================================================================
