---------------------------- MODULE MCRouterTxn ----------------------------
(* Small instances of RouterTxn for TLC. *)
EXTENDS RouterTxn

Static(chars) == [typ |-> "static", value |-> chars, regexp |-> NoRegexp, hsplit |-> FALSE]
CatchAll(n)   == [typ |-> "wildcard", value |-> n, regexp |-> NoRegexp, hsplit |-> FALSE]

\* The patterns /a/ and /a/*{any}: the first shadows the empty capture of the
\* second when their methods and matchers allow it.
Exact    == [str |-> "/a/", tokens |-> <<Static(<<"/", "a", "/">>)>>,
             optionalCatchAll |-> FALSE]
Optional == [str |-> "/a/*{any}",
             tokens |-> <<Static(<<"/", "a", "/">>), CatchAll("any")>>,
             optionalCatchAll |-> TRUE]

Mk(p, ms, xs, n, tag) ==
    [pattern |-> p, methods |-> ms, matchers |-> xs, name |-> n,
     priority |-> Cardinality(xs), tag |-> tag]

\* Two versions of GET /a/ that differ in name, GET and POST sharing a name
\* with one of them, a method-less catch-all with a matcher.
MCRoutes ==
    {Mk(Exact, {"GET"}, {}, <<"n">>, 1), Mk(Exact, {"GET"}, {}, <<"m">>, 2),
     Mk(Exact, {"GET", "POST"}, {"x"}, <<"n">>, 3),
     Mk(Exact, {}, {}, <<>>, 4),
     Mk(Optional, {"POST"}, {"x"}, <<"m">>, 5)}
=============================================================================
