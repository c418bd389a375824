----------------------------- MODULE MCCowRouter -----------------------------
(* Small instances of CowRouter for TLC. *)
EXTENDS CowRouter

Static(chars)    == [typ |-> "static", value |-> chars, regexp |-> NoRegexp, hsplit |-> FALSE]
HostStatic(chars) == [Static(chars) EXCEPT !.hsplit = TRUE]
Brace(typ, n, re) == [typ |-> typ, value |-> n, regexp |-> re, hsplit |-> FALSE,
                      nested |-> FALSE]

Pattern(str, tokens) == [str |-> str, tokens |-> tokens, optionalCatchAll |-> FALSE]
Optional(str, tokens) == [Pattern(str, tokens) EXCEPT !.optionalCatchAll = TRUE]

Mk(p, ms, xs, n, prio) ==
    [pattern |-> p, methods |-> ms, matchers |-> xs, name |-> n, priority |-> prio, tag |-> 0]

A   == Pattern("/a", <<Static(<<"/", "a">>)>>)
AB  == Pattern("/ab", <<Static(<<"/", "a", "b">>)>>)
AC  == Pattern("/ac", <<Static(<<"/", "a", "c">>)>>)
AX  == Pattern("/a/{x}", <<Static(<<"/", "a", "/">>), Brace("param", "x", NoRegexp)>>)
AXR == Pattern("/a/{x:r}", <<Static(<<"/", "a", "/">>), Brace("param", "x", "r")>>)
AXB == Pattern("/a/{x}/b", <<Static(<<"/", "a", "/">>), Brace("param", "x", NoRegexp),
                             Static(<<"/", "b">>)>>)
AYB == Pattern("/a/{y}/b", <<Static(<<"/", "a", "/">>), Brace("param", "y", NoRegexp),
                             Static(<<"/", "b">>)>>)
ASC == Pattern("/a/c", <<Static(<<"/", "a", "/", "c">>)>>)
AS  == Pattern("/a/", <<Static(<<"/", "a", "/">>)>>)
AZ  == Optional("/a/*{z}", <<Static(<<"/", "a", "/">>), Brace("wildcard", "z", NoRegexp)>>)
HA  == Pattern("h/a", <<HostStatic(<<"h">>), Static(<<"/", "a">>)>>)
HP  == Pattern("{h}/a", <<Brace("param", "h", NoRegexp), Static(<<"/", "a">>)>>)
HPC == Pattern("{h}.c/a", <<Brace("param", "h", NoRegexp), HostStatic(<<".", "c">>),
                            Static(<<"/", "a">>)>>)
HIA == Pattern("hi/a", <<HostStatic(<<"h", "i">>), Static(<<"/", "a">>)>>)

\* Names that share prefixes, and updates that rename.
NameRoutes ==
    {Mk(A, {"G"}, {}, <<"n">>, 0), Mk(A, {"G"}, {}, <<"n", "m">>, 0),
     Mk(AB, {"G"}, {}, <<"n", "k">>, 0), Mk(AC, {}, {}, <<"n", "m">>, 0)}

\* Splits and merges.
ShapeRoutes ==
    {Mk(A, {}, {}, <<>>, 0), Mk(ASC, {}, {}, <<>>, 0), Mk(AX, {}, {}, <<>>, 0),
     Mk(AXB, {}, {}, <<>>, 0)}

\* Params with and without an expression, and with two names at one node.
ParamRoutes == {Mk(AX, {}, {}, <<>>, 0), Mk(AXR, {}, {}, <<>>, 0), Mk(AYB, {}, {}, <<>>, 0)}

\* Hostnames: one a prefix of the other, and below a parameter.
HostRoutes ==
    {Mk(HA, {"G"}, {}, <<"n">>, 0), Mk(HIA, {"G"}, {}, <<>>, 0), Mk(HP, {}, {}, <<>>, 0), Mk(HPC, {}, {}, <<>>, 0)}

\* Several routes on a leaf, updates that change the priority, an exact route
\* that shadows a catch-all.
LeafRoutes ==
    {Mk(AS, {"G"}, {"x"}, <<>>, 1), Mk(AS, {"G"}, {"x"}, <<>>, 3), Mk(AS, {}, {}, <<>>, 0),
     Mk(AS, {"G"}, {"y"}, <<>>, 2), Mk(AZ, {"G"}, {"x", "y"}, <<>>, 2)}

\* Names with a reader or snapshot beside the writer.
NameFamilies == {[routes |-> NameRoutes, readers |-> Readers]}

ShapeUnion    == ShapeRoutes \cup ParamRoutes \cup HostRoutes \cup LeafRoutes
ShapeFamilies ==
    {[routes |-> rs, readers |-> {}] : rs \in {ShapeRoutes, ParamRoutes, HostRoutes, LeafRoutes}}
=============================================================================
