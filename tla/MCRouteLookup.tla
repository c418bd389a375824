---------------------------- MODULE MCRouteLookup ----------------------------
(* Small instances of RouteLookup for TLC. *)
EXTENDS RouteLookup

Static(chars) == StaticToken(chars)
HostStatic(chars) == [Static(chars) EXCEPT !.hsplit = TRUE]
P  == BraceToken("param", "?")
PR == BraceToken("param", "r")
W  == BraceToken("wildcard", "*")
WR == BraceToken("wildcard", "r")
S  == Static(<<"/">>)
SB == Static(<<"/", "b">>)

WU == BraceToken("wildcard", "u")

\* The expression r is [a/.]*a, the expression u \B.[^/]*, a non-word rune first.
MCAccepts(e, s) ==
    IF e = "r" THEN ToSet(s) \subseteq {"a", "/", "."} /\ Last(s) = "a"
    ELSE s # <<>> /\ Head(s) \in {"<", "."} /\ Slash \notin ToSet(s)

Inst(op, set, out, arg) == [op |-> op, set |-> set, out |-> out, arg |-> arg]

ProgR == <<Inst("assert", {"beginText"}, 2, 0), Inst("alt", {}, 3, 4),
           Inst("rune", {"a", "/", "."}, 2, 0), Inst("rune", {"a"}, 5, 0),
           Inst("assert", {"endText"}, 6, 0), Inst("match", {}, 0, 0)>>

NotSlash == {"a", "b", "h", ".", "<>", "?"}
ProgU == <<Inst("assert", {"beginText", "noWordBoundary"}, 2, 0), Inst("rune", NotSlash, 3, 0),
           Inst("alt", {}, 2, 4), Inst("assert", {"endText"}, 5, 0), Inst("match", {}, 0, 0)>>

MCProg(e) == IF e = "r" THEN ProgR ELSE ProgU

\* A wildcard is nested if another one precedes it in the hostname or the path.
Nested(tokens, hostLen) ==
    [i \in DOMAIN tokens |->
        [tokens[i] EXCEPT !.nested =
            /\ tokens[i].typ = "wildcard"
            /\ \E j \in 1 .. i - 1 : tokens[j].typ = "wildcard" /\ (j <= hostLen <=> i <= hostLen)]]

Route(str, tokens, hostLen, optional, slash, ms, xs) ==
    [pattern |-> [str |-> str, tokens |-> Nested(tokens, hostLen), optionalCatchAll |-> optional,
                  hostLen |-> hostLen],
     methods |-> ms, matchers |-> xs, name |-> <<>>, priority |-> 0, slash |-> slash, tag |-> 0]

Relaxed(str, tokens) == Route(str, tokens, 0, FALSE, "relaxed", {}, {})

Host(str, tokens, hostLen) == Route(str, tokens, hostLen, FALSE, "relaxed", {}, {})

PathRoutes ==
    {Relaxed("/a", <<Static(<<"/", "a">>)>>),
     Route("/a/", <<Static(<<"/", "a", "/">>)>>, 0, FALSE, "exact", {}, {}),
     Relaxed("/a/b", <<Static(<<"/", "a", "/", "b">>)>>),
     Relaxed("/{p}", <<S, P>>),
     Relaxed("/{p}/b/", <<S, P, Static(<<"/", "b", "/">>)>>),
     Relaxed("/{p}/", <<S, P, S>>),
     Route("/{p:r}", <<S, PR>>, 0, FALSE, "relaxed", {}, {"x"}),
     Relaxed("/+{w}", <<S, W>>),
     Relaxed("/+{w}/", <<S, W, S>>),
     Relaxed("/+{w}/b", <<S, W, SB>>),
     Relaxed("/+{w:r}/", <<S, WR, S>>),
     Relaxed("/+{w}/b/+{v}/a", <<S, W, Static(<<"/", "b", "/">>), W, Static(<<"/", "a">>)>>),
     Route("/a/*{z}", <<Static(<<"/", "a", "/">>), W>>, 0, TRUE, "relaxed", {"POST"}, {})}

AllLists(rs, n) == {SetToSeq(x) : x \in {y \in SUBSET rs : Cardinality(y) \in 1 .. n}}

Strings(chars, n) == UNION {[1 .. k -> chars] : k \in 0 .. n}

\* The matcher x asks for a POST.
Req(m, h, p, lazy) == [method |-> m, host |-> h, path |-> p, lazy |-> lazy,
                       satisfied |-> IF m = "POST" THEN {"x"} ELSE {}]

PathLists == AllLists(PathRoutes, 3)
PathRequests ==
    {Req("POST", <<"h">>, <<"/">> \o s, FALSE) : s \in Strings({"a", "b", "/"}, 3)} \cup
    {Req("GET", <<>>, <<"/">> \o s, TRUE) : s \in Strings({"a", "/"}, 2)} \cup
    {Req("POST", <<>>, <<"/", "a", "/", "b", "/">> \o s, FALSE) :
        s \in {<<"b", "/", "a">>, <<"b", "/", "b", "/", "a">>, <<"b">>, <<"/", "a">>}}

\* A param and a wildcard in the middle of a segment.
GluedRoutes ==
    {Relaxed("/a", <<Static(<<"/", "a">>)>>),
     Relaxed("/a{p}", <<Static(<<"/", "a">>), P>>),
     Relaxed("/a+{w}", <<Static(<<"/", "a">>), W>>)}

GluedLists == AllLists(GluedRoutes, 3)

HostRoutes ==
    {Host("h/a", <<HostStatic(<<"h">>), Static(<<"/", "a">>)>>, 1),
     Host("h.h/{p}", <<HostStatic(<<"h", ".", "h">>), S, P>>, 1),
     Host("{x}/+{w}/b", <<P, S, W, SB>>, 1),
     Host("{x}/a", <<P, Static(<<"/", "a">>)>>, 1),
     Host("{x:r}/b", <<PR, SB>>, 1),
     Host("{x}.h/a", <<P, HostStatic(<<".", "h">>), Static(<<"/", "a">>)>>, 2),
     Host("+{x}/b", <<W, SB>>, 1),
     Host("+{x:r}/a", <<WR, Static(<<"/", "a">>)>>, 1),
     Host("+{x}.h/b", <<W, HostStatic(<<".", "h">>), SB>>, 2),
     Host("+{x}.h.+{y}/a", <<W, HostStatic(<<".", "h", ".">>), W, Static(<<"/", "a">>)>>, 3),
     Relaxed("/a", <<Static(<<"/", "a">>)>>),
     Relaxed("/{p}", <<S, P>>)}

HostLists == AllLists(HostRoutes, 3)
HostNames == {<<>>, <<"h">>, <<"H">>, <<"a">>, <<"h", ".", "H">>, <<"a", ".", "h">>, <<".", "h">>,
              <<"a", "/">>, <<"a", ".", "h", ".", "h", ".", "a">>, <<"h", ".", ".", "h">>}
HostRequests ==
    {Req("GET", h, p, FALSE) : h \in HostNames,
        p \in {<<"/", "a">>, <<"/", "b", "/">>, <<"/", "a", "/", "b">>}} \cup
    {Req("GET", <<"a", ".", "h">>, <<"/", "a", "/", "b">>, TRUE)}

-----------------------------------------------------------------------------
(* Expressions on nested wildcards *)

BS == Static(<<"/", "b", "/">>)
NestedRoutes ==
    {Relaxed("/+{w}/b/+{v:r}/a", <<S, W, BS, WR, Static(<<"/", "a">>)>>),
     Relaxed("/+{w}/b/+{v:r}/", <<S, W, BS, WR, S>>),
     Relaxed("/+{w}/b/+{v:r}", <<S, W, BS, WR>>),
     Relaxed("/+{w}/b/+{v}/a/b", <<S, W, BS, W, Static(<<"/", "a", "/", "b">>)>>),
     Relaxed("/+{w:r}/b/+{v:r}/b", <<S, WR, BS, WR, SB>>),
     Relaxed("/+{w}/b/{p}/+{v:u}/b", <<S, W, BS, P, S, WU, SB>>),
     Route("/+{w}/b/*{z:r}", <<S, W, BS, WR>>, 0, TRUE, "relaxed", {"POST"}, {}),
     Relaxed("/+{w}/", <<S, W, S>>),
     Relaxed("/+{w:r}", <<S, WR>>),
     Relaxed("/{p}/b/+{v:r}/b", <<S, P, BS, WR, SB>>)}

Segments == {<<"/", "a">>, <<"/", "b">>}
Joined2(qs) == FoldLeft(LAMBDA x, y : x \o y, <<>>, qs)
NestedPaths ==
    {<<"/", "a", "/", "b">> \o Joined2(x) : x \in Strings(Segments \cup {<<"/">>}, 3)} \cup
    {<<"/", "a", "/", "b", "/", "b">> \o Joined2(x) : x \in [1 .. 3 -> Segments]} \cup
    {<<"/", "a", "/", "b", "/", "a">> \o x \o <<"/", "b", "/", "a">> \o y \o <<"/", "b">> :
        x \in {<<"/", "a">>, <<"/", "<", ">">>}, y \in {<<"/", "a">>, <<"/", "<", ">">>, <<"/", "<">>}}
NestedRequests == {Req("GET", <<>>, p, FALSE) : p \in NestedPaths}

HA == Static(<<"/", "a">>)
DH == HostStatic(<<".", "h", ".">>)
NestedHosts ==
    {Host("+{x}.h.+{y:r}/a", <<W, DH, WR, HA>>, 3),
     Host("+{x}.h.+{y:r}.h/b", <<W, DH, WR, HostStatic(<<".", "h">>), SB>>, 4),
     Host("+{x}.h.{p}.+{y:r}/b", <<W, DH, P, HostStatic(<<".">>), WR, SB>>, 5),
     Host("+{x}.h.+{y:r}/+{w}/b/+{v:r}/b", <<W, DH, WR, S, W, BS, WR, SB>>, 3),
     Host("+{x}.h.+{y:r}.h/+{w:r}", <<W, DH, WR, HostStatic(<<".", "h">>), S, WR>>, 4),
     Host("+{x}/+{w}/b", <<W, S, W, SB>>, 1),
     Relaxed("/+{w}", <<S, W>>)}

NestedHostRequests ==
    {Req("GET", h, p, FALSE) :
        h \in {<<"a", ".", "h", ".", "a", ".", "h", ".", "a">>,
               <<"a", ".", "h", ".", "a", ".", "h", ".", "h">>,
               <<"b", ".", "h", ".", "a", ".", "a">>, <<"b", ".", "h", ".", "b", ".", "H", ".", "a", ".", "h">>,
               <<"a", ".", "h", ".", "h", ".", "a", ".", "b">>},
        p \in {<<"/", "a">>, <<"/", "b">>, <<"/", "a", "/", "b", "/", "a", "/", "b", "/", "a", "/", "b">>,
               <<"/", "a", "/", "b", "/", "b", "/", "b", "/", "b", "/", "b">>}}

MCScenarios ==
    {[lists |-> PathLists, reqs |-> PathRequests],
     [lists |-> HostLists, reqs |-> HostRequests],
     [lists |-> AllLists(NestedRoutes, 2), reqs |-> NestedRequests],
     [lists |-> AllLists(NestedHosts, 3), reqs |-> NestedHostRequests]}

GluedScenarios == {[lists |-> GluedLists, reqs |-> PathRequests]}

MCRoutes == PathRoutes \cup HostRoutes \cup NestedRoutes \cup NestedHosts
=============================================================================
