--------------------------- MODULE MCPatternParser ---------------------------
(* A small instance of PatternParser for TLC. *)
EXTENDS PatternReads

A(kind) == kind \o <<"{", "a", "}">>

HostPieces == {<<"a">>, <<"1">>, <<"-">>, <<".">>, <<"A">>, A(<<>>), A(<<"+">>), <<"{", "b", ":", "a", "}">>}

OddHosts == {<<"+">>, <<"*">>, A(<<"*">>), <<"{">>, A(<<>>) \o <<"a">>, <<"{", ".", "}">>,
             A(<<"+">>) \o <<".">> \o A(<<"+">>), A(<<"+">>) \o <<".", "a", ".">> \o A(<<"+">>)}

PathPieces == {<<"/">>, <<"a">>, <<".">>, <<"+">>, A(<<>>), A(<<"+">>), A(<<"*">>), <<"{", "b", ":", "a", "{", "2", "}", "}">>}

OddPaths == {<<"%", "2", "F">>, <<"%", "2", "f">>, <<"%", "4", "1">>, <<"%", "2">>, <<"%", "2", "-">>,
             <<"*">>, <<"}">>, <<"{">>, <<"?">>, <<"#">>, <<"tab">>, <<"cont">>, <<"lead", "cont">>,
             <<"{", "}">>, <<"{", ":", "a", "}">>, <<"{", "a", ":", "}">>, <<"{", "a", "+", "}">>,
             <<"{", "a", "tab", "}">>, <<"{", "a", ":", "tab", "}">>, <<"{", "a", "a", "a", "}">>,
             <<"{", "a", ":", "b", "}">>, <<"{", "a", ":", "a", ":", "a", "}">>,
             <<"*", "{", "a", ":", "a", "}">>}

MCRefused == {<<"b">>}

MCRouters == {[allowRegexp |-> TRUE, mergeSlash |-> "redirect"],
              [allowRegexp |-> FALSE, mergeSlash |-> "exact"]}

Words(pieces, n) == {FlattenSeq(s) : s \in UNION {[1 .. k -> pieces] : k \in 0 .. n}}

MCRaws ==
    LET hosts == Words(HostPieces, 4) \cup {h \o o : h \in Words(HostPieces, 1), o \in OddHosts}
        paths == Words(PathPieces, 5) \cup
                 {p \o o \o q : p \in Words(PathPieces, 1), q \in Words(PathPieces, 1), o \in OddPaths}
    IN  hosts \cup
        {<<"/">> \o p : p \in paths} \cup
        {h \o <<"/">> : h \in hosts} \cup
        {h \o <<"/">> \o p : h \in {<<"a">>, A(<<"+">>)}, p \in Words(PathPieces, 3) \cup OddPaths}
=============================================================================
