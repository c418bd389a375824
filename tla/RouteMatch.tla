----------------------------- MODULE RouteMatch -----------------------------
(***************************************************************************)
(* Which routes match a request and which match is preferred, said on the   *)
(* parsed patterns alone, without a tree: the reference that the lookup of  *)
(* module RouteLookup is compared with.                                     *)
(*                                                                          *)
(* Besides the fields of RouteTable a route has slash, its trailing-slash   *)
(* option ("exact", or "relaxed", which stands for RedirectSlash too), and  *)
(* its pattern has hostLen, the number of tokens of the hostname.           *)
(* A request is [method, host, path, satisfied, lazy], where satisfied is   *)
(* the set of matchers it satisfies.                                        *)
(***************************************************************************)
EXTENDS RouteTable, SequencesExt

CONSTANT Accepts(_, _)    \* Accepts(e, s): the expression e matches the string s

Dot == "."
Lower(c) == IF c = "H" THEN "h" ELSE c    \* ToLowerASCII on the letters in use

\* Hostnames are compared without regard to case.
Folded(s, delim) == IF delim = Dot THEN [i \in DOMAIN s |-> Lower(s[i])] ELSE s

AcceptedBy(tk, s) == tk.regexp = NoRegexp \/ Accepts(tk.regexp, s)

CatchAll(r) == Last(r.pattern.tokens).typ = "wildcard"

\* Route.match.  Matchers see the request only, so asking one again gives the
\* same answer: the memo of failed matchers is left out.
RouteAccepts(r, q) == /\ r.methods = {} \/ q.method \in r.methods
                      /\ r.matchers \subseteq q.satisfied

-----------------------------------------------------------------------------
(* Matches.  A trace says how each token was matched, so that traces are    *)
(* compared element by element: <<kind, 1 if without expression, length>>.  *)

StaticStep == <<0, 0, 0>>
SlashStep  == <<4, 0, 0>>     \* a trailing slash added or dropped
NoHostStep == <<9, 0, 0>>

BraceStep(tk, last, k) ==
    <<IF tk.typ = "param" THEN 1 ELSE IF last THEN 3 ELSE 2,
      IF tk.regexp = NoRegexp THEN 1 ELSE 0,
      IF tk.typ = "wildcard" /\ ~last THEN k ELSE 0>>

\* How many characters of s a param or wildcard may take.
Lengths(tk, s, delim) ==
    {k \in 1 .. Len(s) : /\ AcceptedBy(tk, SubSeq(s, 1, k))
                         /\ tk.typ = "param" => \A i \in 1 .. k : s[i] # delim}

\* How the token tk matches behind position j, and the tokens after it as next says
\* for each position.
MatchesBehind(tk, last, s, delim, j, next) ==
    LET rest == SubSeq(s, j + 1, Len(s))
    IN  IF tk.typ = "static" THEN
            IF ~IsPrefix(tk.value, Folded(rest, delim)) THEN {}
            ELSE {[m EXCEPT !.trace = [n \in DOMAIN tk.value |-> StaticStep] \o @] :
                     m \in next[j + Len(tk.value)]}
        ELSE UNION {{[caps  |-> <<SubSeq(rest, 1, k)>> \o m.caps,
                      trace |-> <<BraceStep(tk, last, k)>> \o m.trace] :
                        m \in next[j + k]} :
                    k \in Lengths(tk, rest, delim)}

\* From[i][j]: how the tokens behind the i-th match what follows position j.
TokenMatches(tokens, s, delim) ==
    LET From[i \in 0 .. Len(tokens)] ==
            [j \in 0 .. Len(s) |->
                IF i < Len(tokens)
                THEN MatchesBehind(tokens[i + 1], i + 1 = Len(tokens), s, delim, j, From[i + 1])
                ELSE IF j = Len(s) THEN {[caps |-> <<>>, trace |-> <<>>]} ELSE {}]
    IN  From[0][0]

\* An optional catch-all also matches the empty string.
PathMatches(p, s) ==
    LET tokens == SubSeq(p.tokens, p.hostLen + 1, Len(p.tokens))
        empty  == IF ~p.optionalCatchAll THEN {} ELSE TokenMatches(Front(tokens), s, "/")
    IN  TokenMatches(tokens, s, "/") \cup
        {[caps |-> Append(m.caps, <<>>), trace |-> Append(m.trace, BraceStep(Last(tokens), TRUE, 0))] :
            m \in empty}

\* A hostname with a slash is no hostname.
HostMatches(p, s) ==
    IF p.hostLen = 0 THEN {[caps |-> <<>>, trace |-> <<NoHostStep>>]}
    ELSE IF "/" \in ToSet(s) THEN {}
    ELSE TokenMatches(SubSeq(p.tokens, 1, p.hostLen), s, Dot)

EndsWith(s, t) == IsSuffix(t, s)

\* The path with its trailing slash added, or with it removed; the root has none.
AddSlash(path)  == IF path = <<>> \/ Last(path) = "/" THEN {} ELSE {Append(path, "/")}
DropSlash(path) == IF Len(path) > 1 /\ Last(path) = "/" /\ ~EndsWith(path, <<"/", "/">>)
                   THEN {Front(path)} ELSE {}

\* The slash that is added is a slash of the pattern, captured by nothing.
SlashAdded(r, path) ==
    {[m EXCEPT !.trace = [@ EXCEPT ![IF CatchAll(r) THEN Len(@) - 1 ELSE Len(@)] = SlashStep]] :
        m \in {x \in UNION {PathMatches(r.pattern, s) : s \in AddSlash(path)} :
                  CatchAll(r) => Last(x.caps) = <<>>}}

SlashDropped(r, path) ==
    {[m EXCEPT !.trace = Append(@, SlashStep)] :
        m \in IF CatchAll(r) THEN {} ELSE UNION {PathMatches(r.pattern, s) : s \in DropSlash(path)}}

\* All the ways routes match a request.
Joined(r, tsr, h, p) ==
    [route |-> r, tsr |-> tsr, caps |-> h.caps \o p.caps, trace |-> h.trace \o p.trace]

MatchesOf(r, q) ==
    UNION {{Joined(r, FALSE, h, p) : p \in PathMatches(r.pattern, q.path)} \cup
           {Joined(r, TRUE, h, p) : p \in IF r.slash = "exact" THEN {}
                                          ELSE SlashAdded(r, q.path) \cup SlashDropped(r, q.path)} :
           h \in HostMatches(r.pattern, q.host)}

AllMatches(routes, q) == UNION {MatchesOf(r, q) : r \in {x \in routes : RouteAccepts(x, q)}}

-----------------------------------------------------------------------------
(* Preference: hostname routes first, then step by step: static, param with *)
(* an expression, param, infix wildcard with an expression, infix wildcard  *)
(* (the shorter capture first), catch-all with an expression, catch-all.    *)

StepLess(a, b) == \E i \in 1 .. 3 : a[i] < b[i] /\ \A j \in 1 .. i - 1 : a[j] = b[j]

TraceLess(s, t) ==
    \/ s # t /\ IsPrefix(s, t)
    \/ \E i \in DOMAIN s \cap DOMAIN t :
          StepLess(s[i], t[i]) /\ \A j \in 1 .. i - 1 : s[j] = t[j]

Least(ms) == {m \in ms : \A x \in ms : ~TraceLess(x.trace, m.trace)}

\* The one exception: /+{x} serves a path before /+{x}/ with a slash added.
Overrides(m, t) ==
    LET n == Len(t.trace) - 2
    IN  /\ t.tsr /\ ~m.tsr
        /\ Last(t.trace) = SlashStep /\ n >= 0 /\ t.trace[n + 1][1] = 2
        /\ Len(m.trace) = n + 1 /\ Last(m.trace)[1] = 3
        /\ SubSeq(m.trace, 1, n) = SubSeq(t.trace, 1, n)

Preferred(ms) ==
    LET over == {m \in ms : \E t \in Least(ms) : Overrides(m, t)}
    IN  IF over = {} THEN Least(ms) ELSE Least(over)
=============================================================================
