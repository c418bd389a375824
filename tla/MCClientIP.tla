----------------------------- MODULE MCClientIP -----------------------------
(* A small instance of ClientIP for TLC. *)
EXTENDS ClientIP

\* c and d are clients', d with a zone; q is a proxy's, the mapped form of p; b is
\* nobody's, o the unspecified address.
MCAddresses ==
    LET addr(ip, zone) == [ip |-> ip, zone |-> zone]
    IN  [a \in {"c", "d", "b", "o", "p", "q"} |->
            CASE a = "d" -> addr("d", "z") [] a = "q" -> addr("p", "") [] OTHER -> addr(a, "")]

Pieces == {<<Comma>>, <<Quote>>, <<Escape>>, <<"for", Equals, "b">>}
Texts  == {FlattenSeq(s) : s \in UNION {[1 .. k -> Pieces] : k \in 1 .. 2}}

MCHeaders ==
    {[key |-> k, values |-> <<>>] : k \in {"xff", "forwarded", "single"}} \cup
    {[key |-> "forwarded", values |-> <<t>>] : t \in Texts \cup {<<Quote>> \o u : u \in Texts}} \cup
    {[key |-> k, values |-> <<<<"b">>>>] : k \in {"xff", "single"}} \cup
    {[key |-> "xff", values |-> <<<<"b", Comma, "o", Comma>>>>]}

\* The address with and without brackets and a port.
Plain(a)  == <<a>>
Ported(a) == IF a \in IPv6 THEN <<"[", a, "]", Colon, "port">> ELSE <<a, Colon, "port">>
For(a) == <<"for", Equals>> \o a
Host(text) == <<"host", Equals, Quote>> \o text \o <<Quote>>

\* What a quoted string may hold: an escaped quote, both separators, a parameter of
\* the name looked for, and an escaped backslash before the quote that ends it.
Quoted == <<Escape, Quote, Comma, Semicolon, "for", Equals, "b", Escape, Escape>>

MCWritten(key, a) ==
    IF key # "forwarded" THEN {Plain(a), Ported(a)}
    ELSE IF a = Unknown THEN {For(Plain(a))}
    ELSE {For(Plain(a)), <<"For", Equals, Quote>> \o Ported(a) \o <<Quote>>,
          For(Plain(a)) \o <<Semicolon>> \o Host(Quoted),
          <<"by", Equals, "x", Semicolon, Space, "proto", Equals, "x", Semicolon>> \o Host(Quoted) \o
             <<Semicolon>> \o For(Plain(a))}

R(kind, n) == [kind |-> kind, n |-> n, guarded |-> FALSE]
Count(n) == R("rightmostTrustedCount", n)
Remote   == R("remoteAddr", 0)
Behind(e) == <<[e EXCEPT !.guarded = TRUE], Remote>>

MCResolvers ==
    {<<e>> : e \in {Remote, Count(1), Count(2), R("rightmostNonPrivate", 0),
                    R("rightmostTrustedRange", 0), R("leftmostNonPrivate", 2)}} \cup
    {Behind(e) : e \in {Count(1), Count(2), R("single", 0)}}
=============================================================================
