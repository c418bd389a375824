------------------------------- MODULE AddrList -------------------------------
(***************************************************************************)
(* The addresses of an X-Forwarded-For or Forwarded header (clientip.go):   *)
(* the list read forwards and backwards, its items and their parameters.    *)
(*                                                                          *)
(* A text is a sequence of symbols: the characters the code looks at stand  *)
(* for themselves, a name or an address is one symbol.  The text of an IPv6 *)
(* address has colons in it.  Positions count from 1, and 0 is none.        *)
(***************************************************************************)
EXTENDS Integers, Sequences, FiniteSetsExt, SequencesExt

CONSTANTS Addresses,     \* the texts netip.ParseAddr accepts, with the address
                         \* [ip, zone] each one has once it is unmapped
          Unspecified,   \* the ips that no client has
          IPv6           \* the texts with colons

ASSUME AddressesAssumption == IPv6 \subseteq DOMAIN Addresses

Quote  == "quote"
Escape == "backslash"
Comma  == ","
Semicolon == ";"
Equals == "="
Space  == " "
Colon  == ":"

Invalid == [ip |-> "", zone |-> ""]     \* the zero netip.Addr

FirstIn(indices) == IF indices = {} THEN 0 ELSE Min(indices)
LastIn(indices)  == IF indices = {} THEN 0 ELSE Max(indices)
IndexOf(s, c)    == FirstIn({i \in DOMAIN s : s[i] = c})

TrimSpace(s) ==
    LET text == {i \in DOMAIN s : s[i] # Space}
    IN  IF text = {} THEN <<>> ELSE SubSeq(s, Min(text), Max(text))

TrimMatchedEnds(s, first, last) ==
    IF Len(s) < 2 \/ s[1] # first \/ s[Len(s)] # last THEN s ELSE SubSeq(s, 2, Len(s) - 1)

-----------------------------------------------------------------------------
(* Addresses *)

\* netutil.SplitHostPort: the host, or the whole text if it has no port.
HostOf(s) ==
    LET colons == {i \in DOMAIN s : s[i] = Colon \/ s[i] \in IPv6}
        i      == Max(colons)
        host   == IF s[1] = "[" THEN SubSeq(s, 2, i - 2) ELSE SubSeq(s, 1, i - 1)
        splits == /\ s[i] = Colon
                  /\ IF s[1] = "[" THEN IndexOf(s, "]") = i - 1
                     ELSE colons = {i} /\ "]" \notin ToSet(s)
                  /\ \A k \in DOMAIN s : s[k] = "[" => k = 1
                  /\ \A k \in i .. Len(s) : s[k] # "]"
    IN  IF colons = {} THEN s ELSE IF splits THEN host ELSE s

\* ParseAddr; an error is the zero address.
ParseAddr(s) ==
    LET ip == TrimMatchedEnds(HostOf(s), "[", "]")
    IN  IF /\ Len(ip) = 1 /\ ip[1] \in DOMAIN Addresses
           /\ Addresses[ip[1]].ip \notin Unspecified
        THEN Addresses[ip[1]] ELSE Invalid

\* isContainedInRanges: a range is the text of an address; zones and the mapped
\* form play no role.
IsContainedInRanges(a, ranges) == \E r \in ranges : Addresses[r].ip = a.ip

-----------------------------------------------------------------------------
(* Quoted strings *)

\* isEscaped: an odd number of backslashes precedes.
IsEscaped(s, i) ==
    Max({n \in 0 .. i - 1 : \A k \in i - n .. i - 1 : s[k] = Escape}) % 2 = 1

\* lastUnquoted, at the character i: a quote opens or, unless it is escaped, closes.
NextQuoted(s, i, quoted) ==
    IF s[i] = Quote /\ (quoted => ~IsEscaped(s, i)) THEN ~quoted ELSE quoted

\* Whether it is in a quoted string once the last n characters are read.
InQuotes(s) ==
    LET q[n \in 0 .. Len(s)] ==
            IF n = 0 THEN FALSE ELSE NextQuoted(s, Len(s) + 1 - n, q[n - 1])
    IN  q

\* Mutant of LastUnquoted: read from the front, where a client may have left a
\* quoted string open.
LastBehindQuotes(s, sep) ==
    LastIn({i \in DOMAIN s : s[i] = sep /\
              Cardinality({k \in 1 .. i - 1 : s[k] = Quote /\ ~IsEscaped(s, k)}) % 2 = 0})

LastUnquoted(s, sep) == LastIn({i \in DOMAIN s : s[i] = sep /\ ~InQuotes(s)[Len(s) - i]})

\* indexUnquoted: from[start, i] is its answer when i is the candidate and no quoted
\* string ends after start.
IndexUnquoted(s, sep) ==
    LET from[start \in 1 .. Len(s) + 1, i \in 0 .. Len(s)] ==
            LET open   == {k \in start .. i - 1 : s[k] = Quote}
                closes == {k \in Min(open) + 1 .. Len(s) : s[k] = Quote /\ ~IsEscaped(s, k)}
                c      == Min(closes)
                later  == {k \in c + 1 .. Len(s) : s[k] = sep}
            IN  IF i = 0 \/ open = {} THEN i
                ELSE IF closes = {} THEN 0
                ELSE from[c + 1, IF i > c THEN i ELSE FirstIn(later)]
    IN  from[1, IndexOf(s, sep)]

-----------------------------------------------------------------------------
(* The items of a list *)

MaxPairs == 4

\* strings.EqualFold with "for".
IsFor(key) == key \in {<<"for">>, <<"For">>}

\* The value of the first "for" among the pairs of an item.
ForPart(fwd) ==
    LET part[n \in 0 .. MaxPairs, start \in 1 .. Len(fwd) + 1] ==
            LET rest == SubSeq(fwd, start, Len(fwd))
                sep  == IndexUnquoted(rest, Semicolon)
                pair == TrimSpace(IF sep = 0 THEN rest ELSE SubSeq(rest, 1, sep - 1))
                eq   == IndexOf(pair, Equals)
            IN  IF n = 0 THEN <<>>
                ELSE IF eq # 0 /\ IsFor(SubSeq(pair, 1, eq - 1)) THEN SubSeq(pair, eq + 1, Len(pair))
                ELSE IF sep = 0 THEN <<>>
                ELSE part[n - 1, start + sep]
    IN  part[MaxPairs, 1]

ParseForwardedListItem(fwd) ==
    ParseAddr(TrimMatchedEnds(TrimSpace(ForPart(fwd)), Quote, Quote))

Item(s, key) == IF key = "forwarded" THEN ParseForwardedListItem(TrimSpace(s))
                ELSE ParseAddr(TrimSpace(s))

\* Which commas separate items: read backwards, those in quoted strings of a
\* Forwarded header do not.
LastSeparator(s, key, quotes) ==
    IF quotes /\ key = "forwarded" THEN LastUnquoted(s, Comma)
    ELSE LastIn({i \in DOMAIN s : s[i] = Comma})

\* The items of the first k characters of a value, last first.
ItemsUpTo(s, key, quotes) ==
    LET items[k \in 0 .. Len(s)] ==
            LET text == SubSeq(s, 1, k)
                sep  == LastSeparator(text, key, quotes)
                item == Item(SubSeq(text, sep + 1, k), key)
            IN  <<item>> \o (IF sep = 0 THEN <<>> ELSE items[sep - 1])
    IN  items

BackwardItems(s, key, quotes) == ItemsUpTo(s, key, quotes)[Len(s)]

\* The items of the first k values of a header, last first.
ListUpTo(values, key, quotes) ==
    LET list[k \in 0 .. Len(values)] ==
            IF k = 0 THEN <<>> ELSE BackwardItems(values[k], key, quotes) \o list[k - 1]
    IN  list

BackwardList(values, key, quotes) == ListUpTo(values, key, quotes)[Len(values)]

\* backwardAddrSeq and addrSeq: a split at every comma is the same from either end.
BackwardAddrSeq(values, key) == BackwardList(values, key, TRUE)
AddrSeq(values, key) == Reverse(BackwardList(values, key, FALSE))
=============================================================================
