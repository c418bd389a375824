---------------------------- MODULE PatternReads ----------------------------
(***************************************************************************)
(* What others rely on once PatternParser has accepted a pattern: the tree  *)
(* that files its tokens, searchPattern that reads the same text again, and *)
(* the requests whose paths were normalised before they are looked up.      *)
(***************************************************************************)
EXTENDS PatternParser

-----------------------------------------------------------------------------
(* The pattern read by Txn.Route *)

\* canonicalKey of a token.
CanonicalKey(tk) ==
    IF tk.regexp # <<>> THEN tk.regexp ELSE IF tk.typ = "param" THEN <<"?">> ELSE <<"*">>

\* The key behind the colon, if any; the segment ends at offset end.
SegmentKey(s, end, colon) ==
    CASE end <= 0 \/ colon = 0 -> <<>>
      [] end > 0 /\ colon = -1 -> IF s[1] = "{" THEN <<"?">> ELSE <<"*">>
      [] OTHER -> Cut(s, colon + 1, end)

\* parseBraceSegment: [end, key], with no key for a text that is static.
ParseBraceSegment(s) ==
    LET end == BraceIndex(s, 0)
        key == IF s[1] # "{" /\ At(s, 1) # "{" THEN <<>>
               ELSE SegmentKey(s, end, IndexByte(Cut(s, 0, end), ":"))
    IN  [end |-> end, key |-> key]

\* The edges searchPattern follows: static bytes, and the keys of braces.
RECURSIVE SearchEdges(_)
SearchEdges(s) ==
    IF s = <<>> THEN <<>>
    ELSE LET seg  == IF s[1] \in {"{", "*", "+"} THEN ParseBraceSegment(s) ELSE [end |-> 0, key |-> <<>>]
             kind == IF s[1] = "{" THEN "param" ELSE "wildcard"
         IN  IF seg.key = <<>> THEN <<<<"static", <<s[1]>>>>>> \o SearchEdges(Tail(s))
             ELSE <<<<kind, seg.key>>>> \o SearchEdges(Cut(s, seg.end + 1, Len(s)))

TokenEdges(tk) ==
    IF tk.typ # "static" THEN <<<<tk.typ, CanonicalKey(tk)>>>>
    ELSE [k \in DOMAIN tk.value |-> <<"static", <<tk.value[k]>>>>]

-----------------------------------------------------------------------------
(* The path of a request *)

UpperHexDigits == <<"0", "1", "2", "3", "4", "5", "6", "7", "8", "9", "A", "B", "C", "D", "E", "F">>

Escaped(b) == <<"%", UpperHexDigits[b \div 16 + 1], UpperHexDigits[(b % 16) + 1]>>

IsEscape(s, k) == k + 2 <= Len(s) /\ IsHexDigit(s[k + 1]) /\ IsHexDigit(s[k + 2])

\* What the byte at position k of an escaped path becomes.
NormalByte(s, k) ==
    LET b == DecodeHexPair(s[k + 1], s[k + 2]) IN
    CASE s[k] = "%" -> IF IsUnreserved(b) THEN <<Chr(b)>> ELSE Escaped(b)
      [] s[k] # "%" /\ \E j \in {k - 2, k - 1} \cap DOMAIN s : s[j] = "%" -> <<>>
      [] OTHER -> IF IsRoutableRaw(s[k]) THEN <<s[k]>> ELSE Escaped(Byte[s[k]])

\* stringsutil.NormalizeRawPath, of a path that encodes what it was decoded to.
NormalizeRawPath(s) ==
    IF \E k \in DOMAIN s : s[k] = "%" /\ ~IsEscape(s, k) THEN <<>>
    ELSE FlattenSeq([k \in DOMAIN s |-> NormalByte(s, k)])

\* The path a lookup gets to see when s is asked for.
RoutingPath(s) == Normalized(fox.mergeSlash, "normalize", NormalizeRawPath(s)).path

-----------------------------------------------------------------------------
(* Properties *)

Written(k) ==
    LET tk == tokens[k] IN
    IF ~IsBrace(k) THEN tk.value
    ELSE (CASE tk.typ = "param" -> <<>>
            [] tk.typ = "wildcard" -> IF optCatchAll /\ k = Len(tokens) THEN <<"*">> ELSE <<"+">>)
         \o <<"{">> \o tk.value \o (IF tk.regexp = <<>> THEN <<>> ELSE <<":">> \o tk.regexp) \o <<"}">>

\* The tokens are the text, part by part, and a search reads the same edges in it.
TokensAreText ==
    /\ FlattenSeq([k \in 1 .. HostTokens |-> Written(k)]) = Hostname
    /\ FlattenSeq([k \in DOMAIN tokens |-> Written(k)]) = raw
    /\ FlattenSeq([k \in DOMAIN tokens |-> TokenEdges(tokens[k])]) = SearchEdges(raw)

\* The labels of the hostname, with one byte for a brace.
HostText  == FlattenSeq([k \in 1 .. HostTokens |-> IF IsBrace(k) THEN <<"{">> ELSE tokens[k].value])
HostPath  == [k \in DOMAIN HostText |-> IF HostText[k] = Dot THEN Slash ELSE HostText[k]]
Labels    == {ElementAt(HostPath, k) : k \in Starts(HostPath)}
Literals(s) == Cardinality({k \in DOMAIN s : s[k] # "{"})

HostIsName ==
    HostText # <<>> =>
       /\ \A l \in Labels : l # <<>> /\ l[1] # "-" /\ Last(l) # "-" /\ Literals(l) <= MaxLabel
       /\ Literals(HostText) <= MaxHost
       /\ \E l \in Labels : \E k \in DOMAIN l : ~IsDigit(l[k])

(* parsePattern hands over tokens that mean what was written: they spell the  *)
(* pattern, searchPattern finds in its text the edges the tree files them     *)
(* under, and lookups may count on delimiters behind braces, on room between  *)
(* two wildcards and on the mark of a nested one.                             *)
TokensFit ==
    TokensInShape /\ (Accepted => TokensAreText /\ HostIsName)

Unroutable == {"truncated", "not hex", "unreserved", "lowercase", "control", "unbalanced",
               "illegal delimiter", "needs escape", "double slash", "dot segment"}

\* A path of the pattern, with one byte for a brace.
SamplePath == FlattenSeq([k \in 1 .. Len(tokens) - HostTokens |->
                             IF IsBrace(HostTokens + k) THEN <<"a">> ELSE tokens[HostTokens + k].value])

(* A pattern is refused for its bytes exactly when no request could match it: *)
(* the paths of an accepted pattern pass NormalizeRawPath, MergeSlashes and   *)
(* CollapseDotSegments as they are, and the text an error points at would not.*)
PathReaches ==
    /\ Accepted => RoutingPath(SamplePath) = SamplePath
    /\ err.hint \in Unroutable /\ err.start >= EndHost =>
          LET s == <<Slash, "a">> \o Cut(raw, err.start, err.end) IN RoutingPath(s) # s
=============================================================================
