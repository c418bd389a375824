---------------------------- MODULE PatternParser ----------------------------
(***************************************************************************)
(* How a registered pattern becomes tokens (parser.go): the hostname, then  *)
(* the path, each read once from left to right.  An action is one turn of   *)
(* a loop, or what stands before and behind the loops.                      *)
(*                                                                          *)
(* A text is a sequence of bytes, each written as its character; offsets    *)
(* count from 0, as in the code.  Of an error the reason, the span and a    *)
(* short hint are kept.                                                     *)
(***************************************************************************)
EXTENDS PathRef, TLC

CONSTANTS Raws,              \* the patterns to register
          MaxParams,         \* fox.maxParams
          MaxParamKeyBytes,  \* fox.maxParamKeyBytes
          MaxLabel,          \* static bytes of a label, 63 in the code
          MaxHost,           \* static bytes of a hostname, 253 in the code
          Routers,           \* the options of a router: allowRegexp and mergeSlash
          Refused            \* the expressions compileParamRegexp refuses: not an
                             \* expression, too large, or with a capture group

ASSUME LimitsAssumption == {MaxParams, MaxParamKeyBytes, MaxLabel, MaxHost} \subseteq Nat
ASSUME RoutersAssumption == Routers \subseteq [allowRegexp : BOOLEAN, mergeSlash : PathOptions]

VARIABLES fox,          \* the router
          raw,          \* the pattern
          phase,        \* "start", "host", "path", "done"
          i,            \* offset in the part being read
          sb,           \* the static text not yet in a token
          tokens,
          wild,         \* prevWild, sawWild and staticSinceWild of this part
          label,        \* partLen, totalLen, labelStart, last and nonNumeric
          paramCount,
          optCatchAll,
          err

vars == <<fox, raw, phase, i, sb, tokens, wild, label, paramCount, optCatchAll, err>>

-----------------------------------------------------------------------------
(* Bytes *)

\* The bytes of the instances; two of them are one rune.
Byte ==
    ("/" :> 47) @@ ("." :> 46) @@ ("-" :> 45) @@ ("+" :> 43) @@ ("*" :> 42) @@ (":" :> 58) @@
    ("{" :> 123) @@ ("}" :> 125) @@ ("%" :> 37) @@ ("?" :> 63) @@ ("#" :> 35) @@ ("_" :> 95) @@
    ("1" :> 49) @@ ("2" :> 50) @@ ("4" :> 52) @@ ("a" :> 97) @@ ("b" :> 98) @@ ("f" :> 102) @@
    ("A" :> 65) @@ ("F" :> 70) @@ ("tab" :> 9) @@ ("lead" :> 195) @@ ("cont" :> 169)

ASSUME RawsAssumption == Raws \subseteq Seq(DOMAIN Byte)

Chr(b) == CHOOSE c \in DOMAIN Byte : Byte[c] = b

IsASCIIControl(c) == Byte[c] < 32 \/ Byte[c] = 127

IsDigit(c) == Byte[c] \in 48 .. 57
IsLower(c) == Byte[c] \in 97 .. 122

\* stringsutil.IsUnreserved, of a byte's value.
IsUnreserved(b) == b \in (48 .. 57) \cup (65 .. 90) \cup (97 .. 122) \cup {45, 46, 95, 126}

\* stringsutil.IsRoutableRaw
IsRoutableRaw(c) == IsUnreserved(Byte[c]) \/ c \in {"/", "+", ":", "*"}

IsHexDigit(c) == Byte[c] \in (48 .. 57) \cup (65 .. 70) \cup (97 .. 102)
HexDigit(c)   == IF IsDigit(c) THEN Byte[c] - 48 ELSE (Byte[c] % 32) + 9
UpperHex(c)   == IF Byte[c] \in 97 .. 102 THEN Chr(Byte[c] - 32) ELSE c

DecodeHexPair(hi, lo) == 16 * HexDigit(hi) + HexDigit(lo)

\* The size of the first rune; a byte that starts none counts as one.
RuneSize(s) == IF Len(s) > 1 /\ s[1] = "lead" /\ s[2] = "cont" THEN 2 ELSE 1

-----------------------------------------------------------------------------
(* Texts *)

Cut(s, from, to) == SubSeq(s, from + 1, to)
At(s, k)         == IF k < Len(s) THEN s[k + 1] ELSE "end"

\* The offset of the first of a set of positions, or -1.
Offset(positions) == IF positions = {} THEN -1 ELSE Min(positions) - 1

IndexByte(s, c) == Offset({k \in DOMAIN s : s[k] = c})

Count(s, k, c) == Cardinality({j \in 1 .. k : s[j] = c})

\* The offset of the brace that balances startLevel open ones, or -1.
BraceIndex(s, startLevel) ==
    Offset({k \in DOMAIN s : s[k] = "}" /\ startLevel + Count(s, k, "{") = Count(s, k, "}")})

-----------------------------------------------------------------------------
(* Errors and tokens *)

PatternError(reason, start, end, hint) ==
    [reason |-> reason, start |-> start, end |-> end, hint |-> hint]

None == PatternError("", 0, 0, "")

Shift(e, n) == IF e = None THEN e ELSE [e EXCEPT !.start = @ + n, !.end = @ + n]

Static(text, host) == [typ |-> "static", value |-> text, regexp |-> <<>>, nested |-> FALSE, hsplit |-> host]
Brace(kind, name, expr, nested) ==
    [typ |-> kind, value |-> name, regexp |-> expr, nested |-> nested, hsplit |-> FALSE]

\* The tokens with the pending static text behind them.
Flushed(host) == IF sb = <<>> THEN tokens ELSE Append(tokens, Static(sb, host))

\* compileParamRegexp, offsets relative to the expression.
CompileFault(expr) ==
    IF ~fox.allowRegexp THEN PatternError("regexp", 0, Len(expr), "not enabled")
    ELSE IF expr = <<>> THEN PatternError("regexp", 0, 0, "missing expression")
    ELSE IF expr \in Refused THEN PatternError("regexp", 0, Len(expr), "refused")
    ELSE None

NameFault(name, consumed, delim) ==
    LET ctl == Offset({k \in DOMAIN name : IsASCIIControl(name[k])})
        bad == Offset({k \in DOMAIN name : name[k] \in {delim, "/", "*", "+", "{"}})
        at  == IF ctl = -1 \/ (bad # -1 /\ bad < ctl) THEN bad ELSE ctl
    IN  IF Len(name) > MaxParamKeyBytes THEN PatternError("constraint", 1, 1 + Len(name), "key too large")
        ELSE IF name = <<>> THEN PatternError("parameter", 0, consumed, "missing name")
        ELSE IF at # -1 THEN PatternError("parameter", 1 + at, 2 + at, "illegal in name")
        ELSE None

ExprFault(expr, consumed, isOptional, off) ==
    LET ctl == Offset({k \in DOMAIN expr : IsASCIIControl(expr[k])})
    IN  IF isOptional THEN PatternError("regexp", 0, consumed, "optional")
        ELSE IF ctl # -1 THEN PatternError("regexp", off + ctl, off + ctl + 1, "control")
        ELSE Shift(CompileFault(expr), off)

Parsed(name, expr, n, e) == [name |-> name, regexp |-> expr, n |-> n, err |-> e]

\* What stands between the braces: a name, and behind a colon an expression.
ParseContent(content, colon, delim, isOptional) ==
    LET consumed == Len(content) + 2
        name     == IF colon = -1 THEN content ELSE Cut(content, 0, colon)
        expr     == IF colon = -1 THEN <<>> ELSE Cut(content, colon + 1, Len(content))
        fault    == NameFault(name, consumed, delim)
    IN  Parsed(name, expr, consumed,
               IF fault # None \/ colon = -1 THEN fault
               ELSE ExprFault(expr, consumed, isOptional, colon + 2))

\* parseBrace: s starts with the brace, offsets are relative to it.
ParseBrace(s, delim, isOptional) ==
    LET idx     == BraceIndex(Tail(s), 1)
        content == Cut(s, 1, 1 + idx)
    IN  IF idx = -1 THEN Parsed(<<>>, <<>>, 0, PatternError("syntax", 0, Len(s), "unbalanced"))
        ELSE ParseContent(content, IndexByte(content, ":"), delim, isOptional)

\* Where the segment ends whose brace is at offset k.
SegmentEnd(s, k) ==
    LET idx == BraceIndex(Cut(s, k + 1, Len(s)), 1)
    IN  IF idx = -1 THEN Len(s) ELSE k + 1 + idx + 1

-----------------------------------------------------------------------------
(* The parts *)

EndHost  == IndexByte(raw, "/")
Hostname == Cut(raw, 0, EndHost)
Path     == Cut(raw, EndHost, Len(raw))

NoWild  == [prevWild |-> FALSE, sawWild |-> FALSE, staticSinceWild |-> 0]
NoLabel == [partLen |-> 0, totalLen |-> 0, labelStart |-> 0, last |-> ".", nonNumeric |-> FALSE]

Init ==
    /\ fox \in Routers
    /\ raw \in Raws
    /\ phase = "start"
    /\ i = 0 /\ sb = <<>> /\ tokens = <<>>
    /\ wild = NoWild /\ label = NoLabel
    /\ paramCount = 0 /\ optCatchAll = FALSE
    /\ err = None

Fail(e) ==
    /\ phase' = "done"
    /\ err' = e
    /\ UNCHANGED <<fox, raw, i, sb, tokens, wild, label, paramCount, optCatchAll>>

\* parsePattern moves the offsets of a path behind the hostname.
FailPath(e) == Fail(Shift(e, EndHost))

\* The pattern splits at its first slash.
SplitPattern ==
    /\ phase = "start"
    /\ IF EndHost = -1
       THEN Fail(PatternError(IF raw = <<>> THEN "empty" ELSE "syntax", Len(raw), Len(raw), "missing slash"))
       ELSE /\ phase' = IF EndHost > 0 THEN "host" ELSE "path"
            /\ UNCHANGED <<fox, raw, i, sb, tokens, wild, label, paramCount, optCatchAll, err>>

\* Static text of n bytes is taken.
Take(s, n) ==
    /\ sb' = sb \o Cut(s, i, i + n)
    /\ wild' = [wild EXCEPT !.staticSinceWild = @ + n]
    /\ i' = i + n

\* The segment whose brace is at offset k is taken, read as b.
TakeBrace(b, isWild, k, host) ==
    /\ tokens' = Append(Flushed(host), Brace(IF isWild THEN "wildcard" ELSE "param",
                                             b.name, b.regexp, isWild /\ wild.sawWild))
    /\ sb' = <<>>
    /\ wild' = [prevWild |-> isWild, sawWild |-> wild.sawWild \/ isWild,
                staticSinceWild |-> IF isWild THEN 0 ELSE wild.staticSinceWild]
    /\ paramCount' = paramCount + 1
    /\ i' = k + b.n

\* Mutant of Crowded: the byte between the two is enough.
CrowdedAlone(isWild) == isWild /\ wild.prevWild /\ wild.staticSinceWild = 0

\* A wildcard right behind another one: a delimiter alone does not part them.
Crowded(isWild) == isWild /\ wild.prevWild /\ wild.staticSinceWild <= 1

\* What is wrong with the segment from i on, its brace at k and read as b.
BraceFault(s, b, isWild, k) ==
    IF Crowded(isWild) THEN PatternError("syntax", i, SegmentEnd(s, k), "consecutive wildcard")
    ELSE IF b.err # None THEN Shift(b.err, k)
    ELSE IF paramCount + 1 > MaxParams THEN PatternError("constraint", i, k + b.n, "too many parameters")
    ELSE None

-----------------------------------------------------------------------------
(* parseHostname *)

HostBraceFault(b, isWild, k) ==
    LET fault == BraceFault(Hostname, b, isWild, k)
    IN  IF fault # None THEN fault
        ELSE IF At(Hostname, k + b.n) \notin {".", "end"}
        THEN PatternError("syntax", k + b.n, k + b.n + 1, "illegal after parameter")
        ELSE None

\* A parameter {name}, or an infix wildcard +{name}.
ReadHostBrace(isWild, k, b) ==
    IF HostBraceFault(b, isWild, k) # None THEN Fail(HostBraceFault(b, isWild, k))
    ELSE /\ TakeBrace(b, isWild, k, TRUE)
         /\ label' = [label EXCEPT !.last = "", !.nonNumeric = TRUE]
         /\ UNCHANGED <<fox, raw, phase, optCatchAll, err>>

HostBrace ==
    /\ phase = "host" /\ At(Hostname, i) = "{"
    /\ ReadHostBrace(FALSE, i, ParseBrace(Cut(Hostname, i, Len(Hostname)), ".", FALSE))

HostPlus ==
    /\ phase = "host" /\ At(Hostname, i) = "+"
    /\ IF At(Hostname, i + 1) # "{" THEN Fail(PatternError("syntax", i, i + 1, "missing parameter"))
       ELSE ReadHostBrace(TRUE, i + 1, ParseBrace(Cut(Hostname, i + 1, Len(Hostname)), ".", FALSE))

HostStar ==
    /\ phase = "host" /\ At(Hostname, i) = "*"
    /\ Fail(IF At(Hostname, i + 1) = "{"
            THEN PatternError("syntax", i, SegmentEnd(Hostname, i + 1), "optional only as suffix")
            ELSE PatternError("syntax", i, i + 1, "illegal in label"))

LabelFault(c) ==
    LET l == label IN
    CASE IsLower(c) \/ c = "_" \/ IsDigit(c) -> None
      [] c = "-" -> IF l.last = "." THEN PatternError("syntax", i, i + 1, "illegal -") ELSE None
      [] c = "." -> IF l.last = "." THEN PatternError("syntax", IF i = 0 THEN i ELSE i - 1, i + 1, "illegal .")
                    ELSE IF l.last = "-" THEN PatternError("syntax", i - 1, i, "ends with -")
                    ELSE IF l.partLen > MaxLabel THEN PatternError("constraint", l.labelStart, i, "label too long")
                    ELSE None
      [] OTHER -> PatternError("syntax", i, i + 1, "illegal in label")

HostByte ==
    /\ phase = "host" /\ At(Hostname, i) \notin {"{", "+", "*", "end"}
    /\ LET c == At(Hostname, i) IN
       IF LabelFault(c) # None THEN Fail(LabelFault(c))
       ELSE /\ Take(Hostname, 1)
            /\ label' = IF c = "."
                        THEN [label EXCEPT !.totalLen = @ + label.partLen + 1, !.partLen = 0,
                                           !.labelStart = i + 1, !.last = c]
                        ELSE [label EXCEPT !.partLen = @ + 1, !.last = c,
                                           !.nonNumeric = @ \/ ~IsDigit(c)]
            /\ UNCHANGED <<fox, raw, phase, tokens, paramCount, optCatchAll, err>>

HostFault ==
    LET n == Len(Hostname) IN
    IF label.last \in {"-", "."} THEN PatternError("syntax", n - 1, n, "illegal trailing")
    ELSE IF ~label.nonNumeric THEN PatternError("syntax", 0, n, "all numeric")
    ELSE IF label.partLen > MaxLabel THEN PatternError("constraint", label.labelStart, n, "label too long")
    ELSE IF label.totalLen + label.partLen > MaxHost THEN PatternError("constraint", 0, n, "host too long")
    ELSE None

HostEnd ==
    /\ phase = "host" /\ i = Len(Hostname)
    /\ IF HostFault # None THEN Fail(HostFault)
       ELSE /\ tokens' = Flushed(TRUE)
            /\ phase' = "path"
            /\ i' = 0 /\ sb' = <<>> /\ wild' = NoWild /\ label' = NoLabel
            /\ UNCHANGED <<fox, raw, paramCount, optCatchAll, err>>

-----------------------------------------------------------------------------
(* parsePath *)

\* An expression of an optional wildcard is shown with the star.
OptionalSpan(e, isOpt) == IF isOpt /\ e.reason = "regexp" THEN [e EXCEPT !.start = i] ELSE e

PathBraceFault(b, isWild, isOpt, k) ==
    LET fault == BraceFault(Path, b, isWild, k)
        next  == At(Path, k + b.n)
    IN  IF fault # None THEN OptionalSpan(fault, isOpt)
        ELSE IF isOpt /\ next # "end" THEN PatternError("syntax", i, k + b.n, "optional only as suffix")
        ELSE IF next \notin {"/", "end"} THEN PatternError("syntax", k + b.n, k + b.n + 1, "illegal after parameter")
        ELSE None

ReadPathBrace(isWild, isOpt, k, b) ==
    IF PathBraceFault(b, isWild, isOpt, k) # None THEN FailPath(PathBraceFault(b, isWild, isOpt, k))
    ELSE /\ TakeBrace(b, isWild, k, FALSE)
         /\ optCatchAll' = (optCatchAll \/ isOpt)
         /\ UNCHANGED <<fox, raw, phase, label, err>>

PathBrace ==
    /\ phase = "path" /\ At(Path, i) = "{"
    /\ ReadPathBrace(FALSE, FALSE, i, ParseBrace(Cut(Path, i, Len(Path)), "/", FALSE))

PathWildcard ==
    /\ phase = "path" /\ At(Path, i) \in {"+", "*"} /\ At(Path, i + 1) = "{"
    /\ LET isOpt == At(Path, i) = "*"
       IN  ReadPathBrace(TRUE, isOpt, i + 1, ParseBrace(Cut(Path, i + 1, Len(Path)), "/", isOpt))

\* Without a brace behind it, a plus or a star is a literal.
PathLiteralWild ==
    /\ phase = "path" /\ At(Path, i) \in {"+", "*"} /\ At(Path, i + 1) # "{"
    /\ Take(Path, 1)
    /\ UNCHANGED <<fox, raw, phase, tokens, label, paramCount, optCatchAll, err>>

EscapeFault(hi, lo) ==
    IF i + 2 >= Len(Path) THEN PatternError("syntax", i, Len(Path), "truncated")
    ELSE IF ~IsHexDigit(hi) \/ ~IsHexDigit(lo) THEN PatternError("syntax", i, i + 3, "not hex")
    ELSE IF IsUnreserved(DecodeHexPair(hi, lo)) THEN PatternError("syntax", i, i + 3, "unreserved")
    ELSE IF hi # UpperHex(hi) \/ lo # UpperHex(lo) THEN PatternError("syntax", i, i + 3, "lowercase")
    ELSE None

PathEscape ==
    /\ phase = "path" /\ At(Path, i) = "%"
    /\ LET fault == EscapeFault(At(Path, i + 1), At(Path, i + 2)) IN
       IF fault # None THEN FailPath(fault)
       ELSE /\ Take(Path, 3)
            /\ UNCHANGED <<fox, raw, phase, tokens, label, paramCount, optCatchAll, err>>

\* Mutant of DotEnd: only a dot segment at the end is met.
DotEndLast(k) == LET j == IF At(Path, k) = "." THEN k + 1 ELSE k IN IF At(Path, j) = "end" THEN j ELSE -1

\* A dot segment whose first dot is in front of offset k ends here, or -1.
DotEnd(k) ==
    LET j == IF At(Path, k) = "." THEN k + 1 ELSE k
    IN  CASE At(Path, j) = "end" -> j [] At(Path, j) = "/" -> j + 1 [] OTHER -> -1

ByteFault(c) ==
    LET behindSlash == i > 0 /\ At(Path, i - 1) = "/" IN
    IF IsASCIIControl(c) THEN PatternError("syntax", i, i + 1, "control")
    ELSE IF ~IsRoutableRaw(c) THEN
        IF c = "}" THEN PatternError("syntax", i, i + 1, "unbalanced")
        ELSE IF c \in {"?", "#"} THEN PatternError("syntax", i, i + 1, "illegal delimiter")
        ELSE PatternError("syntax", i, i + RuneSize(Cut(Path, i, Len(Path))), "needs escape")
    ELSE IF c = "/" /\ behindSlash /\ fox.mergeSlash # "exact" THEN PatternError("syntax", i - 1, i + 1, "double slash")
    ELSE IF c = "." /\ behindSlash /\ DotEnd(i + 1) # -1 THEN PatternError("syntax", i - 1, DotEnd(i + 1), "dot segment")
    ELSE None

PathByte ==
    /\ phase = "path" /\ At(Path, i) \notin {"{", "+", "*", "%", "end"}
    /\ LET fault == ByteFault(At(Path, i)) IN
       IF fault # None THEN FailPath(fault)
       ELSE /\ Take(Path, 1)
            /\ UNCHANGED <<fox, raw, phase, tokens, label, paramCount, optCatchAll, err>>

PathEnd ==
    /\ phase = "path" /\ i = Len(Path)
    /\ tokens' = Flushed(FALSE)
    /\ phase' = "done"
    /\ UNCHANGED <<fox, raw, i, sb, wild, label, paramCount, optCatchAll, err>>

Next == \/ SplitPattern
        \/ HostBrace \/ HostPlus \/ HostStar \/ HostByte \/ HostEnd
        \/ PathBrace \/ PathWildcard \/ PathLiteralWild \/ PathEscape \/ PathByte \/ PathEnd

Spec == Init /\ [][Next]_vars

-----------------------------------------------------------------------------
(* What the tokens of an accepted pattern look like *)

Accepted == phase = "done" /\ err = None

\* The number of tokens of the hostname: a path starts with static text.
HostTokens == Offset({k \in DOMAIN tokens : tokens[k].typ = "static" /\ ~tokens[k].hsplit})

IsBrace(k)     == tokens[k].typ # "static"
SamePart(j, k) == (j <= HostTokens) = (k <= HostTokens)

\* Static text is in one piece and starts with the delimiter behind a brace; two
\* wildcards of a part have more than a delimiter or a parameter between them.
TokensAlternate ==
    /\ \A k \in 1 .. Len(tokens) - 1 :
          SamePart(k, k + 1) =>
             IF IsBrace(k) THEN ~IsBrace(k + 1) /\ tokens[k + 1].value[1] = (IF k < HostTokens THEN "." ELSE "/")
             ELSE IsBrace(k + 1)
    /\ \A k \in 1 .. Len(tokens) - 2 :
          SamePart(k, k + 2) /\ tokens[k].typ = "wildcard" /\ tokens[k + 2].typ = "wildcard" =>
             Len(tokens[k + 1].value) > 1
    /\ \A k \in DOMAIN tokens : ~IsBrace(k) => tokens[k].value # <<>> /\ tokens[k].hsplit = (k <= HostTokens)

\* A wildcard is nested behind another one of its part; the tokens of an optional
\* catch-all end with a wildcard without an expression.
WildcardsTold ==
    /\ \A k \in DOMAIN tokens :
          tokens[k].nested <=> /\ tokens[k].typ = "wildcard"
                               /\ \E j \in 1 .. k - 1 : SamePart(j, k) /\ tokens[j].typ = "wildcard"
    /\ optCatchAll => Last(tokens).typ = "wildcard" /\ Last(tokens).regexp = <<>>

\* Each parameter of a match has a place in the slice a context keeps for them.
ParamsCounted == paramCount = Cardinality({k \in DOMAIN tokens : IsBrace(k)}) /\ paramCount <= MaxParams

TokensInShape == Accepted => TokensAlternate /\ WildcardsTold /\ ParamsCounted
=============================================================================
