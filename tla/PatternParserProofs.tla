------------------------- MODULE PatternParserProofs -------------------------
(***************************************************************************)
(* Proofs about module PatternParser: the shape of the tokens of every      *)
(* accepted pattern, of any length and over all options of a router.        *)
(*                                                                          *)
(* Both loops keep the same invariant, Reading, on the part they read: the  *)
(* tokens behind lo, the static text that is pending, and what prevWild,    *)
(* sawWild and staticSinceWild remember of them.                            *)
(***************************************************************************)
EXTENDS PatternParser, FiniteSetTheorems, SequenceTheorems, NaturalsInduction,
        WellFoundedInduction, TLAPS

Texts == Seq(DOMAIN Byte)

Token == [typ : {"static", "param", "wildcard"}, value : Texts, regexp : Texts,
          nested : BOOLEAN, hsplit : BOOLEAN]

Wilds == [prevWild : BOOLEAN, sawWild : BOOLEAN, staticSinceWild : Nat]

IsStatic(tk)   == tk.typ = "static"
IsWildcard(tk) == tk.typ = "wildcard"

\* The tokens from lo + 1 to hi are those of one part.
Part(q, lo, hi, delim, host) ==
    /\ \A k \in lo + 1 .. hi - 1 :
          IF IsStatic(q[k]) THEN ~IsStatic(q[k + 1])
          ELSE IsStatic(q[k + 1]) /\ q[k + 1].value[1] = delim
    /\ \A k \in lo + 1 .. hi - 2 :
          IsWildcard(q[k]) /\ IsWildcard(q[k + 2]) => Len(q[k + 1].value) > 1
    /\ \A k \in lo + 1 .. hi : IsStatic(q[k]) => q[k].value # <<>> /\ q[k].hsplit = host
    /\ \A k \in lo + 1 .. hi :
          q[k].nested <=> IsWildcard(q[k]) /\ \E j \in lo + 1 .. k - 1 : IsWildcard(q[j])

\* The text s has been read up to offset c: q, t and w are tokens, sb and wild.
Reading(s, q, t, w, c, lo, delim, host) ==
    /\ q \in Seq(Token) /\ t \in Texts /\ w \in Wilds /\ c \in Nat /\ lo \in 0 .. Len(q)
    /\ Part(q, lo, Len(q), delim, host)
    /\ Len(q) > lo => /\ ~IsStatic(q[Len(q)])
                      /\ t = <<>> => At(s, c) \in {delim, "end"}
                      /\ t # <<>> => t[1] = delim
    /\ w.prevWild <=> Len(q) > lo /\ IsWildcard(q[Len(q)])
    /\ w.prevWild => w.staticSinceWild = Len(t)
    /\ w.sawWild <=> \E j \in lo + 1 .. Len(q) : IsWildcard(q[j])

-----------------------------------------------------------------------------
(* One part *)

LEMMA AppendParts ==
    ASSUME NEW S, NEW q \in Seq(S), NEW e \in S
    PROVE  /\ Append(q, e) \in Seq(S) /\ Len(Append(q, e)) = Len(q) + 1
           /\ \A k \in 1 .. Len(q) : Append(q, e)[k] = q[k]
           /\ Append(q, e)[Len(q) + 1] = e
OBVIOUS

\* A token behind the part leaves it alone.
LEMMA PartIsKept ==
    ASSUME NEW q \in Seq(Token), NEW e \in Token, NEW lo \in Nat, NEW hi \in 0 .. Len(q),
           NEW delim, NEW host, Part(q, lo, hi, delim, host)
    PROVE  Part(Append(q, e), lo, hi, delim, host)
<1> DEFINE p == Append(q, e)
<1>1. \A k \in 1 .. hi : p[k] = q[k]
  BY AppendParts
<1> HIDE DEF p
<1>2. ASSUME NEW k \in lo + 1 .. hi - 1
      PROVE  IF IsStatic(p[k]) THEN ~IsStatic(p[k + 1])
             ELSE IsStatic(p[k + 1]) /\ p[k + 1].value[1] = delim
  <2>1. p[k] = q[k] /\ p[k + 1] = q[k + 1]
    BY <1>1
  <2> QED BY <2>1 DEF Part
<1>3. ASSUME NEW k \in lo + 1 .. hi - 2, IsWildcard(p[k]), IsWildcard(p[k + 2])
      PROVE  Len(p[k + 1].value) > 1
  <2>1. p[k] = q[k] /\ p[k + 1] = q[k + 1] /\ p[k + 2] = q[k + 2]
    BY <1>1
  <2> QED BY <1>3, <2>1 DEF Part
<1>4. ASSUME NEW k \in lo + 1 .. hi
      PROVE  /\ IsStatic(p[k]) => p[k].value # <<>> /\ p[k].hsplit = host
             /\ p[k].nested <=> IsWildcard(p[k]) /\ \E j \in lo + 1 .. k - 1 : IsWildcard(p[j])
  <2>1. p[k] = q[k] /\ \A j \in lo + 1 .. k - 1 : p[j] = q[j]
    BY <1>1
  <2> QED BY <2>1 DEF Part
<1>5. Part(p, lo, hi, delim, host)
  BY <1>2, <1>3, <1>4 DEF Part
<1> QED BY <1>5 DEF p

\* What a token must be to go on with the part.
Follows(q, e, lo, delim, host) ==
    /\ Len(q) > lo => IF IsStatic(q[Len(q)]) THEN ~IsStatic(e)
                      ELSE IsStatic(e) /\ e.value[1] = delim
    /\ Len(q) - 1 > lo /\ IsWildcard(q[Len(q) - 1]) /\ IsWildcard(e) => Len(q[Len(q)].value) > 1
    /\ IsStatic(e) => e.value # <<>> /\ e.hsplit = host
    /\ e.nested <=> IsWildcard(e) /\ \E j \in lo + 1 .. Len(q) : IsWildcard(q[j])

LEMMA PartGrows ==
    ASSUME NEW q \in Seq(Token), NEW e \in Token, NEW lo \in 0 .. Len(q),
           NEW delim, NEW host, Part(q, lo, Len(q), delim, host), Follows(q, e, lo, delim, host)
    PROVE  Part(Append(q, e), lo, Len(q) + 1, delim, host)
<1> DEFINE p == Append(q, e)
           m == Len(q)
<1>1. m \in Nat /\ p[m + 1] = e /\ \A k \in 1 .. m : p[k] = q[k]
  BY AppendParts
<1> HIDE DEF p, m
<1>2. ASSUME NEW k \in lo + 1 .. (m + 1) - 1
      PROVE  IF IsStatic(p[k]) THEN ~IsStatic(p[k + 1])
             ELSE IsStatic(p[k + 1]) /\ p[k + 1].value[1] = delim
  <2>1. CASE k = m
    BY <1>1, <2>1 DEF Follows, m
  <2>2. CASE k # m
    <3>1. p[k] = q[k] /\ p[k + 1] = q[k + 1] /\ k \in lo + 1 .. m - 1
      BY <1>1, <2>2
    <3> QED BY <3>1 DEF Part, m
  <2> QED BY <2>1, <2>2
<1>3. ASSUME NEW k \in lo + 1 .. (m + 1) - 2, IsWildcard(p[k]), IsWildcard(p[k + 2])
      PROVE  Len(p[k + 1].value) > 1
  <2>1. CASE k = m - 1
    <3>1. k + 2 = m + 1 /\ k + 1 = m /\ p[k] = q[m - 1] /\ p[k + 1] = q[m] /\ m - 1 > lo
      BY <1>1, <2>1
    <3> QED BY <1>1, <1>3, <3>1 DEF Follows, m
  <2>2. CASE k # m - 1
    <3>1. k \in lo + 1 .. m - 2 /\ k \in 1 .. m /\ k + 1 \in 1 .. m /\ k + 2 \in 1 .. m
      BY <1>1, <2>2
    <3>2. p[k] = q[k] /\ p[k + 1] = q[k + 1] /\ p[k + 2] = q[k + 2]
      BY <1>1, <3>1
    <3> QED BY <1>3, <3>1, <3>2 DEF Part, m
  <2> QED BY <2>1, <2>2
<1>4. ASSUME NEW k \in lo + 1 .. m + 1
      PROVE  /\ IsStatic(p[k]) => p[k].value # <<>> /\ p[k].hsplit = host
             /\ p[k].nested <=> IsWildcard(p[k]) /\ \E j \in lo + 1 .. k - 1 : IsWildcard(p[j])
  <2>1. \A j \in lo + 1 .. k - 1 : p[j] = q[j]
    BY <1>1
  <2>2. CASE k = m + 1
    <3>1. k - 1 = m /\ p[k] = e
      BY <1>1, <2>2
    <3> QED BY <2>1, <3>1 DEF Follows, m
  <2>3. CASE k # m + 1
    <3>1. p[k] = q[k] /\ k \in lo + 1 .. m
      BY <1>1, <2>3
    <3> QED BY <2>1, <3>1 DEF Part, m
  <2> QED BY <2>2, <2>3
<1>5. Part(p, lo, m + 1, delim, host)
  BY <1>2, <1>3, <1>4 DEF Part
<1> QED BY <1>5 DEF p, m

-----------------------------------------------------------------------------
(* One turn of a loop *)

LEMMA TextConcat ==
    ASSUME NEW t \in Texts, NEW d \in Texts
    PROVE  /\ t \o d \in Texts /\ Len(t \o d) = Len(t) + Len(d) /\ Len(t) \in Nat
           /\ \A k \in 1 .. Len(t) + Len(d) : (t \o d)[k] = IF k <= Len(t) THEN t[k] ELSE d[k - Len(t)]
           /\ t = <<>> <=> Len(t) = 0
BY ConcatProperties DEF Texts

LEMMA WildCounts ==
    ASSUME NEW w \in Wilds, NEW n \in Nat
    PROVE  /\ [w EXCEPT !.staticSinceWild = @ + n] \in Wilds
           /\ [w EXCEPT !.staticSinceWild = @ + n].prevWild = w.prevWild
           /\ [w EXCEPT !.staticSinceWild = @ + n].sawWild = w.sawWild
           /\ [w EXCEPT !.staticSinceWild = @ + n].staticSinceWild = w.staticSinceWild + n
BY DEF Wilds

\* Static text of n bytes.
LEMMA ReadStatic ==
    ASSUME NEW s \in Texts, NEW q, NEW t, NEW w, NEW c, NEW lo, NEW delim, NEW host,
           Reading(s, q, t, w, c, lo, delim, host),
           NEW n \in Nat \ {0}, c + n <= Len(s), At(s, c) # "end"
    PROVE  /\ Reading(s, q, t \o Cut(s, c, c + n), [w EXCEPT !.staticSinceWild = @ + n], c + n,
                      lo, delim, host)
           /\ t \o Cut(s, c, c + n) # <<>>
<1>0. q \in Seq(Token) /\ t \in Texts /\ w \in Wilds /\ c \in Nat /\ lo \in 0 .. Len(q)
  BY DEF Reading
<1> DEFINE d == Cut(s, c, c + n)
           r == t \o d
           v == [w EXCEPT !.staticSinceWild = @ + n]
<1>1. d \in Texts /\ Len(d) = n /\ d[1] = s[c + 1]
  BY <1>0 DEF Cut, Texts
<1>2. At(s, c) = s[c + 1]
  BY <1>0 DEF At, Texts
<1> HIDE DEF d
<1>3. /\ r \in Texts /\ Len(r) = Len(t) + n /\ Len(t) \in Nat
      /\ r[1] = IF t = <<>> THEN d[1] ELSE t[1]
  <2>1. /\ r \in Texts /\ Len(r) = Len(t) + Len(d) /\ Len(t) \in Nat
        /\ \A k \in 1 .. Len(t) + Len(d) : r[k] = IF k <= Len(t) THEN t[k] ELSE d[k - Len(t)]
    BY <1>0, <1>1, TextConcat
  <2>2. t = <<>> <=> Len(t) = 0
    BY <1>0, <1>1, TextConcat
  <2> HIDE DEF r
  <2> QED BY <1>1, <2>1, <2>2
<1>4. r # <<>>
  BY <1>3
<1>5. /\ v \in Wilds /\ v.prevWild = w.prevWild /\ v.sawWild = w.sawWild
      /\ v.staticSinceWild = w.staticSinceWild + n
  BY <1>0, WildCounts
<1> HIDE DEF r, v
<1>6. Len(q) > lo => r[1] = delim
  BY <1>1, <1>2, <1>3 DEF Reading
<1>7. v.prevWild => v.staticSinceWild = Len(r)
  BY <1>3, <1>5 DEF Reading
<1>8. Reading(s, q, r, v, c + n, lo, delim, host)
  <2>1. /\ Part(q, lo, Len(q), delim, host)
        /\ Len(q) > lo => ~IsStatic(q[Len(q)])
        /\ v.prevWild <=> Len(q) > lo /\ IsWildcard(q[Len(q)])
        /\ v.sawWild <=> \E j \in lo + 1 .. Len(q) : IsWildcard(q[j])
    BY <1>5 DEF Reading
  <2>2. c + n \in Nat
    BY <1>0
  <2> QED BY <1>0, <1>3, <1>4, <1>5, <1>6, <1>7, <2>1, <2>2 DEF Reading
<1> QED BY <1>4, <1>8 DEF d, r, v

\* The tokens q with the pending text t behind them.
Flush(q, t, host) == IF t = <<>> THEN q ELSE Append(q, Static(t, host))

LEMMA StaticIsToken ==
    ASSUME NEW t \in Texts, NEW host \in BOOLEAN
    PROVE  /\ Static(t, host) \in Token /\ IsStatic(Static(t, host)) /\ ~IsWildcard(Static(t, host))
           /\ Static(t, host).value = t /\ Static(t, host).hsplit = host
           /\ Static(t, host).nested = FALSE
BY DEF Static, Token, IsStatic, IsWildcard, Texts

LEMMA FlushedPart ==
    ASSUME NEW s, NEW q, NEW t, NEW w, NEW c, NEW lo, NEW delim, NEW host \in BOOLEAN,
           Reading(s, q, t, w, c, lo, delim, host)
    PROVE  /\ Flush(q, t, host) \in Seq(Token)
           /\ Part(Flush(q, t, host), lo, Len(Flush(q, t, host)), delim, host)
           /\ \A k \in 1 .. Len(q) : Flush(q, t, host)[k] = q[k]
           /\ t = <<>> => Flush(q, t, host) = q
           /\ t # <<>> => /\ Len(Flush(q, t, host)) = Len(q) + 1
                          /\ Flush(q, t, host)[Len(q) + 1] = Static(t, host)
<1>0. q \in Seq(Token) /\ t \in Texts /\ lo \in 0 .. Len(q)
  BY DEF Reading
<1>1. CASE t = <<>>
  BY <1>1 DEF Flush, Reading
<1>2. CASE t # <<>>
  <2> DEFINE e == Static(t, host)
  <2>1. /\ e \in Token /\ IsStatic(e) /\ ~IsWildcard(e) /\ e.value = t /\ e.hsplit = host
        /\ e.nested = FALSE
    BY <1>0, StaticIsToken
  <2>2. Flush(q, t, host) = Append(q, e)
    BY <1>2 DEF Flush
  <2> HIDE DEF e
  <2>3. Follows(q, e, lo, delim, host)
    BY <1>2, <2>1 DEF Follows, Reading
  <2>4. Part(Append(q, e), lo, Len(q) + 1, delim, host)
    BY <1>0, <2>1, <2>3, PartGrows DEF Reading
  <2> QED BY <1>0, <1>2, <2>1, <2>2, <2>4, AppendParts DEF e
<1> QED BY <1>1, <1>2

\* A parameter or a wildcard e.
LEMMA ReadBrace ==
    ASSUME NEW s, NEW q, NEW t, NEW w, NEW c, NEW d \in Nat, NEW lo, NEW delim,
           NEW host \in BOOLEAN, Reading(s, q, t, w, c, lo, delim, host), At(s, c) \notin {delim, "end"},
           At(s, d) \in {delim, "end"},
           NEW e \in Token, ~IsStatic(e), e.nested <=> IsWildcard(e) /\ w.sawWild,
           ~(IsWildcard(e) /\ w.prevWild /\ w.staticSinceWild <= 1),
           NEW v \in Wilds, v.prevWild <=> IsWildcard(e), v.sawWild <=> w.sawWild \/ IsWildcard(e),
           v.prevWild => v.staticSinceWild = 0
    PROVE  Reading(s, Append(Flush(q, t, host), e), <<>>, v, d, lo, delim, host)
<1>0. q \in Seq(Token) /\ t \in Texts /\ w \in Wilds /\ lo \in 0 .. Len(q)
  BY DEF Reading
<1> DEFINE f == Flush(q, t, host)
           p == Append(f, e)
           m == Len(f)
<1>1. /\ f \in Seq(Token) /\ Part(f, lo, m, delim, host)
      /\ \A k \in 1 .. Len(q) : f[k] = q[k]
      /\ t = <<>> => f = q
      /\ t # <<>> => m = Len(q) + 1 /\ f[Len(q) + 1] = Static(t, host)
  BY FlushedPart
<1> HIDE DEF f
<1>2. t # <<>> => IsStatic(f[m]) /\ ~IsWildcard(f[m]) /\ f[m].value = t
  <2>1. /\ IsStatic(Static(t, host)) /\ ~IsWildcard(Static(t, host))
        /\ Static(t, host).value = t
    BY <1>0, StaticIsToken
  <2> QED BY <1>1, <2>1
<1>3. m \in Nat /\ lo \in 0 .. m /\ Len(q) \in Nat
  BY <1>0, <1>1
<1>4. (\E j \in lo + 1 .. m : IsWildcard(f[j])) <=> w.sawWild
  <2>1. w.sawWild <=> \E j \in lo + 1 .. Len(q) : IsWildcard(q[j])
    BY DEF Reading
  <2>2. CASE t = <<>>
    BY <1>1, <2>1, <2>2
  <2>3. CASE t # <<>>
    BY <1>1, <1>2, <1>3, <2>1, <2>3
  <2> QED BY <2>2, <2>3
<1>5. m > lo => IsStatic(f[m])
  <2>1. CASE t = <<>>
    BY <1>1, <2>1 DEF Reading
  <2> QED BY <1>2, <2>1
<1>6. m - 1 > lo /\ IsWildcard(f[m - 1]) /\ IsWildcard(e) => Len(f[m].value) > 1
  <2> SUFFICES ASSUME m - 1 > lo, IsWildcard(f[m - 1]), IsWildcard(e) PROVE Len(f[m].value) > 1
    OBVIOUS
  <2>1. t # <<>>
    BY <1>1, <1>3 DEF Reading
  <2>2. Len(q) > lo /\ f[m - 1] = q[Len(q)]
    BY <1>1, <1>3, <2>1
  <2>3. w.prevWild /\ w.staticSinceWild = Len(t)
    BY <2>2 DEF Reading
  <2>4. w.staticSinceWild \in Nat /\ ~(w.staticSinceWild <= 1)
    BY <1>0, <2>3 DEF Wilds
  <2> QED BY <1>2, <2>1, <2>3, <2>4
<1>7. Follows(f, e, lo, delim, host)
  BY <1>4, <1>5, <1>6 DEF Follows
<1>8. p \in Seq(Token) /\ Len(p) = m + 1 /\ p[m + 1] = e /\ \A k \in 1 .. m : p[k] = f[k]
  BY <1>1, AppendParts
<1>9. Part(p, lo, m + 1, delim, host)
  BY <1>1, <1>3, <1>7, PartGrows
<1> HIDE DEF p, m
<1>10. (\E j \in lo + 1 .. m + 1 : IsWildcard(p[j])) <=> v.sawWild
  BY <1>3, <1>4, <1>8
<1>11. Reading(s, p, <<>>, v, d, lo, delim, host)
  <2>1. <<>> \in Texts /\ Len(<<>>) = 0 /\ lo \in 0 .. m + 1
    BY <1>3 DEF Texts
  <2> QED BY <1>3, <1>8, <1>9, <1>10, <2>1 DEF Reading
<1> QED BY <1>11 DEF p, f

-----------------------------------------------------------------------------
(* Offsets and errors *)

LEMMA NaturalsHaveAMinimum ==
    ASSUME NEW T, T \subseteq Nat, T # {}
    PROVE  \E x \in T : \A y \in T : x <= y
<1> DEFINE R == OpToRel(<, Nat)
<1>1. IsWellFoundedOn(R, Nat)
  BY NatLessThanWellFounded, Zenon
<1>2. ASSUME NEW x \in Nat, NEW y \in Nat, ~(<<y, x>> \in R) PROVE x <= y
  BY <1>2 DEF OpToRel
<1> HIDE DEF R
<1>3. \E x \in T : \A y \in T : ~(<<y, x>> \in R)
  BY <1>1, WFMin
<1> QED BY <1>2, <1>3

LEMMA OffsetProperties ==
    ASSUME NEW T, T \subseteq Nat \ {0}
    PROVE  \/ T = {} /\ Offset(T) = -1
           \/ Offset(T) \in Nat /\ Offset(T) + 1 \in T /\ \A y \in T : Offset(T) + 1 <= y
<1>1. CASE T = {}
  BY <1>1 DEF Offset
<1>2. CASE T # {}
  <2>1. \E x \in T : \A y \in T : x <= y
    BY <1>2, NaturalsHaveAMinimum
  <2>2. Min(T) \in T /\ \A y \in T : Min(T) <= y
    BY <2>1 DEF Min
  <2>3. Offset(T) = Min(T) - 1
    BY <1>2 DEF Offset
  <2>4. Offset(T) \in Nat /\ Offset(T) + 1 = Min(T)
    <3> DEFINE m == Min(T)
    <3>1. m \in Nat /\ m # 0 /\ Offset(T) = m - 1
      BY <2>2, <2>3
    <3> HIDE DEF m
    <3>2. Offset(T) \in Nat /\ Offset(T) + 1 = m
      BY <3>1
    <3> QED BY <3>2 DEF m
  <2> QED BY <2>2, <2>4
<1> QED BY <1>1, <1>2

LEMMA TextParts ==
    ASSUME NEW s \in Texts
    PROVE  Len(s) \in Nat /\ DOMAIN s = 1 .. Len(s) /\ DOMAIN s \subseteq Nat \ {0}
BY DEF Texts

LEMMA CutIsText ==
    ASSUME NEW s \in Texts, NEW a \in Nat, NEW b \in Int, b <= Len(s)
    PROVE  /\ Cut(s, a, b) \in Texts
           /\ a < b => /\ Len(Cut(s, a, b)) = b - a
                       /\ \A k \in 1 .. b - a : Cut(s, a, b)[k] = s[a + k]
BY DEF Cut, Texts

\* A fault that has a reason.
Real(e) == e = PatternError(e.reason, e.start, e.end, e.hint) /\ e.reason # ""

Fault(e) == e = None \/ Real(e)

LEMMA ErrorIsReal ==
    ASSUME NEW r, r # "", NEW a, NEW b, NEW h
    PROVE  Real(PatternError(r, a, b, h)) /\ PatternError(r, a, b, h) # None
BY DEF Real, PatternError, None

LEMMA RealIsNotNone ==
    ASSUME NEW e, Real(e)
    PROVE  e # None
<1>1. None.reason = ""
  BY DEF PatternError, None
<1> QED BY <1>1 DEF Real

LEMMA ShiftIsFault ==
    ASSUME NEW e, Fault(e), NEW n
    PROVE  Fault(Shift(e, n)) /\ (Shift(e, n) = None => e = None)
<1>1. CASE e = None
  BY <1>1 DEF Shift, Fault
<1>2. CASE e # None
  <2>1. Real(e)
    BY <1>2 DEF Fault
  <2>2. Shift(e, n) = PatternError(e.reason, e.start + n, e.end + n, e.hint)
    BY <1>2, <2>1 DEF Shift, Real, PatternError
  <2>3. e.reason # ""
    BY <2>1 DEF Real
  <2> QED BY <2>2, <2>3, ErrorIsReal DEF Fault
<1> QED BY <1>1, <1>2

LEMMA CompileIsFault ==
    ASSUME NEW expr PROVE Fault(CompileFault(expr))
BY ErrorIsReal DEF CompileFault, Fault

LEMMA NameIsFault ==
    ASSUME NEW name, NEW consumed, NEW delim PROVE Fault(NameFault(name, consumed, delim))
BY ErrorIsReal DEF NameFault, Fault

LEMMA ExprIsFault ==
    ASSUME NEW expr, NEW consumed, NEW isOptional, NEW off
    PROVE  /\ Fault(ExprFault(expr, consumed, isOptional, off))
           /\ isOptional => ExprFault(expr, consumed, isOptional, off) # None
<1>1. CASE isOptional
  BY <1>1, ErrorIsReal DEF ExprFault, Fault
<1>2. CASE ~isOptional
  <2>1. Fault(Shift(CompileFault(expr), off))
    BY CompileIsFault, ShiftIsFault
  <2> HIDE DEF Fault
  <2>2. \A a, b, h : Fault(PatternError("regexp", a, b, h))
    BY ErrorIsReal DEF Fault
  <2> QED BY <1>2, <2>1, <2>2 DEF ExprFault
<1> QED BY <1>1, <1>2

\* parseBrace: an expression of an optional wildcard is a fault.
LEMMA ParseBraceProperties ==
    ASSUME NEW s \in Texts, s # <<>>, NEW delim, NEW isOptional
    PROVE  /\ ParseBrace(s, delim, isOptional).name \in Texts
           /\ ParseBrace(s, delim, isOptional).regexp \in Texts
           /\ ParseBrace(s, delim, isOptional).n \in Nat
           /\ Fault(ParseBrace(s, delim, isOptional).err)
           /\ isOptional /\ ParseBrace(s, delim, isOptional).err = None
                => ParseBrace(s, delim, isOptional).regexp = <<>>
<1> DEFINE idx == BraceIndex(Tail(s), 1)
           content == Cut(s, 1, 1 + idx)
           b == ParseBrace(s, delim, isOptional)
<1>1. Tail(s) \in Texts /\ Len(Tail(s)) = Len(s) - 1 /\ Len(s) \in Nat
  BY DEF Texts
<1>2. idx = -1 \/ (idx \in Nat /\ idx + 1 \in 1 .. Len(s) - 1)
  <2> DEFINE T == {k \in DOMAIN Tail(s) : Tail(s)[k] = "}" /\ 1 + Count(Tail(s), k, "{") = Count(Tail(s), k, "}")}
  <2>1. idx = Offset(T)
    BY DEF BraceIndex
  <2>2. T \subseteq 1 .. Len(s) - 1 /\ T \subseteq Nat \ {0}
    BY <1>1, TextParts
  <2> HIDE DEF T, idx
  <2> QED BY <2>1, <2>2, OffsetProperties
<1>3. <<>> \in Texts /\ Len(<<>>) = 0
  BY DEF Texts
<1>4. CASE idx = -1
  <2>1. b = Parsed(<<>>, <<>>, 0, PatternError("syntax", 0, Len(s), "unbalanced"))
    BY <1>4 DEF ParseBrace
  <2>2. b.name = <<>> /\ b.regexp = <<>> /\ b.n = 0 /\ b.err = PatternError("syntax", 0, Len(s), "unbalanced")
    BY <2>1 DEF Parsed
  <2> HIDE DEF b
  <2>3. Fault(b.err)
    BY <2>2, ErrorIsReal DEF Fault
  <2> QED BY <1>3, <2>2, <2>3 DEF b
<1>5. CASE idx # -1
  <2> DEFINE colon == IndexByte(content, ":")
  <2>1. b = ParseContent(content, colon, delim, isOptional)
    BY <1>5 DEF ParseBrace
  <2> HIDE DEF b, idx
  <2>2. content \in Texts
    <3>1. 1 \in Nat /\ 1 + idx \in Int /\ 1 + idx <= Len(s)
      BY <1>1, <1>2, <1>5
    <3> QED BY <3>1, CutIsText
  <2> HIDE DEF content
  <2>3. colon = -1 \/ (colon \in Nat /\ colon + 1 \in 1 .. Len(content))
    <3> DEFINE T == {k \in DOMAIN content : content[k] = ":"}
    <3>1. colon = Offset(T) /\ T \subseteq 1 .. Len(content) /\ T \subseteq Nat \ {0}
      BY <2>2, TextParts DEF IndexByte
    <3> HIDE DEF T, colon
    <3> QED BY <3>1, OffsetProperties
  <2> HIDE DEF colon
  <2> DEFINE consumed == Len(content) + 2
             name     == IF colon = -1 THEN content ELSE Cut(content, 0, colon)
             expr     == IF colon = -1 THEN <<>> ELSE Cut(content, colon + 1, Len(content))
             fault    == NameFault(name, consumed, delim)
             e        == IF fault # None \/ colon = -1 THEN fault
                         ELSE ExprFault(expr, consumed, isOptional, colon + 2)
  <2>4. b = Parsed(name, expr, consumed, e)
    BY <2>1 DEF ParseContent
  <2>5. name \in Texts /\ expr \in Texts
    <3>1. CASE colon = -1
      BY <1>3, <2>2, <3>1
    <3>2. CASE colon # -1
      <4>1. colon \in Int /\ colon <= Len(content) /\ colon + 1 \in Nat /\ Len(content) \in Int
        BY <2>2, <2>3, <3>2, TextParts
      <4>2. Cut(content, 0, colon) \in Texts /\ Cut(content, colon + 1, Len(content)) \in Texts
        BY <2>2, <4>1, CutIsText
      <4> QED BY <3>2, <4>2
    <3> QED BY <3>1, <3>2
  <2>6. consumed \in Nat
    BY <2>2, TextParts
  <2>7. colon = -1 => expr = <<>>
    OBVIOUS
  <2> HIDE DEF name, expr, consumed
  <2>8. Fault(e) /\ (isOptional /\ colon # -1 => e # None)
    BY NameIsFault, ExprIsFault
  <2> HIDE DEF fault, e
  <2>9. b.name = name /\ b.regexp = expr /\ b.n = consumed /\ b.err = e
    BY <2>4 DEF Parsed
  <2> QED BY <2>5, <2>6, <2>7, <2>8, <2>9 DEF b
<1> QED BY <1>4, <1>5

-----------------------------------------------------------------------------
(* The parts of a pattern *)

LEMMA RawParts ==
    ASSUME raw \in Texts
    PROVE  /\ EndHost = -1 \/ EndHost \in Nat
           /\ EndHost \in Nat => /\ Hostname \in Texts /\ Path \in Texts
                                 /\ At(Path, 0) = "/"
<1> DEFINE T == {k \in DOMAIN raw : raw[k] = "/"}
<1>1. EndHost = Offset(T) /\ T \subseteq 1 .. Len(raw) /\ T \subseteq Nat \ {0} /\ Len(raw) \in Nat
  BY TextParts DEF EndHost, IndexByte
<1>2. EndHost = -1 \/ (EndHost \in Nat /\ EndHost + 1 \in T)
  <2> HIDE DEF T
  <2> QED BY <1>1, OffsetProperties
<1>3. ASSUME EndHost \in Nat
      PROVE  Hostname \in Texts /\ Path \in Texts /\ At(Path, 0) = "/"
  <2>1. EndHost + 1 \in 1 .. Len(raw) /\ raw[EndHost + 1] = "/"
    BY <1>1, <1>2, <1>3
  <2> DEFINE c == EndHost
  <2>2. c \in Nat /\ c + 1 \in 1 .. Len(raw) /\ raw[c + 1] = "/"
    BY <1>3, <2>1
  <2>3. Hostname = Cut(raw, 0, c) /\ Path = Cut(raw, c, Len(raw))
    BY DEF Hostname, Path
  <2> HIDE DEF c
  <2>4. Hostname \in Texts
    BY <1>1, <2>2, <2>3, CutIsText
  <2>5. c < Len(raw) /\ 1 \in 1 .. Len(raw) - c
    BY <1>1, <2>2
  <2>6. Path \in Texts /\ Len(Path) = Len(raw) - c /\ Path[1] = raw[c + 1]
    <3>1. /\ Path \in Texts /\ Len(Path) = Len(raw) - c
          /\ \A k \in 1 .. Len(raw) - c : Path[k] = raw[c + k]
      <4>1. c \in Nat /\ Len(raw) \in Int /\ Len(raw) <= Len(raw) /\ c < Len(raw)
        BY <1>1, <2>2, <2>5
      <4> QED BY <2>3, <4>1, CutIsText
    <3> QED BY <2>5, <3>1
  <2>7. At(Path, 0) = "/"
    BY <1>1, <2>2, <2>5, <2>6 DEF At
  <2> QED BY <2>4, <2>6, <2>7
<1> QED BY <1>2, <1>3

\* The braces among the tokens.
Braces(q) == {k \in DOMAIN q : ~IsStatic(q[k])}

LEMMA BracesGrow ==
    ASSUME NEW q \in Seq(Token), NEW e \in Token
    PROVE  /\ Braces(Append(q, e)) = IF IsStatic(e) THEN Braces(q) ELSE Braces(q) \cup {Len(q) + 1}
           /\ Len(q) + 1 \notin Braces(q)
           /\ IsFiniteSet(Braces(q))
<1>1. DOMAIN q = 1 .. Len(q) /\ Len(q) \in Nat /\ DOMAIN Append(q, e) = 1 .. Len(q) + 1
  OBVIOUS
<1>2. IsFiniteSet(1 .. Len(q))
  BY <1>1, FS_Interval
<1>3. IsFiniteSet(Braces(q))
  BY <1>1, <1>2, FS_Subset DEF Braces
<1>4. \A k \in 1 .. Len(q) : Append(q, e)[k] = q[k]
  BY AppendParts
<1>5. Append(q, e)[Len(q) + 1] = e
  BY AppendParts
<1>6. Braces(Append(q, e)) = IF IsStatic(e) THEN Braces(q) ELSE Braces(q) \cup {Len(q) + 1}
  <2> DEFINE p == Append(q, e)
  <2> HIDE DEF p
  <2>1. /\ DOMAIN p = 1 .. Len(q) + 1 /\ p[Len(q) + 1] = e
        /\ \A k \in 1 .. Len(q) : p[k] = q[k]
    BY <1>1, <1>4, <1>5 DEF p
  <2>2. Braces(p) = IF IsStatic(e) THEN Braces(q) ELSE Braces(q) \cup {Len(q) + 1}
    BY <1>1, <2>1 DEF Braces
  <2> QED BY <2>2 DEF p
<1> QED BY <1>1, <1>3, <1>6 DEF Braces

LEMMA BracesCounted ==
    ASSUME NEW q \in Seq(Token), NEW e \in Token, NEW t \in Texts, NEW host \in BOOLEAN
    PROVE  /\ Flush(q, t, host) \in Seq(Token)
           /\ Cardinality(Braces(Flush(q, t, host))) = Cardinality(Braces(q))
           /\ ~IsStatic(e) => Cardinality(Braces(Append(Flush(q, t, host), e))) = Cardinality(Braces(q)) + 1
           /\ Cardinality(Braces(q)) \in Nat
<1> DEFINE f == Flush(q, t, host)
<1>1. f \in Seq(Token) /\ Braces(f) = Braces(q)
  <2>1. CASE t = <<>>
    BY <2>1 DEF Flush
  <2>2. CASE t # <<>>
    <3>1. f = Append(q, Static(t, host))
      BY <2>2 DEF Flush
    <3>2. Static(t, host) \in Token /\ IsStatic(Static(t, host))
      BY StaticIsToken
    <3> QED BY <3>1, <3>2, BracesGrow, AppendParts
  <2> QED BY <2>1, <2>2
<1> HIDE DEF f
<1>2. IsFiniteSet(Braces(f)) /\ Len(f) + 1 \notin Braces(f)
  BY <1>1, BracesGrow
<1>3. ASSUME ~IsStatic(e) PROVE Cardinality(Braces(Append(f, e))) = Cardinality(Braces(f)) + 1
  <2>1. Braces(Append(f, e)) = Braces(f) \cup {Len(f) + 1}
    BY <1>1, <1>3, BracesGrow
  <2> QED BY <1>2, <2>1, FS_AddElement
<1> QED BY <1>1, <1>2, <1>3, FS_CardinalityType DEF f

-----------------------------------------------------------------------------
(* The inductive invariant *)

Counted == paramCount = Cardinality(Braces(tokens)) /\ paramCount <= MaxParams

Optional(q) == Len(q) > 0 /\ IsWildcard(q[Len(q)]) /\ q[Len(q)].regexp = <<>>

Fresh == i = 0 /\ sb = <<>> /\ tokens = <<>> /\ wild = NoWild /\ ~optCatchAll

HostRead ==
    EndHost \in Nat /\ ~optCatchAll /\ Reading(Hostname, tokens, sb, wild, i, 0, ".", TRUE)

\* The hostname has h tokens; a path starts with static text.
PathFrom(s, q, t, w, c, h) ==
    /\ h \in 0 .. Len(q)
    /\ Part(q, 0, h, ".", TRUE)
    /\ Reading(s, q, t, w, c, h, "/", FALSE)
    /\ h = Len(q) /\ t = <<>> => c = 0
    /\ h < Len(q) => IsStatic(q[h + 1])

PathRead ==
    /\ EndHost \in Nat /\ \E h \in Nat : PathFrom(Path, tokens, sb, wild, i, h)
    /\ optCatchAll => sb = <<>> /\ At(Path, i) = "end" /\ Optional(tokens)

Whole(q, h) ==
    /\ h \in 0 .. Len(q) - 1
    /\ Part(q, 0, h, ".", TRUE) /\ Part(q, h, Len(q), "/", FALSE)
    /\ IsStatic(q[h + 1])

Inv ==
    /\ raw \in Texts /\ tokens \in Seq(Token) /\ optCatchAll \in BOOLEAN /\ Counted
    /\ phase = "start" => Fresh
    /\ phase = "host" => HostRead
    /\ phase = "path" => PathRead
    /\ Accepted => (\E h \in Nat : Whole(tokens, h)) /\ (optCatchAll => Optional(tokens))

-----------------------------------------------------------------------------

LEMMA NothingRead ==
    ASSUME NEW s, NEW q \in Seq(Token), NEW delim, NEW host
    PROVE  Reading(s, q, <<>>, NoWild, 0, Len(q), delim, host)
<1>1. Len(q) \in Nat
  OBVIOUS
<1>2. Part(q, Len(q), Len(q), delim, host)
  BY <1>1 DEF Part
<1>3. NoWild \in Wilds /\ NoWild.prevWild = FALSE /\ NoWild.sawWild = FALSE
  BY DEF NoWild, Wilds
<1>4. <<>> \in Texts
  BY DEF Texts
<1>5. ~(\E j \in Len(q) + 1 .. Len(q) : IsWildcard(q[j]))
  BY <1>1
<1> QED BY <1>1, <1>2, <1>3, <1>4, <1>5 DEF Reading

LEMMA PathStarts ==
    ASSUME NEW s, NEW q \in Seq(Token), Part(q, 0, Len(q), ".", TRUE)
    PROVE  Len(q) \in Nat /\ PathFrom(s, q, <<>>, NoWild, 0, Len(q))
<1>1. Reading(s, q, <<>>, NoWild, 0, Len(q), "/", FALSE)
  BY NothingRead
<1> DEFINE m == Len(q)
<1>2. m \in Nat /\ m \in 0 .. m /\ ~(m < m)
  OBVIOUS
<1>3. Part(q, 0, m, ".", TRUE) /\ m = Len(q)
  OBVIOUS
<1> HIDE DEF m
<1>4. PathFrom(s, q, <<>>, NoWild, 0, m)
  BY <1>1, <1>2, <1>3, Zenon DEF PathFrom
<1> QED BY <1>2, <1>4 DEF m

LEMMA FailKeeps ==
    ASSUME Inv, NEW e, Real(e), Fail(e)
    PROVE  Inv'
<1>1. /\ phase' = "done" /\ err' # None /\ raw' = raw /\ tokens' = tokens
      /\ optCatchAll' = optCatchAll /\ paramCount' = paramCount
  BY RealIsNotNone DEF Fail
<1>2. ~Accepted'
  BY <1>1 DEF Accepted, None, PatternError
<1>3. Counted'
  BY <1>1 DEF Inv, Counted
<1> QED BY <1>1, <1>2, <1>3 DEF Inv

LEMMA BraceIsToken ==
    ASSUME NEW isWild \in BOOLEAN, NEW name \in Texts, NEW expr \in Texts, NEW nested \in BOOLEAN
    PROVE  LET e == Brace(IF isWild THEN "wildcard" ELSE "param", name, expr, nested)
           IN  /\ e \in Token /\ ~IsStatic(e) /\ (IsWildcard(e) <=> isWild)
               /\ e.nested = nested /\ e.regexp = expr
BY DEF Brace, Token, IsStatic, IsWildcard

LEMMA BraceFaultProperties ==
    ASSUME NEW s, NEW b, Fault(b.err), NEW isWild, NEW k
    PROVE  /\ Fault(BraceFault(s, b, isWild, k))
           /\ BraceFault(s, b, isWild, k) = None
                => ~Crowded(isWild) /\ b.err = None /\ ~(paramCount + 1 > MaxParams)
<1>1. CASE Crowded(isWild)
  BY <1>1, ErrorIsReal DEF BraceFault, Fault
<1>2. CASE ~Crowded(isWild) /\ b.err # None
  <2>1. BraceFault(s, b, isWild, k) = Shift(b.err, k)
    BY <1>2 DEF BraceFault
  <2> QED BY <1>2, <2>1, ShiftIsFault
<1>3. CASE ~Crowded(isWild) /\ b.err = None
  BY <1>3, ErrorIsReal DEF BraceFault, Fault
<1> QED BY <1>1, <1>2, <1>3

\* A part that is complete, and the tokens in it, are not touched again.
LEMMA PrefixIsKept ==
    ASSUME NEW q \in Seq(Token), NEW e \in Token, NEW t \in Texts, NEW other \in BOOLEAN,
           NEW lo \in Nat, NEW hi \in 0 .. Len(q), NEW delim, NEW host, Part(q, lo, hi, delim, host)
    PROVE  /\ Part(Flush(q, t, other), lo, hi, delim, host)
           /\ Part(Append(Flush(q, t, other), e), lo, hi, delim, host)
<1> DEFINE f == Flush(q, t, other)
<1>1. f \in Seq(Token) /\ Len(f) >= Len(q) /\ Part(f, lo, hi, delim, host)
  <2>1. CASE t = <<>>
    BY <2>1 DEF Flush
  <2>2. CASE t # <<>>
    <3>1. f = Append(q, Static(t, other)) /\ Static(t, other) \in Token
      BY <2>2, StaticIsToken DEF Flush
    <3>2. Part(Append(q, Static(t, other)), lo, hi, delim, host)
      BY <3>1, PartIsKept
    <3>3. Append(q, Static(t, other)) \in Seq(Token) /\ Len(Append(q, Static(t, other))) = Len(q) + 1
      BY <3>1, AppendParts
    <3> QED BY <3>1, <3>2, <3>3
  <2> QED BY <2>1, <2>2
<1> HIDE DEF f
<1>2. hi \in 0 .. Len(f)
  BY <1>1
<1> QED BY <1>1, <1>2, PartIsKept DEF f

\* What both loops do with a segment in braces.
LEMMA TakeBraceReads ==
    ASSUME NEW s, NEW lo, NEW delim, NEW host \in BOOLEAN, NEW isWild \in BOOLEAN, NEW k \in Nat,
           NEW b, b.name \in Texts, b.regexp \in Texts, b.n \in Nat,
           Reading(s, tokens, sb, wild, i, lo, delim, host), At(s, i) \notin {delim, "end"},
           At(s, k + b.n) \in {delim, "end"}, ~Crowded(isWild),
           Counted, ~(paramCount + 1 > MaxParams), TakeBrace(b, isWild, k, host)
    PROVE  /\ Reading(s, tokens', sb', wild', i', lo, delim, host)
           /\ tokens' \in Seq(Token) /\ Counted' /\ sb' = <<>> /\ i' = k + b.n
           /\ \E e \in Token : /\ tokens' = Append(Flush(tokens, sb, host), e)
                               /\ (IsWildcard(e) <=> isWild) /\ e.regexp = b.regexp
<1>1. tokens \in Seq(Token) /\ sb \in Texts /\ wild \in Wilds /\ i \in Nat /\ lo \in 0 .. Len(tokens)
  BY DEF Reading
<1>2. wild.sawWild \in BOOLEAN /\ wild.prevWild \in BOOLEAN /\ wild.staticSinceWild \in Nat
  BY <1>1 DEF Wilds
<1> DEFINE nested == isWild /\ wild.sawWild
           e == Brace(IF isWild THEN "wildcard" ELSE "param", b.name, b.regexp, nested)
           v == [prevWild |-> isWild, sawWild |-> wild.sawWild \/ isWild,
                 staticSinceWild |-> IF isWild THEN 0 ELSE wild.staticSinceWild]
<1>3. /\ tokens' = Append(Flush(tokens, sb, host), e) /\ sb' = <<>> /\ wild' = v
      /\ paramCount' = paramCount + 1 /\ i' = k + b.n
  BY DEF TakeBrace, Flushed, Flush
<1>4. v \in Wilds /\ v.prevWild = isWild /\ v.sawWild = (wild.sawWild \/ isWild)
      /\ (isWild => v.staticSinceWild = 0)
  BY <1>2 DEF Wilds
<1>5. /\ e \in Token /\ ~IsStatic(e) /\ (IsWildcard(e) <=> isWild) /\ e.nested = nested
      /\ e.regexp = b.regexp
  <2>1. nested \in BOOLEAN
    BY <1>2
  <2> HIDE DEF nested
  <2> QED BY <2>1, BraceIsToken
<1>6. e.nested <=> IsWildcard(e) /\ wild.sawWild
  BY <1>5
<1>7. ~(IsWildcard(e) /\ wild.prevWild /\ wild.staticSinceWild <= 1)
  BY <1>5 DEF Crowded
<1> HIDE DEF e, v, nested
<1>8. k + b.n \in Nat
  OBVIOUS
<1>9. /\ v.prevWild <=> IsWildcard(e)
      /\ v.sawWild <=> wild.sawWild \/ IsWildcard(e)
      /\ v.prevWild => v.staticSinceWild = 0
  BY <1>4, <1>5
<1>10. Reading(s, Append(Flush(tokens, sb, host), e), <<>>, v, k + b.n, lo, delim, host)
  BY <1>4, <1>5, <1>6, <1>7, <1>8, <1>9, ReadBrace
<1>11. Counted'
  <2>1. /\ Cardinality(Braces(Append(Flush(tokens, sb, host), e))) = Cardinality(Braces(tokens)) + 1
        /\ Cardinality(Braces(tokens)) \in Nat
    BY <1>1, <1>5, BracesCounted
  <2>2. MaxParams \in Nat
    BY LimitsAssumption
  <2> QED BY <1>3, <2>1, <2>2 DEF Counted
<1>12. tokens' \in Seq(Token)
  BY <1>3, <1>10 DEF Reading
<1> QED BY <1>3, <1>5, <1>10, <1>11, <1>12

-----------------------------------------------------------------------------
(* The steps *)

LEMMA PartsStay ==
    ASSUME raw' = raw
    PROVE  EndHost' = EndHost /\ Hostname' = Hostname /\ Path' = Path
BY DEF EndHost, Hostname, Path

LEMMA SegmentIsText ==
    ASSUME NEW s \in Texts, NEW k \in Nat, At(s, k) # "end"
    PROVE  k < Len(s) /\ Cut(s, k, Len(s)) \in Texts /\ Cut(s, k, Len(s)) # <<>>
<1>1. k < Len(s) /\ Len(s) \in Nat
  BY TextParts DEF At
<1>2. Cut(s, k, Len(s)) \in Texts /\ Len(Cut(s, k, Len(s))) = Len(s) - k
  BY <1>1, CutIsText
<1> QED BY <1>1, <1>2

LEMMA SplitPatternKeeps ==
    ASSUME Inv, SplitPattern
    PROVE  Inv'
<1>1. raw \in Texts /\ Fresh /\ phase = "start"
  BY DEF Inv, SplitPattern
<1>2. CASE EndHost = -1
  <2>1. PICK r \in {"empty", "syntax"} : Fail(PatternError(r, Len(raw), Len(raw), "missing slash"))
    BY <1>2 DEF SplitPattern
  <2> QED BY <2>1, ErrorIsReal, FailKeeps
<1>3. CASE EndHost # -1
  <2>1. /\ phase' \in {"host", "path"} /\ raw' = raw /\ tokens' = tokens /\ i' = i /\ sb' = sb
        /\ wild' = wild /\ optCatchAll' = optCatchAll /\ paramCount' = paramCount
    BY <1>3 DEF SplitPattern
  <2>2. EndHost' \in Nat /\ ~Accepted'
    BY <1>1, <1>3, <2>1, RawParts, PartsStay DEF Accepted
  <2>3. /\ i' = 0 /\ sb' = <<>> /\ tokens' = <<>> /\ wild' = NoWild /\ ~optCatchAll'
        /\ tokens' \in Seq(Token) /\ Len(<<>>) = 0
    BY <1>1, <2>1 DEF Fresh
  <2>4. HostRead'
    <3>1. Reading(Hostname', tokens', <<>>, NoWild, 0, Len(tokens'), ".", TRUE)
      BY <2>3, NothingRead
    <3> QED BY <2>2, <2>3, <3>1 DEF HostRead
  <2>5. PathRead'
    <3>1. Part(tokens', 0, Len(tokens'), ".", TRUE)
      BY <2>3 DEF Part
    <3>2. Len(tokens') \in Nat /\ PathFrom(Path', tokens', <<>>, NoWild, 0, Len(tokens'))
      BY <2>3, <3>1, PathStarts
    <3> QED BY <2>2, <2>3, <3>2 DEF PathRead
  <2>6. Counted'
    BY <2>1 DEF Inv, Counted
  <2> QED BY <1>1, <2>1, <2>2, <2>3, <2>4, <2>5, <2>6 DEF Inv
<1> QED BY <1>2, <1>3

LEMMA HostBraceFaultProperties ==
    ASSUME NEW b, Fault(b.err), NEW isWild, NEW k
    PROVE  /\ Fault(HostBraceFault(b, isWild, k))
           /\ HostBraceFault(b, isWild, k) = None
                => /\ BraceFault(Hostname, b, isWild, k) = None
                   /\ At(Hostname, k + b.n) \in {".", "end"}
<1> DEFINE f == BraceFault(Hostname, b, isWild, k)
<1>1. Fault(f)
  BY BraceFaultProperties
<1> HIDE DEF f
<1>2. CASE f # None
  BY <1>1, <1>2 DEF HostBraceFault, f
<1>3. CASE f = None
  BY <1>3, ErrorIsReal DEF HostBraceFault, f, Fault
<1> QED BY <1>2, <1>3 DEF f

\* A segment in braces of the hostname, its brace at offset k.
LEMMA ReadHostBraceKeeps ==
    ASSUME Inv, phase = "host", NEW isWild \in BOOLEAN, NEW k \in Nat, At(Hostname, k) = "{",
           At(Hostname, i) \in {"{", "+"},
           ReadHostBrace(isWild, k, ParseBrace(Cut(Hostname, k, Len(Hostname)), ".", FALSE))
    PROVE  Inv'
<1> DEFINE b == ParseBrace(Cut(Hostname, k, Len(Hostname)), ".", FALSE)
<1>1. raw \in Texts /\ HostRead /\ Counted /\ tokens \in Seq(Token)
  BY DEF Inv
<1>2. Hostname \in Texts
  BY <1>1, RawParts DEF HostRead
<1>3. b.name \in Texts /\ b.regexp \in Texts /\ b.n \in Nat /\ Fault(b.err)
  <2>1. Cut(Hostname, k, Len(Hostname)) \in Texts /\ Cut(Hostname, k, Len(Hostname)) # <<>>
    BY <1>2, SegmentIsText
  <2> QED BY <2>1, ParseBraceProperties
<1>4. ReadHostBrace(isWild, k, b)
  OBVIOUS
<1> HIDE DEF b
<1>5. CASE HostBraceFault(b, isWild, k) # None
  <2>1. Fail(HostBraceFault(b, isWild, k)) /\ Real(HostBraceFault(b, isWild, k))
    BY <1>3, <1>4, <1>5, HostBraceFaultProperties DEF ReadHostBrace, Fault
  <2> QED BY <2>1, FailKeeps
<1>6. CASE HostBraceFault(b, isWild, k) = None
  <2>1. /\ TakeBrace(b, isWild, k, TRUE) /\ raw' = raw /\ phase' = phase
        /\ optCatchAll' = optCatchAll
    BY <1>4, <1>6 DEF ReadHostBrace
  <2>2. /\ At(Hostname, k + b.n) \in {".", "end"} /\ ~Crowded(isWild)
        /\ ~(paramCount + 1 > MaxParams)
    BY <1>3, <1>6, HostBraceFaultProperties, BraceFaultProperties
  <2>3. Reading(Hostname, tokens, sb, wild, i, 0, ".", TRUE) /\ At(Hostname, i) \notin {".", "end"}
    BY <1>1 DEF HostRead
  <2>4. Reading(Hostname, tokens', sb', wild', i', 0, ".", TRUE) /\ tokens' \in Seq(Token) /\ Counted'
    BY <1>1, <1>3, <2>1, <2>2, <2>3, TakeBraceReads
  <2>5. HostRead'
    BY <1>1, <2>1, <2>4, PartsStay DEF HostRead
  <2> QED BY <1>1, <2>1, <2>4, <2>5 DEF Inv, Accepted
<1> QED BY <1>5, <1>6

LEMMA HostBraceKeeps ==
    ASSUME Inv, HostBrace
    PROVE  Inv'
<1>1. i \in Nat
  BY DEF Inv, HostBrace, HostRead, Reading
<1> QED BY <1>1, ReadHostBraceKeeps DEF HostBrace

LEMMA HostPlusKeeps ==
    ASSUME Inv, HostPlus
    PROVE  Inv'
<1>1. i \in Nat
  BY DEF Inv, HostPlus, HostRead, Reading
<1>2. CASE At(Hostname, i + 1) # "{"
  BY <1>2, ErrorIsReal, FailKeeps DEF HostPlus
<1>3. CASE At(Hostname, i + 1) = "{"
  <2>1. i + 1 \in Nat
    BY <1>1
  <2> QED BY <1>3, <2>1, ReadHostBraceKeeps DEF HostPlus
<1> QED BY <1>2, <1>3

LEMMA HostStarKeeps ==
    ASSUME Inv, HostStar
    PROVE  Inv'
<1>1. \E a, b, h : Fail(PatternError("syntax", a, b, h))
  BY DEF HostStar
<1> QED BY <1>1, ErrorIsReal, FailKeeps

LEMMA LabelIsFault ==
    ASSUME NEW c PROVE Fault(LabelFault(c))
<1>1. \A r \in {"syntax", "constraint"} : \A a, b, h : Fault(PatternError(r, a, b, h))
  BY ErrorIsReal DEF Fault
<1>2. Fault(None)
  BY DEF Fault
<1> HIDE DEF Fault
<1>3. CASE IsLower(c) \/ c = "_" \/ IsDigit(c)
  BY <1>1, <1>2, <1>3 DEF LabelFault
<1>4. CASE ~(IsLower(c) \/ c = "_" \/ IsDigit(c))
  BY <1>1, <1>2, <1>4 DEF LabelFault
<1> QED BY <1>3, <1>4

LEMMA HostByteKeeps ==
    ASSUME Inv, HostByte
    PROVE  Inv'
<1> DEFINE c == At(Hostname, i)
<1>1. raw \in Texts /\ HostRead /\ Counted /\ phase = "host" /\ c # "end" /\ i \in Nat
  BY DEF Inv, HostByte, HostRead, Reading
<1>2. CASE LabelFault(c) # None
  <2>1. Fail(LabelFault(c)) /\ Real(LabelFault(c))
    BY <1>2, LabelIsFault DEF HostByte, Fault
  <2> QED BY <2>1, FailKeeps
<1>3. CASE LabelFault(c) = None
  <2>1. /\ Take(Hostname, 1) /\ raw' = raw /\ phase' = phase /\ tokens' = tokens
        /\ paramCount' = paramCount /\ optCatchAll' = optCatchAll
    BY <1>3 DEF HostByte
  <2>2. Hostname \in Texts
    BY <1>1, RawParts DEF HostRead
  <2>3. i + 1 <= Len(Hostname) /\ 1 \in Nat \ {0}
    BY <1>1, <2>2, SegmentIsText, TextParts
  <2>4. Reading(Hostname, tokens', sb', wild', i', 0, ".", TRUE)
    BY <1>1, <2>1, <2>2, <2>3, ReadStatic DEF HostRead, Take
  <2>5. HostRead'
    BY <1>1, <2>1, <2>4, PartsStay DEF HostRead
  <2>6. Counted'
    BY <1>1, <2>1 DEF Counted
  <2> QED BY <1>1, <2>1, <2>5, <2>6 DEF Inv, Accepted
<1> QED BY <1>2, <1>3

LEMMA HostIsFault == Fault(HostFault)
BY ErrorIsReal DEF HostFault, Fault

LEMMA HostEndKeeps ==
    ASSUME Inv, HostEnd
    PROVE  Inv'
<1>1. raw \in Texts /\ HostRead /\ Counted /\ phase = "host" /\ tokens \in Seq(Token) /\ sb \in Texts
  BY DEF Inv, HostEnd, HostRead, Reading
<1>2. CASE HostFault # None
  <2>1. Fail(HostFault) /\ Real(HostFault)
    BY <1>2, HostIsFault DEF HostEnd, Fault
  <2> QED BY <2>1, FailKeeps
<1>3. CASE HostFault = None
  <2>1. /\ tokens' = Flush(tokens, sb, TRUE) /\ phase' = "path" /\ i' = 0 /\ sb' = <<>>
        /\ wild' = NoWild /\ raw' = raw /\ paramCount' = paramCount /\ optCatchAll' = optCatchAll
    BY <1>3 DEF HostEnd, Flushed, Flush
  <2>2. tokens' \in Seq(Token) /\ Part(tokens', 0, Len(tokens'), ".", TRUE)
    BY <1>1, <2>1, FlushedPart DEF HostRead
  <2>4. Len(tokens') \in Nat /\ PathFrom(Path', tokens', <<>>, NoWild, 0, Len(tokens'))
    BY <2>2, PathStarts
  <2>5. PathRead'
    BY <1>1, <2>1, <2>4, PartsStay DEF PathRead, HostRead
  <2>6. Counted'
    <3>1. Cardinality(Braces(tokens')) = Cardinality(Braces(tokens))
      BY <1>1, <2>1, StaticIsToken, BracesCounted
    <3> QED BY <1>1, <2>1, <3>1 DEF Counted
  <2> QED BY <1>1, <2>1, <2>2, <2>5, <2>6 DEF Inv, Accepted, HostRead
<1> QED BY <1>2, <1>3

\* Static text of the path.
LEMMA PathTakeKeeps ==
    ASSUME Inv, phase = "path", At(Path, i) # "end", NEW n \in Nat \ {0}, i + n <= Len(Path),
           Take(Path, n), UNCHANGED <<raw, phase, tokens, paramCount, optCatchAll>>
    PROVE  Inv'
<1>1. raw \in Texts /\ PathRead /\ Counted /\ EndHost \in Nat
  BY DEF Inv, PathRead
<1>2. Path \in Texts
  BY <1>1, RawParts
<1>3. PICK h \in Nat : PathFrom(Path, tokens, sb, wild, i, h)
  BY <1>1 DEF PathRead
<1>4. /\ sb' = sb \o Cut(Path, i, i + n) /\ wild' = [wild EXCEPT !.staticSinceWild = @ + n]
      /\ i' = i + n
  BY DEF Take
<1>5. Reading(Path, tokens, sb', wild', i', h, "/", FALSE) /\ sb' # <<>>
  BY <1>2, <1>3, <1>4, ReadStatic DEF PathFrom
<1>6. PathFrom(Path, tokens, sb', wild', i', h)
  BY <1>3, <1>5 DEF PathFrom
<1>7. PathRead'
  <2>1. ~optCatchAll' /\ Path' = Path /\ EndHost' \in Nat
    BY <1>1, PartsStay DEF PathRead
  <2> QED BY <1>6, <2>1 DEF PathRead
<1>8. Counted'
  BY <1>1 DEF Counted
<1> QED BY <1>1, <1>7, <1>8 DEF Inv, Accepted

LEMMA FailPathKeeps ==
    ASSUME Inv, NEW e, Real(e), FailPath(e)
    PROVE  Inv'
<1>1. Fault(Shift(e, EndHost)) /\ Shift(e, EndHost) # None
  BY ShiftIsFault, RealIsNotNone DEF Fault
<1> QED BY <1>1, FailKeeps DEF FailPath, Fault

LEMMA PathLiteralWildKeeps ==
    ASSUME Inv, PathLiteralWild
    PROVE  Inv'
<1>1. raw \in Texts /\ EndHost \in Nat /\ i \in Nat /\ At(Path, i) # "end"
  BY DEF Inv, PathLiteralWild, PathRead, PathFrom, Reading
<1>2. i + 1 <= Len(Path) /\ 1 \in Nat \ {0}
  BY <1>1, RawParts, SegmentIsText, TextParts
<1> QED BY <1>1, <1>2, PathTakeKeeps DEF PathLiteralWild

LEMMA EscapeFaultProperties ==
    ASSUME NEW hi, NEW lo
    PROVE  Fault(EscapeFault(hi, lo)) /\ (EscapeFault(hi, lo) = None => ~(i + 2 >= Len(Path)))
BY ErrorIsReal DEF EscapeFault, Fault

LEMMA PathEscapeKeeps ==
    ASSUME Inv, PathEscape
    PROVE  Inv'
<1> DEFINE e == EscapeFault(At(Path, i + 1), At(Path, i + 2))
<1>1. raw \in Texts /\ EndHost \in Nat /\ i \in Nat /\ At(Path, i) # "end" /\ phase = "path"
  BY DEF Inv, PathEscape, PathRead, PathFrom, Reading
<1>2. Fault(e) /\ (e = None => ~(i + 2 >= Len(Path)))
  BY EscapeFaultProperties
<1>3. /\ e # None => FailPath(e)
      /\ e = None => Take(Path, 3) /\ UNCHANGED <<raw, phase, tokens, paramCount, optCatchAll>>
  BY DEF PathEscape
<1> HIDE DEF e
<1>4. CASE e # None
  BY <1>2, <1>3, <1>4, FailPathKeeps DEF Fault
<1>5. CASE e = None
  <2>1. i + 3 <= Len(Path) /\ 3 \in Nat \ {0}
    BY <1>1, <1>2, <1>5, RawParts, TextParts
  <2> QED BY <1>1, <1>3, <1>5, <2>1, PathTakeKeeps
<1> QED BY <1>4, <1>5

LEMMA ByteIsFault ==
    ASSUME NEW c PROVE Fault(ByteFault(c))
<1>1. \A a, b, h : Fault(PatternError("syntax", a, b, h))
  BY ErrorIsReal DEF Fault
<1>2. Fault(None)
  BY DEF Fault
<1> HIDE DEF Fault
<1> QED BY <1>1, <1>2 DEF ByteFault

LEMMA PathByteKeeps ==
    ASSUME Inv, PathByte
    PROVE  Inv'
<1> DEFINE e == ByteFault(At(Path, i))
<1>1. raw \in Texts /\ EndHost \in Nat /\ i \in Nat /\ At(Path, i) # "end" /\ phase = "path"
  BY DEF Inv, PathByte, PathRead, PathFrom, Reading
<1>2. Fault(e)
  BY ByteIsFault
<1>3. /\ e # None => FailPath(e)
      /\ e = None => Take(Path, 1) /\ UNCHANGED <<raw, phase, tokens, paramCount, optCatchAll>>
  BY DEF PathByte
<1> HIDE DEF e
<1>4. CASE e # None
  BY <1>2, <1>3, <1>4, FailPathKeeps DEF Fault
<1>5. CASE e = None
  <2>1. i + 1 <= Len(Path) /\ 1 \in Nat \ {0}
    BY <1>1, RawParts, SegmentIsText, TextParts
  <2> QED BY <1>1, <1>3, <1>5, <2>1, PathTakeKeeps
<1> QED BY <1>4, <1>5

LEMMA OptionalSpanIsReal ==
    ASSUME NEW e, Real(e), NEW isOpt
    PROVE  Real(OptionalSpan(e, isOpt))
<1>1. CASE isOpt /\ e.reason = "regexp"
  <2>1. OptionalSpan(e, isOpt) = PatternError(e.reason, i, e.end, e.hint) /\ e.reason # ""
    BY <1>1 DEF OptionalSpan, Real, PatternError
  <2> QED BY <2>1, ErrorIsReal
<1>2. CASE ~(isOpt /\ e.reason = "regexp")
  BY <1>2 DEF OptionalSpan
<1> QED BY <1>1, <1>2

LEMMA PathBraceFaultProperties ==
    ASSUME NEW b, Fault(b.err), NEW isWild, NEW isOpt, NEW k
    PROVE  /\ Fault(PathBraceFault(b, isWild, isOpt, k))
           /\ PathBraceFault(b, isWild, isOpt, k) = None
                => /\ BraceFault(Path, b, isWild, k) = None
                   /\ At(Path, k + b.n) \in {"/", "end"}
                   /\ isOpt => At(Path, k + b.n) = "end"
<1> DEFINE f == BraceFault(Path, b, isWild, k)
<1>1. Fault(f)
  BY BraceFaultProperties
<1> HIDE DEF f
<1>2. CASE f # None
  <2>1. PathBraceFault(b, isWild, isOpt, k) = OptionalSpan(f, isOpt)
    BY <1>2 DEF PathBraceFault, f
  <2>2. Real(OptionalSpan(f, isOpt)) /\ OptionalSpan(f, isOpt) # None
    BY <1>1, <1>2, OptionalSpanIsReal, RealIsNotNone DEF Fault
  <2> QED BY <2>1, <2>2 DEF Fault
<1>3. CASE f = None
  BY <1>3, ErrorIsReal DEF PathBraceFault, f, Fault
<1> QED BY <1>2, <1>3 DEF f

Complete(f, q, t, h, host, other) ==
    /\ f \in Seq(Token) /\ Len(f) \in Nat /\ h + 1 \in 1 .. Len(f) /\ IsStatic(f[h + 1])
    /\ Part(f, 0, h, ".", other) /\ Part(f, h, Len(f), "/", host)
    /\ t = <<>> => f = q

\* The pending text of a part goes behind the h tokens in front of the part.
LEMMA PendingFlushes ==
    ASSUME NEW s, NEW q, NEW t, NEW w, NEW c, NEW h \in Nat, NEW host \in BOOLEAN,
           Reading(s, q, t, w, c, h, "/", host),
           NEW other, Part(q, 0, h, ".", other),
           h = Len(q) => t # <<>>, h < Len(q) => IsStatic(q[h + 1])
    PROVE  Complete(Flush(q, t, host), q, t, h, host, other)
<1> DEFINE f == Flush(q, t, host)
<1>1. h \in 0 .. Len(q) /\ q \in Seq(Token) /\ t \in Texts /\ Len(q) \in Nat
  BY DEF Reading
<1>2. /\ f \in Seq(Token) /\ Part(f, h, Len(f), "/", host)
      /\ \A k \in 1 .. Len(q) : f[k] = q[k]
      /\ t = <<>> => f = q
      /\ t # <<>> => Len(f) = Len(q) + 1 /\ f[Len(q) + 1] = Static(t, host)
  BY FlushedPart
<1> HIDE DEF f
<1>3. Static(t, host) \in Token /\ IsStatic(Static(t, host))
  BY <1>1, StaticIsToken
<1>4. Part(f, 0, h, ".", other)
  <2>1. 0 \in Nat
    OBVIOUS
  <2> QED BY <1>1, <1>3, <2>1, PrefixIsKept DEF f
<1>5. Len(f) \in Nat
  BY <1>2
<1>6. h + 1 \in 1 .. Len(f) /\ IsStatic(f[h + 1])
  <2>1. CASE h < Len(q)
    <3>1. IsStatic(q[h + 1]) /\ h + 1 \in 1 .. Len(q)
      BY <1>1, <2>1
    <3>2. f[h + 1] = q[h + 1] /\ (Len(f) = Len(q) \/ Len(f) = Len(q) + 1)
      BY <1>2, <3>1
    <3> QED BY <1>1, <3>1, <3>2
  <2>2. CASE h = Len(q)
    BY <1>1, <1>2, <1>3, <2>2
  <2> QED BY <1>1, <2>1, <2>2
<1> QED BY <1>2, <1>4, <1>5, <1>6 DEF Complete, f

LEMMA PathFlushes ==
    ASSUME NEW s, NEW q, NEW t, NEW w, NEW c, NEW h \in Nat, PathFrom(s, q, t, w, c, h),
           h = Len(q) => t # <<>>, NEW f, f = Flush(q, t, FALSE)
    PROVE  /\ f \in Seq(Token) /\ Len(f) \in Nat /\ h + 1 \in 1 .. Len(f) /\ IsStatic(f[h + 1])
           /\ Part(f, 0, h, ".", TRUE) /\ Part(f, h, Len(f), "/", FALSE)
           /\ t = <<>> => f = q
<1>1. /\ Reading(s, q, t, w, c, h, "/", FALSE) /\ Part(q, 0, h, ".", TRUE)
      /\ h < Len(q) => IsStatic(q[h + 1])
  BY Zenon DEF PathFrom
<1>2. FALSE \in BOOLEAN
  BY Zenon
<1>3. Complete(Flush(q, t, FALSE), q, t, h, FALSE, TRUE)
  BY <1>1, <1>2, PendingFlushes, Zenon
<1> QED BY <1>3, Zenon DEF Complete

\* A segment in braces of the path behind the h tokens of the hostname.
LEMMA PathBraceReads ==
    ASSUME raw \in Texts, EndHost \in Nat, Counted, tokens \in Seq(Token), NEW h \in Nat,
           PathFrom(Path, tokens, sb, wild, i, h), At(Path, i) \notin {"/", "end"},
           NEW isWild \in BOOLEAN, NEW k \in Nat, NEW b,
           b.name \in Texts, b.regexp \in Texts, b.n \in Nat, At(Path, k + b.n) \in {"/", "end"},
           ~Crowded(isWild), ~(paramCount + 1 > MaxParams), TakeBrace(b, isWild, k, FALSE)
    PROVE  /\ PathFrom(Path, tokens', sb', wild', i', h) /\ tokens' \in Seq(Token) /\ Counted'
           /\ sb' = <<>> /\ i' = k + b.n
           /\ isWild /\ b.regexp = <<>> => Optional(tokens')
<1> PICK host \in BOOLEAN : host = FALSE
  OBVIOUS
<1> DEFINE f == Flush(tokens, sb, host)
<1>1. Reading(Path, tokens, sb, wild, i, h, "/", host) /\ TakeBrace(b, isWild, k, host)
  BY DEF PathFrom
<1>2. /\ Reading(Path, tokens', sb', wild', i', h, "/", host)
      /\ tokens' \in Seq(Token) /\ Counted' /\ sb' = <<>> /\ i' = k + b.n
      /\ \E e \in Token : /\ tokens' = Append(f, e)
                          /\ (IsWildcard(e) <=> isWild) /\ e.regexp = b.regexp
  BY <1>1, TakeBraceReads
<1>3. PICK e \in Token : /\ tokens' = Append(f, e)
                         /\ (IsWildcard(e) <=> isWild) /\ e.regexp = b.regexp
  BY <1>2
<1>4. h = Len(tokens) => sb # <<>>
  BY RawParts DEF PathFrom
<1> HIDE DEF f
<1>5. /\ f \in Seq(Token) /\ Len(f) \in Nat /\ h + 1 \in 1 .. Len(f) /\ IsStatic(f[h + 1])
      /\ Part(f, 0, h, ".", TRUE)
  BY <1>4, PathFlushes DEF f
<1>6. /\ Len(tokens') = Len(f) + 1 /\ tokens'[Len(f) + 1] = e
      /\ \A j \in 1 .. Len(f) : tokens'[j] = f[j]
  BY <1>3, <1>5, AppendParts
<1>7. Part(tokens', 0, h, ".", TRUE)
  <2>1. 0 \in Nat /\ h \in 0 .. Len(f)
    BY <1>5
  <2> QED BY <1>3, <1>5, <2>1, PartIsKept
<1>8. h \in 0 .. Len(tokens') /\ h < Len(tokens') /\ h # Len(tokens') /\ IsStatic(tokens'[h + 1])
  BY <1>5, <1>6
<1>9. PathFrom(Path, tokens', sb', wild', i', h)
  BY <1>2, <1>7, <1>8, Zenon DEF PathFrom
<1>10. isWild /\ b.regexp = <<>> => Optional(tokens')
  <2>1. Len(tokens') > 0 /\ tokens'[Len(tokens')] = e
    BY <1>5, <1>6
  <2> QED BY <1>3, <2>1 DEF Optional
<1> QED BY <1>2, <1>9, <1>10

LEMMA ReadPathBraceKeeps ==
    ASSUME Inv, phase = "path", NEW isWild \in BOOLEAN, NEW isOpt \in BOOLEAN, isOpt => isWild,
           NEW k \in Nat, At(Path, k) = "{", At(Path, i) \in {"{", "+", "*"},
           ReadPathBrace(isWild, isOpt, k, ParseBrace(Cut(Path, k, Len(Path)), "/", isOpt))
    PROVE  Inv'
<1> DEFINE b == ParseBrace(Cut(Path, k, Len(Path)), "/", isOpt)
<1>1. raw \in Texts /\ PathRead /\ Counted /\ tokens \in Seq(Token) /\ EndHost \in Nat
  BY DEF Inv, PathRead
<1>2. Path \in Texts
  BY <1>1, RawParts
<1>3. /\ b.name \in Texts /\ b.regexp \in Texts /\ b.n \in Nat /\ Fault(b.err)
      /\ isOpt /\ b.err = None => b.regexp = <<>>
  <2>1. Cut(Path, k, Len(Path)) \in Texts /\ Cut(Path, k, Len(Path)) # <<>>
    BY <1>2, SegmentIsText
  <2> QED BY <2>1, ParseBraceProperties
<1>4. ReadPathBrace(isWild, isOpt, k, b)
  OBVIOUS
<1> HIDE DEF b
<1>5. CASE PathBraceFault(b, isWild, isOpt, k) # None
  <2>1. FailPath(PathBraceFault(b, isWild, isOpt, k)) /\ Real(PathBraceFault(b, isWild, isOpt, k))
    BY <1>3, <1>4, <1>5, PathBraceFaultProperties DEF ReadPathBrace, Fault
  <2> QED BY <2>1, FailPathKeeps
<1>6. CASE PathBraceFault(b, isWild, isOpt, k) = None
  <2>1. /\ TakeBrace(b, isWild, k, FALSE) /\ raw' = raw /\ phase' = phase
        /\ optCatchAll' = (optCatchAll \/ isOpt)
    BY <1>4, <1>6 DEF ReadPathBrace
  <2>2. /\ BraceFault(Path, b, isWild, k) = None /\ At(Path, k + b.n) \in {"/", "end"}
        /\ isOpt => At(Path, k + b.n) = "end"
    BY <1>3, <1>6, PathBraceFaultProperties
  <2>3. ~Crowded(isWild) /\ b.err = None /\ ~(paramCount + 1 > MaxParams)
    BY <1>3, <2>2, BraceFaultProperties
  <2>4. PICK h \in Nat : PathFrom(Path, tokens, sb, wild, i, h)
    BY <1>1 DEF PathRead
  <2>5. At(Path, i) \notin {"/", "end"} /\ ~optCatchAll
    BY <1>1 DEF PathRead
  <2>6. /\ PathFrom(Path, tokens', sb', wild', i', h) /\ tokens' \in Seq(Token) /\ Counted'
        /\ sb' = <<>> /\ i' = k + b.n
        /\ isWild /\ b.regexp = <<>> => Optional(tokens')
    BY <1>1, <1>3, <2>1, <2>2, <2>3, <2>4, <2>5, PathBraceReads
  <2>7. Path' = Path /\ EndHost' = EndHost
    BY <2>1, PartsStay
  <2>8. optCatchAll' => sb' = <<>> /\ At(Path', i') = "end" /\ Optional(tokens')
    BY <1>3, <2>1, <2>2, <2>3, <2>5, <2>6, <2>7
  <2>9. PathRead'
    BY <1>1, <2>6, <2>7, <2>8 DEF PathRead, Optional
  <2>10. optCatchAll' \in BOOLEAN
    BY <2>1, <2>5
  <2> QED BY <1>1, <2>1, <2>6, <2>9, <2>10 DEF Inv, Accepted
<1> QED BY <1>5, <1>6

LEMMA PathBraceKeeps ==
    ASSUME Inv, PathBrace
    PROVE  Inv'
<1>1. i \in Nat
  BY DEF Inv, PathBrace, PathRead, PathFrom, Reading
<1> QED BY <1>1, ReadPathBraceKeeps DEF PathBrace

LEMMA PathWildcardKeeps ==
    ASSUME Inv, PathWildcard
    PROVE  Inv'
<1> DEFINE isOpt == At(Path, i) = "*"
<1>1. i \in Nat
  BY DEF Inv, PathWildcard, PathRead, PathFrom, Reading
<1>2. /\ ReadPathBrace(TRUE, isOpt, i + 1, ParseBrace(Cut(Path, i + 1, Len(Path)), "/", isOpt))
      /\ isOpt \in BOOLEAN /\ phase = "path" /\ At(Path, i) \in {"+", "*"} /\ At(Path, i + 1) = "{"
  BY DEF PathWildcard
<1> HIDE DEF isOpt
<1>3. i + 1 \in Nat
  BY <1>1
<1> QED BY <1>2, <1>3, ReadPathBraceKeeps

LEMMA PathEndKeeps ==
    ASSUME Inv, PathEnd
    PROVE  Inv'
<1>1. raw \in Texts /\ PathRead /\ Counted /\ EndHost \in Nat /\ tokens \in Seq(Token) /\ i = Len(Path)
  BY DEF Inv, PathEnd, PathRead
<1>2. PICK h \in Nat : PathFrom(Path, tokens, sb, wild, i, h)
  BY <1>1 DEF PathRead
<1> DEFINE f == Flush(tokens, sb, FALSE)
<1>3. /\ tokens' = f /\ phase' = "done"
      /\ UNCHANGED <<raw, paramCount, optCatchAll>>
  BY DEF PathEnd, Flushed, Flush
<1>4. h = Len(tokens) => sb # <<>>
  <2>1. At(Path, 0) = "/" /\ Path \in Texts
    BY <1>1, RawParts
  <2>2. Len(Path) # 0
    BY <2>1 DEF At
  <2> QED BY <1>1, <1>2, <2>2 DEF PathFrom
<1>5. /\ f \in Seq(Token) /\ Len(f) \in Nat /\ h + 1 \in 1 .. Len(f) /\ IsStatic(f[h + 1])
      /\ Part(f, 0, h, ".", TRUE) /\ Part(f, h, Len(f), "/", FALSE)
      /\ sb = <<>> => f = tokens
  BY <1>2, <1>4, PathFlushes
<1>6. sb \in Texts
  BY <1>2 DEF PathFrom, Reading
<1>7. Cardinality(Braces(f)) = Cardinality(Braces(tokens))
  <2> PICK host \in BOOLEAN : host = FALSE
    OBVIOUS
  <2>1. Cardinality(Braces(Flush(tokens, sb, host))) = Cardinality(Braces(tokens))
    BY <1>1, <1>6, StaticIsToken, BracesCounted
  <2> QED BY <2>1
<1> HIDE DEF f
<1>10. Whole(f, h)
  <2>1. h \in 0 .. Len(f) - 1
    BY <1>5
  <2> QED BY <1>5, <2>1 DEF Whole
<1>11. optCatchAll' => Optional(tokens')
  BY <1>1, <1>3, <1>5 DEF PathRead, Optional
<1>12. Counted'
  BY <1>1, <1>3, <1>7 DEF Counted
<1> QED BY <1>1, <1>3, <1>5, <1>10, <1>11, <1>12 DEF Inv

-----------------------------------------------------------------------------
(* The invariant holds *)

LEMMA InvInit ==
    ASSUME Init PROVE Inv
<1>1. raw \in Texts
  BY RawsAssumption DEF Init, Texts
<1>2. Braces(<<>>) = {} /\ Cardinality({}) = 0
  BY FS_EmptySet DEF Braces
<1>3. Counted
  BY <1>2, LimitsAssumption DEF Init, Counted
<1>4. <<>> \in Seq(Token)
  OBVIOUS
<1> QED BY <1>1, <1>3, <1>4 DEF Init, Inv, Fresh, Accepted

LEMMA InvNext ==
    ASSUME Inv, [Next]_vars PROVE Inv'
<1>1. CASE UNCHANGED vars
  <2>1. /\ raw' = raw /\ tokens' = tokens /\ sb' = sb /\ wild' = wild /\ i' = i /\ phase' = phase
        /\ paramCount' = paramCount /\ optCatchAll' = optCatchAll /\ err' = err
    BY <1>1 DEF vars
  <2>2. EndHost' = EndHost /\ Hostname' = Hostname /\ Path' = Path
    BY <2>1, PartsStay
  <2>3. Counted' = Counted /\ Fresh' = Fresh /\ HostRead' = HostRead /\ Accepted' = Accepted
    BY <2>1, <2>2 DEF Counted, Fresh, HostRead, Accepted
  <2>4. PathRead' = PathRead
    BY <2>1, <2>2 DEF PathRead
  <2> QED BY <2>1, <2>3, <2>4 DEF Inv
<1>2. CASE Next
  BY <1>2, SplitPatternKeeps, HostBraceKeeps, HostPlusKeeps, HostStarKeeps, HostByteKeeps, HostEndKeeps,
     PathBraceKeeps, PathWildcardKeeps, PathLiteralWildKeeps, PathEscapeKeeps, PathByteKeeps,
     PathEndKeeps DEF Next
<1> QED BY <1>1, <1>2

LEMMA InvAlways == Spec => []Inv
BY InvInit, InvNext, PTL DEF Spec

-----------------------------------------------------------------------------
(* The tokens of an accepted pattern *)

LEMMA HostTokensAreTold ==
    ASSUME tokens \in Seq(Token), NEW h \in Nat, Whole(tokens, h)
    PROVE  HostTokens = h
<1> DEFINE T == {k \in DOMAIN tokens : tokens[k].typ = "static" /\ ~tokens[k].hsplit}
<1>1. DOMAIN tokens = 1 .. Len(tokens) /\ Len(tokens) \in Nat /\ h + 1 \in 1 .. Len(tokens)
  BY DEF Whole
<1>2. h + 1 \in T
  <2>1. tokens[h + 1].hsplit = FALSE
    BY <1>1 DEF Whole, Part
  <2> QED BY <1>1, <2>1 DEF Whole, IsStatic
<1>3. ASSUME NEW k \in T PROVE h + 1 <= k
  <2>1. k \in 1 .. h => tokens[k].hsplit = TRUE
    BY DEF Whole, Part, IsStatic
  <2> QED BY <1>1, <2>1
<1>4. T \subseteq Nat \ {0} /\ HostTokens = Offset(T)
  BY <1>1 DEF HostTokens
<1> HIDE DEF T
<1>5. Offset(T) \in Nat /\ Offset(T) + 1 \in T /\ Offset(T) + 1 <= h + 1
  BY <1>2, <1>4, OffsetProperties
<1>6. h + 1 <= Offset(T) + 1
  BY <1>3, <1>5
<1> QED BY <1>4, <1>5, <1>6

LEMMA WholeAlternates ==
    ASSUME tokens \in Seq(Token), NEW h \in Nat, Whole(tokens, h)
    PROVE  TokensAlternate
<1> DEFINE n == Len(tokens)
<1>1. HostTokens = h
  BY HostTokensAreTold
<1>2. n \in Nat /\ DOMAIN tokens = 1 .. n /\ h \in 0 .. n - 1
  BY DEF Whole
<1>3. Part(tokens, 0, h, ".", TRUE) /\ Part(tokens, h, n, "/", FALSE)
  BY DEF Whole
<1> HIDE DEF n
<1>4. ASSUME NEW k \in 1 .. n - 1, SamePart(k, k + 1)
      PROVE  IF IsBrace(k) THEN ~IsBrace(k + 1) /\ tokens[k + 1].value[1] = (IF k < HostTokens THEN "." ELSE "/")
             ELSE IsBrace(k + 1)
  <2>1. k \in 1 .. h - 1 \/ k \in h + 1 .. n - 1
    BY <1>1, <1>2, <1>4 DEF SamePart
  <2>2. CASE k \in 1 .. h - 1
    <3>1. k < HostTokens
      BY <1>1, <1>2, <2>2
    <3> QED BY <1>3, <2>2, <3>1 DEF Part, IsBrace, IsStatic
  <2>3. CASE k \in h + 1 .. n - 1
    <3>1. ~(k < HostTokens)
      BY <1>1, <1>2, <2>3
    <3> QED BY <1>3, <2>3, <3>1 DEF Part, IsBrace, IsStatic
  <2> QED BY <2>1, <2>2, <2>3
<1>5. ASSUME NEW k \in 1 .. n - 2, SamePart(k, k + 2), tokens[k].typ = "wildcard", tokens[k + 2].typ = "wildcard"
      PROVE  Len(tokens[k + 1].value) > 1
  <2>1. k \in 1 .. h - 2 \/ k \in h + 1 .. n - 2
    BY <1>1, <1>2, <1>5 DEF SamePart
  <2> QED BY <1>3, <1>5, <2>1 DEF Part, IsWildcard
<1>6. ASSUME NEW k \in DOMAIN tokens, ~IsBrace(k)
      PROVE  tokens[k].value # <<>> /\ tokens[k].hsplit = (k <= HostTokens)
  <2>1. CASE k \in 1 .. h
    <3>1. k <= HostTokens
      BY <1>1, <2>1
    <3>2. tokens[k].value # <<>> /\ tokens[k].hsplit = TRUE
      BY <1>3, <1>6, <2>1 DEF Part, IsBrace, IsStatic
    <3> QED BY <3>1, <3>2
  <2>2. CASE k \in h + 1 .. n
    <3>1. ~(k <= HostTokens)
      BY <1>1, <1>2, <2>2
    <3>2. tokens[k].value # <<>> /\ tokens[k].hsplit = FALSE
      BY <1>3, <1>6, <2>2 DEF Part, IsBrace, IsStatic
    <3>3. (k <= HostTokens) = FALSE
      BY <3>1
    <3> QED BY <3>2, <3>3, Zenon
  <2> QED BY <1>2, <2>1, <2>2
<1> QED BY <1>4, <1>5, <1>6 DEF TokensAlternate, n

LEMMA WholeTellsWildcards ==
    ASSUME tokens \in Seq(Token), NEW h \in Nat, Whole(tokens, h), optCatchAll => Optional(tokens)
    PROVE  WildcardsTold
<1> DEFINE n == Len(tokens)
<1>1. HostTokens = h
  BY HostTokensAreTold
<1>2. n \in Nat /\ DOMAIN tokens = 1 .. n /\ h \in 0 .. n - 1
  BY DEF Whole
<1>3. Part(tokens, 0, h, ".", TRUE) /\ Part(tokens, h, n, "/", FALSE)
  BY DEF Whole
<1> HIDE DEF n
<1>4. ASSUME NEW k \in DOMAIN tokens
      PROVE  tokens[k].nested <=> /\ tokens[k].typ = "wildcard"
                                  /\ \E j \in 1 .. k - 1 : SamePart(j, k) /\ tokens[j].typ = "wildcard"
  <2>1. CASE k \in 1 .. h
    <3>1. \A j \in 1 .. k - 1 : SamePart(j, k)
      BY <1>1, <1>2, <2>1 DEF SamePart
    <3>2. tokens[k].nested <=> IsWildcard(tokens[k]) /\ \E j \in 1 .. k - 1 : IsWildcard(tokens[j])
      BY <1>3, <2>1 DEF Part
    <3> QED BY <3>1, <3>2 DEF IsWildcard
  <2>2. CASE k \in h + 1 .. n
    <3>1. \A j \in 1 .. k - 1 : SamePart(j, k) <=> j \in h + 1 .. k - 1
      BY <1>1, <1>2, <2>2 DEF SamePart
    <3>2. tokens[k].nested <=> IsWildcard(tokens[k]) /\ \E j \in h + 1 .. k - 1 : IsWildcard(tokens[j])
      BY <1>3, <2>2 DEF Part
    <3>3. h + 1 .. k - 1 \subseteq 1 .. k - 1
      BY <1>2
    <3> QED BY <3>1, <3>2, <3>3 DEF IsWildcard
  <2> QED BY <1>2, <2>1, <2>2
<1>5. optCatchAll => Last(tokens).typ = "wildcard" /\ Last(tokens).regexp = <<>>
  BY DEF Optional, IsWildcard, Last
<1> QED BY <1>4, <1>5 DEF WildcardsTold

(* What parsePattern hands over is in shape, for every pattern and every      *)
(* router: in each part static text and braces take turns, the text behind a  *)
(* brace starts with the delimiter of the part, two wildcards have more than  *)
(* that between them, exactly the wildcards behind another one are marked as  *)
(* nested, an optional catch-all is the last token, and no more parameters    *)
(* than maxParams are counted, each of them once.                             *)
THEOREM TokensAreInShape ==
    Spec => []TokensInShape
<1>1. ASSUME Inv, Accepted PROVE TokensAlternate /\ WildcardsTold /\ ParamsCounted
  <2>1. tokens \in Seq(Token) /\ Counted
    BY <1>1 DEF Inv
  <2>2. PICK h \in Nat : Whole(tokens, h)
    BY <1>1 DEF Inv
  <2>3. optCatchAll => Optional(tokens)
    BY <1>1 DEF Inv
  <2>4. Braces(tokens) = {k \in DOMAIN tokens : IsBrace(k)}
    BY DEF Braces, IsBrace, IsStatic
  <2> QED BY <2>1, <2>2, <2>3, <2>4, WholeAlternates, WholeTellsWildcards DEF Counted, ParamsCounted
<1>2. Inv => TokensInShape
  BY <1>1 DEF TokensInShape
<1> QED BY <1>2, InvAlways, PTL
=============================================================================
