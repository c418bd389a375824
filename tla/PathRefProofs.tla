---------------------------- MODULE PathRefProofs ----------------------------
(***************************************************************************)
(* What path normalisation does to a path of any length: one slash stays    *)
(* for several, no dot segment stays, and what is normalised once is not    *)
(* changed again.                                                           *)
(*                                                                          *)
(* A recursive function and the order of a set of positions are reasoned    *)
(* about through the least element of a set of naturals, and what a pass    *)
(* keeps of a path through the increasing list of the positions it keeps.   *)
(***************************************************************************)
EXTENDS PathRef, NaturalsInduction, SequenceTheorems, FiniteSetTheorems, TLAPS

-----------------------------------------------------------------------------
(* Naturals *)

LEMMA LeastNatural ==
    ASSUME NEW T, T \subseteq Nat, T # {}
    PROVE  \E x \in T : \A y \in T : x <= y
<1> DEFINE R == OpToRel(<, Nat)
<1>1. IsWellFoundedOn(R, Nat)
  BY NatLessThanWellFounded, Zenon
<1>2. ASSUME NEW x \in Nat, NEW y \in Nat, ~(<<y, x>> \in R) PROVE x <= y
  BY <1>2 DEF OpToRel
<1> HIDE DEF R
<1>3. \E x \in T : \A y \in T : ~(<<y, x>> \in R)
  BY <1>1, WFMin
<1> QED BY <1>2, <1>3

\* Induction up to a bound, over a set instead of a predicate.
LEMMA UpTo ==
    ASSUME NEW N \in Nat, NEW S, 0 \in S, \A i \in 1 .. N : i - 1 \in S => i \in S
    PROVE  \A i \in 0 .. N : i \in S
<1> DEFINE T == {i \in 0 .. N : i \notin S}
<1> SUFFICES ASSUME T # {} PROVE FALSE
  OBVIOUS
<1>1. PICK x \in T : \A y \in T : x <= y
  <2>1. T \subseteq Nat
    OBVIOUS
  <2> HIDE DEF T
  <2> QED BY <2>1, LeastNatural
<1>2. x \in 1 .. N /\ x - 1 \in 0 .. N /\ x - 1 \notin T
  BY <1>1
<1> QED BY <1>1, <1>2

LEMMA GreatestNatural ==
    ASSUME NEW N \in Nat, NEW T, T \subseteq 0 .. N, T # {}
    PROVE  \E x \in T : \A y \in T : y <= x
<1> DEFINE D == {d \in 0 .. N : N - d \in T}
<1>1. D \subseteq Nat
  OBVIOUS
<1>2. ASSUME NEW y \in T PROVE N - y \in D /\ y \in Int
  <2>1. y \in 0 .. N
    OBVIOUS
  <2>2. N - y \in 0 .. N /\ N - (N - y) = y
    BY <2>1
  <2> QED BY <2>1, <2>2
<1>3. PICK d \in D : \A e \in D : d <= e
  <2>1. D # {}
    BY <1>2
  <2> HIDE DEF D
  <2> QED BY <1>1, <2>1, LeastNatural
<1>4. ASSUME NEW y \in T PROVE y <= N - d
  <2>1. d <= N - y /\ y \in Int /\ d \in Int
    BY <1>2, <1>3
  <2> QED BY <2>1
<1> QED BY <1>3, <1>4

-----------------------------------------------------------------------------
(* The positions a pass keeps *)

Increasing(s, m) == \A i, j \in 1 .. m : i < j => s[i] < s[j]

\* s lists the positions of K, smallest first.
Lists(s, m, K) ==
    /\ s \in [1 .. m -> Nat]
    /\ Increasing(s, m)
    /\ \A i \in 1 .. m : s[i] \in K
    /\ \A k \in K : \E i \in 1 .. m : s[i] = k

LEMMA ListCounts ==
    ASSUME NEW m \in Nat, NEW K, NEW s, Lists(s, m, K), NEW k \in 0 .. m
    PROVE  LET T == {j \in K : \E i \in 1 .. k : s[i] = j}
           IN  IsFiniteSet(T) /\ Cardinality(T) = k
<1> DEFINE T == {j \in K : \E i \in 1 .. k : s[i] = j}
           f == [i \in 1 .. k |-> s[i]]
<1>1. f \in [1 .. k -> T]
  BY DEF Lists
<1>2. ASSUME NEW a \in 1 .. k, NEW b \in 1 .. k, f[a] = f[b] PROVE a = b
  <2>1. a \in 1 .. m /\ b \in 1 .. m /\ s[a] = s[b]
    BY <1>2
  <2>2. s[a] \in Nat /\ s[b] \in Nat
    BY <2>1 DEF Lists
  <2>3. ~(a < b) /\ ~(b < a)
    BY <2>1, <2>2 DEF Lists, Increasing
  <2> QED BY <2>1, <2>3
<1>3. \A t \in T : \E i \in 1 .. k : f[i] = t
  OBVIOUS
<1> HIDE DEF f, T
<1>4. f \in Bijection(1 .. k, T)
  BY <1>1, <1>2, <1>3 DEF Bijection, Injection, Surjection, IsInjective
<1>5. ExistsBijection(1 .. k, T)
  BY <1>4 DEF ExistsBijection
<1>6. IsFiniteSet(1 .. k) /\ Cardinality(1 .. k) = k
  <2>1. k \in Int /\ 1 \in Int
    OBVIOUS
  <2>2. IsFiniteSet(1 .. k) /\ Cardinality(1 .. k) = IF 1 > k THEN 0 ELSE k - 1 + 1
    BY <2>1, FS_Interval
  <2> QED BY <2>2
<1>7. IsFiniteSet(T) /\ Cardinality(T) = k
  BY <1>5, <1>6, FS_Bijection
<1> QED BY <1>7 DEF T

LEMMA ListIsInOrder ==
    ASSUME NEW m \in Nat, NEW K, NEW s, Lists(s, m, K)
    PROVE  InOrder(K) = s
<1>1. ASSUME NEW k \in 1 .. m PROVE Cardinality({j \in K : j <= s[k]}) = k
  <2> DEFINE T == {j \in K : \E i \in 1 .. k : s[i] = j}
  <2>1. \A i \in 1 .. m : s[i] <= s[k] <=> i \in 1 .. k
    BY DEF Lists, Increasing
  <2>2. {j \in K : j <= s[k]} = T
    BY <2>1 DEF Lists
  <2>3. Cardinality(T) = k
    BY ListCounts
  <2> QED BY <2>2, <2>3
<1>2. Cardinality(K) = m
  <2> DEFINE T == {j \in K : \E i \in 1 .. m : s[i] = j}
  <2>1. K = T
    BY DEF Lists
  <2>2. Cardinality(T) = m
    BY ListCounts
  <2> QED BY <2>1, <2>2
<1>3. ASSUME NEW k \in 1 .. m
      PROVE  (CHOOSE i \in K : Cardinality({j \in K : j <= i}) = k) = s[k]
  <2>1. s[k] \in K /\ Cardinality({j \in K : j <= s[k]}) = k
    BY <1>1 DEF Lists
  <2>2. ASSUME NEW i \in K, Cardinality({j \in K : j <= i}) = k PROVE i = s[k]
    <3>1. PICK h \in 1 .. m : s[h] = i
      BY DEF Lists
    <3>2. Cardinality({j \in K : j <= s[h]}) = h
      BY <1>1
    <3> QED BY <2>2, <3>1, <3>2
  <2> QED BY <2>1, <2>2
<1>4. InOrder(K) = [k \in 1 .. m |-> CHOOSE i \in K : Cardinality({j \in K : j <= i}) = k]
  BY <1>2 DEF InOrder
<1>5. s = [k \in 1 .. m |-> s[k]]
  BY DEF Lists
<1> QED BY <1>3, <1>4, <1>5

\* out are the bytes of p at the positions of K, which s lists.
PickedBy(s, out, p, K) ==
    /\ Lists(s, Len(out), K)
    /\ \A k \in 1 .. Len(out) : s[k] \in 1 .. Len(p) /\ out[k] = p[s[k]]

Picks(out, p, K) == \E s \in [1 .. Len(out) -> Nat] : PickedBy(s, out, p, K)

LEMMA PicksIsPicked ==
    ASSUME NEW B, NEW p \in Seq(B), NEW out \in Seq(B), NEW K, Picks(out, p, K)
    PROVE  Picked(p, K) = out
<1>1. PICK s \in [1 .. Len(out) -> Nat] : PickedBy(s, out, p, K)
  BY DEF Picks
<1>2. Len(out) \in Nat /\ out = [k \in 1 .. Len(out) |-> out[k]]
  OBVIOUS
<1>3. InOrder(K) = s
  BY <1>1, <1>2, ListIsInOrder DEF PickedBy
<1>4. Picked(p, K) = [k \in 1 .. Len(out) |-> p[s[k]]]
  BY <1>3 DEF Picked
<1> QED BY <1>1, <1>2, <1>4 DEF PickedBy

LEMMA PicksNothing ==
    ASSUME NEW p PROVE Picks(<<>>, p, {})
<1>1. Len(<<>>) = 0 /\ 1 .. 0 = {}
  OBVIOUS
<1> DEFINE s == [i \in 1 .. 0 |-> 0]
<1>2. s \in [1 .. Len(<<>>) -> Nat]
  BY <1>1
<1> HIDE DEF s
<1> QED BY <1>1, <1>2 DEF Picks, PickedBy, Lists, Increasing

LEMMA PicksPrefix ==
    ASSUME NEW B, NEW p \in Seq(B), NEW m \in 0 .. Len(p)
    PROVE  Picks(SubSeq(p, 1, m), p, 1 .. m)
<1> DEFINE s == [i \in 1 .. m |-> i]
           out == SubSeq(p, 1, m)
<1>1. Len(out) = m /\ \A k \in 1 .. m : out[k] = p[k]
  OBVIOUS
<1>2. s \in [1 .. m -> Nat] /\ \A i \in 1 .. m : s[i] = i
  OBVIOUS
<1> HIDE DEF s, out
<1>3. Lists(s, m, 1 .. m)
  BY <1>2 DEF Lists, Increasing
<1>4. Picks(out, p, 1 .. m)
  BY <1>1, <1>2, <1>3 DEF Picks, PickedBy
<1> QED BY <1>4 DEF out

LEMMA PicksAppend ==
    ASSUME NEW B, NEW p \in Seq(B), NEW out \in Seq(B), NEW K, Picks(out, p, K),
           NEW m \in 1 .. Len(p), \A k \in K : k < m
    PROVE  Picks(Append(out, p[m]), p, K \cup {m})
<1>1. PICK s \in [1 .. Len(out) -> Nat] : PickedBy(s, out, p, K)
  BY DEF Picks
<1> DEFINE N == Len(out)
           t == [i \in 1 .. N + 1 |-> IF i <= N THEN s[i] ELSE m]
           res == Append(out, p[m])
<1>2. N \in Nat /\ Len(res) = N + 1 /\ res[N + 1] = p[m] /\ \A k \in 1 .. N : res[k] = out[k]
  OBVIOUS
<1>3. /\ t \in [1 .. N + 1 -> Nat]
      /\ t[N + 1] = m
      /\ \A i \in 1 .. N : t[i] = s[i]
  BY <1>2
<1>4. \A i \in 1 .. N : s[i] \in K /\ s[i] \in 1 .. Len(p) /\ out[i] = p[s[i]] /\ s[i] < m
  BY <1>1 DEF PickedBy, Lists
<1>5. \A i, j \in 1 .. N : i < j => s[i] < s[j]
  BY <1>1 DEF PickedBy, Lists, Increasing
<1>6. \A k \in K : \E i \in 1 .. N : s[i] = k
  BY <1>1 DEF PickedBy, Lists
<1> HIDE DEF N, t, res
<1>7. Increasing(t, N + 1)
  <2> SUFFICES ASSUME NEW i \in 1 .. N + 1, NEW j \in 1 .. N + 1, i < j PROVE t[i] < t[j]
    BY DEF Increasing
  <2>1. i \in 1 .. N
    BY <1>2
  <2>2. CASE j = N + 1
    BY <1>3, <1>4, <2>1, <2>2
  <2>3. CASE j # N + 1
    <3>1. j \in 1 .. N
      BY <1>2, <2>3
    <3> QED BY <1>3, <1>5, <2>1, <3>1
  <2> QED BY <2>2, <2>3
<1>8. Lists(t, N + 1, K \cup {m})
  <2>1. \A i \in 1 .. N + 1 : t[i] \in K \cup {m}
    BY <1>2, <1>3, <1>4
  <2>2. \A k \in K \cup {m} : \E i \in 1 .. N + 1 : t[i] = k
    BY <1>2, <1>3, <1>6
  <2> QED BY <1>3, <1>7, <2>1, <2>2 DEF Lists
<1>9. ASSUME NEW k \in 1 .. N + 1 PROVE t[k] \in 1 .. Len(p) /\ res[k] = p[t[k]]
  <2>1. CASE k = N + 1
    BY <1>2, <1>3, <2>1
  <2>2. CASE k # N + 1
    <3>1. k \in 1 .. N
      BY <1>2, <2>2
    <3> QED BY <1>2, <1>3, <1>4, <3>1
  <2> QED BY <2>1, <2>2
<1>10. Picks(res, p, K \cup {m})
  BY <1>2, <1>3, <1>8, <1>9 DEF Picks, PickedBy
<1> QED BY <1>10 DEF res

\* The first i bytes of what s picks.
LEMMA PicksCut ==
    ASSUME NEW B, NEW p \in Seq(B), NEW out \in Seq(B), NEW K,
           NEW s \in [1 .. Len(out) -> Nat], PickedBy(s, out, p, K), NEW i \in 0 .. Len(out)
    PROVE  Picks(SubSeq(out, 1, i), p, {k \in K : \E j \in 1 .. i : s[j] = k})
<1> DEFINE res == SubSeq(out, 1, i)
           T == {k \in K : \E j \in 1 .. i : s[j] = k}
           t == [j \in 1 .. i |-> s[j]]
<1>1. Len(res) = i /\ \A k \in 1 .. i : res[k] = out[k]
  OBVIOUS
<1>2. t \in [1 .. i -> Nat] /\ \A j \in 1 .. i : t[j] = s[j]
  OBVIOUS
<1>3. \A j \in 1 .. i : t[j] \in T
  BY DEF PickedBy, Lists
<1>4. \A k \in T : \E j \in 1 .. i : t[j] = k
  OBVIOUS
<1>5. ASSUME NEW j \in 1 .. i, NEW k \in 1 .. i, j < k PROVE t[j] < t[k]
  <2>1. j \in 1 .. Len(out) /\ k \in 1 .. Len(out)
    OBVIOUS
  <2>2. s[j] < s[k]
    BY <1>5, <2>1 DEF PickedBy, Lists, Increasing
  <2> QED BY <2>2
<1>6. \A k \in 1 .. i : t[k] \in 1 .. Len(p) /\ res[k] = p[t[k]]
  BY <1>1 DEF PickedBy
<1> HIDE DEF t, T, res
<1>7. Lists(t, i, T)
  BY <1>2, <1>3, <1>4, <1>5 DEF Lists, Increasing
<1>8. Picks(res, p, T)
  BY <1>1, <1>2, <1>6, <1>7 DEF Picks, PickedBy
<1> QED BY <1>8 DEF res, T

\* Two positions that are picked one after the other have none between them.
LEMMA PicksNext ==
    ASSUME NEW out, NEW p, NEW K, NEW s, PickedBy(s, out, p, K), Len(out) \in Nat,
           NEW k \in Nat, k > 0, k < Len(out), NEW h \in K, s[k] < h
    PROVE  s[k + 1] <= h
<1>1. PICK j \in 1 .. Len(out) : s[j] = h
  BY DEF PickedBy, Lists
<1>2. k \in 1 .. Len(out) /\ k + 1 \in 1 .. Len(out)
  OBVIOUS
<1>3. s[k] \in Nat /\ s[k + 1] \in Nat /\ h \in Nat
  BY <1>1, <1>2 DEF PickedBy, Lists
<1>4. ~(j <= k)
  BY <1>1, <1>2, <1>3 DEF PickedBy, Lists, Increasing
<1> QED BY <1>1, <1>2, <1>3, <1>4 DEF PickedBy, Lists, Increasing

\* Cut before its last slash, or at its start, a list loses what it holds from b on.
LEMMA PicksPop ==
    ASSUME NEW B, NEW p \in Seq(B), NEW out \in Seq(B), NEW K, Picks(out, p, K), NEW b \in K,
           \A k \in K : b < k => p[k] # Slash,
           p[b] = Slash \/ \A k \in K : b <= k,
           NEW i \in 0 .. Len(out), i < Len(out),
           \A k \in i + 2 .. Len(out) : out[k] # Slash, i > 0 => out[i + 1] = Slash
    PROVE  Picks(SubSeq(out, 1, i), p, {k \in K : k < b})
<1>1. PICK s \in [1 .. Len(out) -> Nat] : PickedBy(s, out, p, K)
  BY DEF Picks
<1>2. PICK j \in 1 .. Len(out) : s[j] = b
  BY <1>1 DEF PickedBy, Lists
<1>3. Len(out) \in Nat /\ i \in Nat /\ i + 1 \in 1 .. Len(out) /\ j \in Nat /\ b \in Nat
  BY <1>2
<1>4. /\ \A k \in 1 .. Len(out) : s[k] \in Nat /\ s[k] \in K /\ out[k] = p[s[k]]
      /\ \A h, k \in 1 .. Len(out) : h < k => s[h] < s[k]
      /\ \A k \in K : \E h \in 1 .. Len(out) : s[h] = k
  BY <1>1 DEF PickedBy, Lists, Increasing
<1>5. i > 0 => p[s[i + 1]] = Slash
  BY <1>3, <1>4
<1>6. ~(b < s[i + 1]) \/ i = 0
  BY <1>3, <1>4, <1>5
<1>7. j = i + 1
  <2>1. CASE p[b] = Slash
    <3>1. ~(i + 1 < j)
      BY <1>2, <1>3, <1>4, <2>1
    <3>2. ~(j < i + 1)
      BY <1>2, <1>3, <1>4, <1>6
    <3> QED BY <1>3, <3>1, <3>2
  <2>2. CASE p[b] # Slash
    <3>1. \A k \in K : b <= k
      BY <2>2
    <3>2. i = 0
      <4>1. b <= s[i + 1]
        BY <1>3, <1>4, <3>1
      <4> QED BY <1>3, <1>4, <1>5, <1>6, <2>2, <4>1
    <3>3. ~(1 < j)
      <4>1. 1 \in 1 .. Len(out) /\ b <= s[1]
        BY <1>3, <1>4, <3>1
      <4> QED BY <1>2, <1>3, <1>4, <4>1
    <3> QED BY <1>2, <1>3, <3>2, <3>3
  <2> QED BY <2>1, <2>2
<1>8. {k \in K : k < b} = {k \in K : \E h \in 1 .. i : s[h] = k}
  <2>1. \A h \in 1 .. Len(out) : s[h] < b <=> h \in 1 .. i
    <3> TAKE h \in 1 .. Len(out)
    <3>1. h < j => s[h] < b
      BY <1>2, <1>4
    <3>2. j < h => b < s[h]
      BY <1>2, <1>4
    <3>3. h \in Nat /\ h >= 1
      BY <1>3
    <3>4. s[h] \in Nat
      BY <1>4
    <3>5. h \in 1 .. i <=> h < j
      BY <1>3, <1>7, <3>3
    <3> QED BY <1>2, <1>3, <3>1, <3>2, <3>3, <3>4, <3>5
  <2>2. \A h \in 1 .. i : h \in 1 .. Len(out)
    BY <1>3
  <2> QED BY <1>4, <2>1, <2>2
<1>9. Picks(SubSeq(out, 1, i), p, {k \in K : \E h \in 1 .. i : s[h] = k})
  BY <1>1, PicksCut
<1> QED BY <1>8, <1>9

\* The positions of any set are picked.
LEMMA PickedPicks ==
    ASSUME NEW B, NEW p \in Seq(B), NEW K, K \subseteq 1 .. Len(p)
    PROVE  Picked(p, K) \in Seq(B) /\ Picks(Picked(p, K), p, K)
<1> DEFINE Part(m) == \E out \in Seq(B) : Picks(out, p, K \cap 1 .. m)
           S == {m \in 0 .. Len(p) : Part(m)}
<1>1. Len(p) \in Nat
  OBVIOUS
<1>2. Part(0)
  <2>1. K \cap 1 .. 0 = {} /\ <<>> \in Seq(B)
    OBVIOUS
  <2>2. Picks(<<>>, p, {})
    BY PicksNothing
  <2> QED BY <2>1, <2>2
<1>3. ASSUME NEW m \in 1 .. Len(p), Part(m - 1) PROVE Part(m)
  <2> DEFINE L == K \cap 1 .. m - 1
  <2>1. PICK out \in Seq(B) : Picks(out, p, L)
    BY <1>3
  <2>2. CASE m \in K
    <3>1. K \cap 1 .. m = L \cup {m}
      <4>1. 1 .. m = (1 .. m - 1) \cup {m}
        BY <1>1
      <4> QED BY <2>2, <4>1
    <3>2. \A k \in L : k < m
      BY <1>1
    <3>3. Append(out, p[m]) \in Seq(B)
      OBVIOUS
    <3>4. Picks(Append(out, p[m]), p, L \cup {m})
      <4> HIDE DEF L
      <4> QED BY <2>1, <3>2, PicksAppend
    <3> QED BY <3>1, <3>3, <3>4
  <2>3. CASE m \notin K
    <3>1. K \cap 1 .. m = L
      <4>1. 1 .. m = (1 .. m - 1) \cup {m}
        BY <1>1
      <4> QED BY <2>3, <4>1
    <3> QED BY <2>1, <3>1
  <2> QED BY <2>2, <2>3
<1>4. Part(Len(p))
  <2>1. 0 \in S
    BY <1>1, <1>2
  <2>2. \A m \in 1 .. Len(p) : m - 1 \in S => m \in S
    <3> SUFFICES ASSUME NEW m \in 1 .. Len(p), m - 1 \in S PROVE m \in S
      OBVIOUS
    <3>1. Part(m)
      <4> HIDE DEF Part
      <4> QED BY <1>3
    <3> HIDE DEF Part
    <3> QED BY <1>1, <3>1
  <2>3. \A i \in 0 .. Len(p) : i \in S
    <3> HIDE DEF S
    <3> QED BY <1>1, <2>1, <2>2, UpTo
  <2> HIDE DEF Part
  <2> QED BY <1>1, <2>3
<1>5. PICK out \in Seq(B) : Picks(out, p, K \cap 1 .. Len(p))
  BY <1>4
<1>6. K \cap 1 .. Len(p) = K
  OBVIOUS
<1>7. Picked(p, K) = out
  BY <1>5, <1>6, PicksIsPicked
<1> QED BY <1>5, <1>6, <1>7

LEMMA PickedAll ==
    ASSUME NEW B, NEW p \in Seq(B) PROVE Picked(p, 1 .. Len(p)) = p
<1>1. Len(p) \in 0 .. Len(p) /\ SubSeq(p, 1, Len(p)) = p
  OBVIOUS
<1>2. Picks(p, p, 1 .. Len(p))
  BY <1>1, PicksPrefix
<1> QED BY <1>2, PicksIsPicked

-----------------------------------------------------------------------------
(* MergeSlashes *)

\* The positions up to m that merging slashes keeps.
MergeKeeps(p, m) == {i \in 1 .. m : ~(i > 1 /\ p[i] = Slash /\ p[i - 1] = Slash)}

\* One byte more: it is kept unless it is a slash behind a slash.
LEMMA MergeStep ==
    ASSUME NEW p, NEW m \in Nat
    PROVE  MergeKeeps(p, m + 1) =
               IF m > 0 /\ p[m + 1] = Slash /\ p[m] = Slash THEN MergeKeeps(p, m)
                                                          ELSE MergeKeeps(p, m) \cup {m + 1}
<1>1. \A k : k \in 1 .. m + 1 <=> k \in 1 .. m \/ k = m + 1
  OBVIOUS
<1>2. m + 1 > 1 <=> m > 0
  OBVIOUS
<1>3. m + 1 - 1 = m
  OBVIOUS
<1> DEFINE Out(i) == i > 1 /\ p[i] = Slash /\ p[i - 1] = Slash
<1>4. \A i : i \in MergeKeeps(p, m + 1) <=> (i \in MergeKeeps(p, m) \/ (i = m + 1 /\ ~Out(m + 1)))
  <2> HIDE DEF Out
  <2>1. \A k : MergeKeeps(p, k) = {i \in 1 .. k : ~Out(i)}
    BY DEF MergeKeeps, Out
  <2> QED BY <1>1, <2>1
<1> QED BY <1>2, <1>3, <1>4

LEMMA MergedIsPicked ==
    ASSUME NEW B, NEW p \in Seq(B) PROVE Merged(p) = Picked(p, MergeKeeps(p, Len(p)))
<1>1. DOMAIN p = 1 .. Len(p)
  OBVIOUS
<1> QED BY <1>1 DEF Merged, MergeKeeps

\* A path without two slashes in a row is left alone.
THEOREM MergeLeavesSingle ==
    ASSUME NEW B, NEW p \in Seq(B), ~HasDoubleSlash(p)
    PROVE  Merged(p) = p
<1>1. MergeKeeps(p, Len(p)) = 1 .. Len(p)
  BY DEF MergeKeeps, HasDoubleSlash
<1> QED BY <1>1, MergedIsPicked, PickedAll

\* MergeSlashes leaves no two slashes in a row.
THEOREM MergeLeavesNoDouble ==
    ASSUME NEW B, NEW p \in Seq(B)
    PROVE  Merged(p) \in Seq(B) /\ ~HasDoubleSlash(Merged(p))
<1> DEFINE K == MergeKeeps(p, Len(p))
           out == Merged(p)
<1>1. K \subseteq 1 .. Len(p)
  BY DEF MergeKeeps
<1>2. out \in Seq(B) /\ Picks(out, p, K)
  <2> HIDE DEF K
  <2> QED BY <1>1, MergedIsPicked, PickedPicks DEF K
<1>3. PICK s \in [1 .. Len(out) -> Nat] : PickedBy(s, out, p, K)
  BY <1>2 DEF Picks
<1>4. Len(out) \in Nat /\ Len(p) \in Nat
  BY <1>2
<1>5. ASSUME NEW i \in 2 .. Len(out), out[i] = Slash, out[i - 1] = Slash PROVE FALSE
  <2>1. i \in 1 .. Len(out) /\ i - 1 \in 1 .. Len(out) /\ i - 1 + 1 = i /\ i - 1 \in Nat
        /\ i - 1 > 0 /\ i - 1 < Len(out)
    BY <1>4
  <2>2. /\ s[i] \in 1 .. Len(p) /\ s[i] \in K /\ p[s[i]] = Slash
        /\ s[i - 1] \in 1 .. Len(p) /\ s[i - 1] \in K /\ p[s[i - 1]] = Slash
        /\ s[i - 1] < s[i]
    BY <1>3, <1>5, <2>1 DEF PickedBy, Lists, Increasing
  <2> DEFINE h == s[i] - 1
  <2>3. h \in 1 .. Len(p) /\ p[h] # Slash /\ s[i - 1] <= h
    BY <2>2 DEF MergeKeeps
  <2>4. h \in K /\ s[i - 1] < h
    BY <2>2, <2>3 DEF MergeKeeps
  <2>5. s[i] <= h
    <3> HIDE DEF h, K, out
    <3> QED BY <1>3, <1>4, <2>1, <2>4, PicksNext
  <2> QED BY <2>2, <2>5
<1> QED BY <1>2, <1>5 DEF HasDoubleSlash

-----------------------------------------------------------------------------
(* Segments *)

LEMMA ElementEnds ==
    ASSUME NEW B, NEW p \in Seq(B), NEW i \in 0 .. Len(p)
    PROVE  /\ ElementEnd(p, i) \in i .. Len(p)
           /\ \A k \in i + 1 .. ElementEnd(p, i) : p[k] # Slash
           /\ ElementEnd(p, i) = Len(p) \/ p[ElementEnd(p, i) + 1] = Slash
<1> DEFINE End(j) == /\ \A k \in i + 1 .. j : p[k] # Slash
                     /\ j = Len(p) \/ p[j + 1] = Slash
<1>1. Len(p) \in Nat
  OBVIOUS
<1>2. \E j \in i .. Len(p) : End(j)
  <2>1. CASE \A k \in i + 1 .. Len(p) : p[k] # Slash
    <3>1. End(Len(p)) /\ Len(p) \in i .. Len(p)
      BY <1>1, <2>1
    <3> QED BY <3>1
  <2>2. CASE \E k \in i + 1 .. Len(p) : p[k] = Slash
    <3> DEFINE T == {k \in i + 1 .. Len(p) : p[k] = Slash}
    <3>1. T \subseteq Nat /\ T # {}
      BY <1>1, <2>2
    <3>2. PICK x \in T : \A y \in T : x <= y
      <4> HIDE DEF T
      <4> QED BY <3>1, LeastNatural
    <3>3. x - 1 \in i .. Len(p) /\ x - 1 + 1 = x
      BY <1>1
    <3>4. \A k \in i + 1 .. x - 1 : p[k] # Slash
      <4> SUFFICES ASSUME NEW k \in i + 1 .. x - 1, p[k] = Slash PROVE FALSE
        OBVIOUS
      <4>1. k \in T /\ k < x
        BY <1>1
      <4> QED BY <1>1, <3>2, <4>1
    <3>5. End(x - 1)
      BY <3>3, <3>4
    <3> HIDE DEF End
    <3> QED BY <3>3, <3>5
  <2> QED BY <2>1, <2>2
<1>3. ElementEnd(p, i) = CHOOSE j \in i .. Len(p) : End(j)
  BY DEF ElementEnd
<1> DEFINE e == ElementEnd(p, i)
<1>4. e \in i .. Len(p) /\ End(e)
  <2> HIDE DEF End
  <2> QED BY <1>2, <1>3
<1> QED BY <1>4

\* The element behind position i is "." or "..".
OneDot(p, i) == i < Len(p) /\ p[i + 1] = Dot /\ (i + 1 = Len(p) \/ p[i + 2] = Slash)
TwoDots(p, i) == /\ i + 1 < Len(p) /\ p[i + 1] = Dot /\ p[i + 2] = Dot
                 /\ i + 2 = Len(p) \/ p[i + 3] = Slash

LEMMA DotElement ==
    ASSUME NEW B, NEW p \in Seq(B), NEW i \in 0 .. Len(p)
    PROVE  /\ ElementAt(p, i) = <<Dot>> <=> OneDot(p, i)
           /\ ElementAt(p, i) = <<Dot, Dot>> <=> TwoDots(p, i)
           /\ OneDot(p, i) => ElementEnd(p, i) = i + 1
           /\ TwoDots(p, i) => ElementEnd(p, i) = i + 2
<1> DEFINE e == ElementEnd(p, i)
           x == ElementAt(p, i)
<1>1. Len(p) \in Nat /\ i \in Nat
  OBVIOUS
<1>2. e \in i .. Len(p) /\ (\A k \in i + 1 .. e : p[k] # Slash) /\ (e = Len(p) \/ p[e + 1] = Slash)
  BY ElementEnds
<1>3. x = SubSeq(p, i + 1, e)
  BY DEF ElementAt
<1> HIDE DEF e, x
<1>4. /\ x \in Seq(B) /\ Len(x) = e - i
      /\ \A k \in 1 .. e - i : x[k] = p[i + k]
  BY <1>1, <1>2, <1>3
<1>5. e \in Nat /\ i <= e /\ e <= Len(p)
  BY <1>1, <1>2
<1>6. x = <<Dot>> <=> e = i + 1 /\ p[i + 1] = Dot
  <2>1. x = <<Dot>> => e = i + 1 /\ p[i + 1] = Dot
    BY <1>1, <1>4, <1>5
  <2>2. ASSUME e = i + 1, p[i + 1] = Dot PROVE x = <<Dot>>
    <3>1. Len(x) = 1 /\ x[1] = Dot
      BY <1>1, <1>4, <1>5, <2>2
    <3>2. x = [k \in 1 .. 1 |-> x[k]]
      <4>1. x \in [1 .. 1 -> B]
        BY <1>4, <3>1, LenProperties
      <4> QED BY <4>1
    <3>3. \A k \in 1 .. 1 : x[k] = Dot
      BY <3>1
    <3>4. <<Dot>> = [k \in 1 .. 1 |-> Dot]
      OBVIOUS
    <3> QED BY <3>2, <3>3, <3>4
  <2> QED BY <2>1, <2>2
<1>7. x = <<Dot, Dot>> <=> e = i + 2 /\ p[i + 1] = Dot /\ p[i + 2] = Dot
  <2>1. x = <<Dot, Dot>> => e = i + 2 /\ p[i + 1] = Dot /\ p[i + 2] = Dot
    BY <1>1, <1>4, <1>5
  <2>2. ASSUME e = i + 2, p[i + 1] = Dot, p[i + 2] = Dot PROVE x = <<Dot, Dot>>
    <3>1. Len(x) = 2 /\ x[1] = Dot /\ x[2] = Dot
      BY <1>1, <1>4, <1>5, <2>2
    <3>2. x = [k \in 1 .. 2 |-> x[k]]
      <4>1. x \in [1 .. 2 -> B]
        BY <1>4, <3>1, LenProperties
      <4> QED BY <4>1
    <3>3. \A k \in 1 .. 2 : x[k] = Dot
      BY <3>1
    <3>4. <<Dot, Dot>> = [k \in 1 .. 2 |-> Dot]
      OBVIOUS
    <3> QED BY <3>2, <3>3, <3>4
  <2> QED BY <2>1, <2>2
<1>8. Dot # Slash
  BY DEF Dot, Slash
<1>9. OneDot(p, i) <=> e = i + 1 /\ p[i + 1] = Dot
  BY <1>1, <1>2, <1>5, <1>8 DEF OneDot
<1>10. TwoDots(p, i) <=> e = i + 2 /\ p[i + 1] = Dot /\ p[i + 2] = Dot
  BY <1>1, <1>2, <1>5, <1>8 DEF TwoDots
<1> QED BY <1>6, <1>7, <1>9, <1>10 DEF e, x

\* A dot segment is one at the start of the path or behind a slash.
LEMMA DotSegmentsAt ==
    ASSUME NEW B, NEW p \in Seq(B)
    PROVE  HasDotSegment(p) <=>
              \E i \in 0 .. Len(p) : (i = 0 \/ p[i] = Slash) /\ (OneDot(p, i) \/ TwoDots(p, i))
<1>1. \A i \in 0 .. Len(p) : ElementAt(p, i) \in DotElements <=> OneDot(p, i) \/ TwoDots(p, i)
  BY DotElement DEF DotElements
<1> QED BY <1>1 DEF HasDotSegment, Starts

-----------------------------------------------------------------------------
(* What is left of the elements *)

\* The recursive function exists, so that each of its values is the one its
\* definition says.
LEMMA LeftSteps ==
    ASSUME NEW B, NEW p \in Seq(B)
    PROVE  /\ Left(p)[0] = {}
           /\ \A i \in 1 .. Len(p) : Left(p)[i] = ReadElement(p, i, Left(p)[i - 1])
<1> DEFINE Fits(g, m) ==
               g = [i \in 0 .. m |-> IF i = 0 THEN {} ELSE ReadElement(p, i, g[i - 1])]
           Part(m) == \E g : Fits(g, m)
           S == {m \in 0 .. Len(p) : Part(m)}
<1>1. Len(p) \in Nat
  OBVIOUS
<1>2. Part(0)
  <2> DEFINE g == [i \in 0 .. 0 |-> {}]
  <2>1. Fits(g, 0)
    OBVIOUS
  <2> QED BY <2>1
<1>3. ASSUME NEW m \in 1 .. Len(p), Part(m - 1) PROVE Part(m)
  <2>1. PICK g : Fits(g, m - 1)
    BY <1>3
  <2> DEFINE h == [i \in 0 .. m |-> IF i < m THEN g[i] ELSE ReadElement(p, m, g[m - 1])]
  <2>2. ASSUME NEW i \in 0 .. m
        PROVE  h[i] = IF i = 0 THEN {} ELSE ReadElement(p, i, h[i - 1])
    <3>1. CASE i = 0
      <4>1. h[0] = g[0] /\ g[0] = {}
        BY <1>1, <2>1
      <4> QED BY <3>1, <4>1
    <3>2. CASE i # 0
      <4>1. i - 1 \in 0 .. m - 1 /\ i \in Int /\ m \in Int
        BY <1>1, <3>2
      <4>2. h[i - 1] = g[i - 1]
        BY <1>1, <4>1
      <4>3. CASE i < m
        <5>1. i \in 0 .. m - 1
          BY <4>1, <4>3
        <5>2. g[i] = ReadElement(p, i, g[i - 1])
          <6> HIDE DEF h
          <6> QED BY <2>1, <3>2, <5>1
        <5> QED BY <3>2, <4>2, <4>3, <5>2
      <4>4. CASE i = m
        <5>1. h[m] = ReadElement(p, m, g[m - 1])
          BY <1>1
        <5> HIDE DEF h
        <5> QED BY <3>2, <4>2, <4>4, <5>1
      <4>5. i <= m
        OBVIOUS
      <4> QED BY <4>1, <4>3, <4>4, <4>5
    <3> QED BY <3>1, <3>2
  <2>3. h = [i \in 0 .. m |-> h[i]]
    OBVIOUS
  <2> HIDE DEF h
  <2>4. Fits(h, m)
    BY <2>2, <2>3
  <2> HIDE DEF Fits
  <2> QED BY <2>4
<1>4. Part(Len(p))
  <2>1. 0 \in S
    BY <1>1, <1>2
  <2>2. \A m \in 1 .. Len(p) : m - 1 \in S => m \in S
    <3> SUFFICES ASSUME NEW m \in 1 .. Len(p), m - 1 \in S PROVE m \in S
      OBVIOUS
    <3> HIDE DEF Part
    <3>1. Part(m)
      BY <1>3
    <3> QED BY <1>1, <3>1
  <2>3. \A i \in 0 .. Len(p) : i \in S
    <3> HIDE DEF S
    <3> QED BY <1>1, <2>1, <2>2, UpTo
  <2> HIDE DEF Part
  <2> QED BY <1>1, <2>3
<1>5. Left(p) = CHOOSE g : Fits(g, Len(p))
  BY DEF Left
<1>6. Fits(Left(p), Len(p))
  <2> HIDE DEF Fits
  <2> QED BY <1>4, <1>5
<1> DEFINE L == Left(p)
<1>7. L = [i \in 0 .. Len(p) |-> IF i = 0 THEN {} ELSE ReadElement(p, i, L[i - 1])]
  BY <1>6
<1> HIDE DEF L
<1>8. L[0] = {}
  BY <1>1, <1>7
<1>9. ASSUME NEW i \in 1 .. Len(p) PROVE L[i] = ReadElement(p, i, L[i - 1])
  <2>1. i \in 0 .. Len(p) /\ i # 0
    BY <1>1
  <2> QED BY <1>7, <2>1
<1> QED BY <1>8, <1>9 DEF L

LEMMA DotPrefixFacts ==
    ASSUME NEW B, NEW p \in Seq(B)
    PROVE  LET q == DotPrefix(p) IN
           /\ q \in 0 .. Len(p)
           /\ q = 0 \/ p[q] = Slash
           /\ \A k \in 0 .. q - 1 : k = 0 \/ p[k] = Slash =>
                 k + 2 <= q /\ p[k + 1] = Dot /\ p[k + 2] = Slash
           /\ q + 2 <= Len(p) => ~(p[q + 1] = Dot /\ p[q + 2] = Slash)
<1> DEFINE Alternates(m) ==
               /\ m = 0 \/ p[m] = Slash
               /\ \A i \in 1 .. m : p[i] = IF i = 1 \/ p[i - 1] = Slash THEN Dot ELSE Slash
           T == {m \in 0 .. Len(p) : Alternates(m)}
           q == DotPrefix(p)
<1>1. Len(p) \in Nat /\ Dot # Slash
  BY DEF Dot, Slash
<1>2. q = Max(T)
  BY DEF DotPrefix
<1>3. \E x \in T : \A y \in T : y <= x
  <2>1. T \subseteq 0 .. Len(p) /\ 0 \in T
    BY <1>1
  <2> HIDE DEF T
  <2> QED BY <1>1, <2>1, GreatestNatural
<1>4. q \in T /\ \A y \in T : y <= q
  <2>1. \E x \in T : \A y \in T : x >= y
    <3> HIDE DEF Alternates
    <3> QED BY <1>1, <1>3
  <2>2. Max(T) \in T /\ \A y \in T : Max(T) >= y
    <3> HIDE DEF T
    <3> QED BY <2>1 DEF Max
  <2>3. \A y \in T : y \in Nat
    BY <1>1
  <2> HIDE DEF T
  <2> QED BY <1>2, <2>2, <2>3
<1> HIDE DEF q
<1>5. q \in 0 .. Len(p) /\ Alternates(q) /\ q \in Nat
  BY <1>1, <1>4
<1>6. ASSUME NEW k \in 0 .. q - 1, k = 0 \/ p[k] = Slash
      PROVE  k + 2 <= q /\ p[k + 1] = Dot /\ p[k + 2] = Slash
  <2>1. k + 1 \in 1 .. q /\ k + 1 - 1 = k /\ (k + 1 = 1 <=> k = 0) /\ q # 0
    BY <1>5
  <2>2. p[k + 1] = Dot
    BY <1>5, <1>6, <2>1
  <2>3. k + 1 # q
    BY <1>1, <1>5, <2>1, <2>2
  <2>4. k + 2 \in 1 .. q /\ k + 2 - 1 = k + 1 /\ k + 2 # 1
    BY <1>5, <2>1, <2>3
  <2>5. p[k + 2] = Slash
    BY <1>1, <1>5, <2>2, <2>4
  <2> QED BY <1>5, <2>2, <2>4, <2>5
<1>7. ASSUME q + 2 <= Len(p), p[q + 1] = Dot, p[q + 2] = Slash PROVE FALSE
  <2>1. ASSUME NEW i \in 1 .. q + 2
        PROVE  p[i] = IF i = 1 \/ p[i - 1] = Slash THEN Dot ELSE Slash
    <3>1. CASE i \in 1 .. q
      BY <1>5, <3>1
    <3>2. CASE i = q + 1
      <4>1. i = 1 \/ p[i - 1] = Slash
        BY <1>5, <3>2
      <4> QED BY <1>7, <3>2, <4>1
    <3>3. CASE i = q + 2
      <4>1. i # 1 /\ i - 1 = q + 1
        BY <1>5, <3>3
      <4> QED BY <1>1, <1>7, <3>3, <4>1
    <3> QED BY <1>5, <3>1, <3>2, <3>3
  <2>2. q + 2 \in T
    BY <1>1, <1>5, <1>7, <2>1
  <2> HIDE DEF T
  <2> QED BY <1>4, <1>5, <2>2
<1> QED BY <1>5, <1>6, <1>7 DEF q

\* An element that is no dot segment starts at i.
PlainStart(p, i) == i \in ElementStarts(p) /\ Segment(p, i) \notin DotElements

\* The position behind which the segment of the element at i starts.
SegmentFrom(p, i) == IF p[i] = Slash THEN i ELSE i - 1

LEMMA StartFacts ==
    ASSUME NEW B, NEW p \in Seq(B), NEW i \in ElementStarts(p)
    PROVE  /\ i \in DotPrefix(p) + 1 .. Len(p) /\ i \in 1 .. Len(p)
           /\ i = DotPrefix(p) + 1 \/ p[i] = Slash
           /\ SegmentFrom(p, i) \in 0 .. Len(p)
           /\ Segment(p, i) = <<Dot>> <=> OneDot(p, SegmentFrom(p, i))
           /\ Segment(p, i) = <<Dot, Dot>> <=> TwoDots(p, SegmentFrom(p, i))
           /\ Segment(p, i) \in DotElements =>
                 (ElementEnd(p, i) = Len(p) /\ p[i] = Slash =>
                     (OneDot(p, i) /\ i + 1 = Len(p)) \/ (TwoDots(p, i) /\ i + 2 = Len(p)))
<1>1. DotPrefix(p) \in 0 .. Len(p) /\ Len(p) \in Nat
  BY DotPrefixFacts
<1>2. i \in DotPrefix(p) + 1 .. Len(p) /\ (i = DotPrefix(p) + 1 \/ p[i] = Slash)
  BY DEF ElementStarts
<1>3. i \in 1 .. Len(p)
  BY <1>1, <1>2
<1>4. SegmentFrom(p, i) \in 0 .. Len(p)
  BY <1>1, <1>3 DEF SegmentFrom
<1>5. Segment(p, i) = ElementAt(p, SegmentFrom(p, i))
  BY DEF Segment, SegmentFrom
<1>6. /\ Segment(p, i) = <<Dot>> <=> OneDot(p, SegmentFrom(p, i))
      /\ Segment(p, i) = <<Dot, Dot>> <=> TwoDots(p, SegmentFrom(p, i))
  BY <1>4, <1>5, DotElement
<1>7. ASSUME Segment(p, i) \in DotElements, ElementEnd(p, i) = Len(p), p[i] = Slash
      PROVE  (OneDot(p, i) /\ i + 1 = Len(p)) \/ (TwoDots(p, i) /\ i + 2 = Len(p))
  <2>1. i \in 0 .. Len(p) /\ SegmentFrom(p, i) = i
    BY <1>3, <1>7 DEF SegmentFrom
  <2>2. OneDot(p, i) \/ TwoDots(p, i)
    BY <1>6, <1>7, <2>1 DEF DotElements
  <2> QED BY <1>7, <2>1, <2>2, DotElement
<1> QED BY <1>2, <1>3, <1>4, <1>6, <1>7

\* What is left are plain elements that were read.
LEMMA LeftArePlain ==
    ASSUME NEW B, NEW p \in Seq(B), NEW m \in 0 .. Len(p)
    PROVE  \A i \in Left(p)[m] : PlainStart(p, i) /\ i <= m
<1> DEFINE L == Left(p)
           Part(j) == \A i \in L[j] : PlainStart(p, i) /\ i <= j
           S == {j \in 0 .. Len(p) : Part(j)}
<1>1. Len(p) \in Nat
  OBVIOUS
<1>2. L[0] = {} /\ \A i \in 1 .. Len(p) : L[i] = ReadElement(p, i, L[i - 1])
  BY LeftSteps
<1> HIDE DEF L
<1>3. ASSUME NEW j \in 1 .. Len(p), Part(j - 1) PROVE Part(j)
  <2>1. L[j] = ReadElement(p, j, L[j - 1])
    BY <1>2
  <2>2. L[j] \subseteq L[j - 1] \cup (IF PlainStart(p, j) THEN {j} ELSE {})
    BY <2>1 DEF ReadElement, PlainStart, DotElements
  <2>3. \A i \in L[j - 1] : PlainStart(p, i) /\ i <= j
    <3>1. \A i \in L[j - 1] : i \in Int /\ i <= j - 1
      BY <1>3 DEF PlainStart, ElementStarts
    <3> QED BY <1>3, <3>1
  <2> QED BY <2>2, <2>3
<1>4. 0 \in S
  BY <1>1, <1>2
<1>5. \A j \in 1 .. Len(p) : j - 1 \in S => j \in S
  <2> SUFFICES ASSUME NEW j \in 1 .. Len(p), j - 1 \in S PROVE j \in S
    OBVIOUS
  <2> HIDE DEF Part
  <2>1. Part(j)
    BY <1>3
  <2> QED BY <1>1, <2>1
<1>6. \A j \in 0 .. Len(p) : j \in S
  <2> HIDE DEF S
  <2> QED BY <1>1, <1>4, <1>5, UpTo
<1>7. Part(m)
  BY <1>6
<1> QED BY <1>7 DEF L

-----------------------------------------------------------------------------
(* The bytes that are left *)

LEMMA BytesAreInside ==
    ASSUME NEW B, NEW p \in Seq(B), NEW S
    PROVE  BytesOf(p, S) \subseteq 1 .. Len(p)
<1>1. DOMAIN p = 1 .. Len(p)
  OBVIOUS
<1> QED BY <1>1 DEF BytesOf

\* A byte of an element that is left: no slash comes between the start and it.
LEMMA ByteHasStart ==
    ASSUME NEW p, NEW S, NEW k \in BytesOf(p, S)
    PROVE  \E i \in S : i <= k /\ \A j \in i + 1 .. k : p[j] # Slash
BY DEF BytesOf

LEMMA StartHasBytes ==
    ASSUME NEW B, NEW p \in Seq(B), NEW S, NEW i \in S, NEW k \in 1 .. Len(p), i <= k,
           \A j \in i + 1 .. k : p[j] # Slash
    PROVE  k \in BytesOf(p, S)
<1>1. DOMAIN p = 1 .. Len(p)
  OBVIOUS
<1> QED BY <1>1 DEF BytesOf

\* What is left of a path that does not climb, before the slash that may follow.
Rest(p) == BytesOf(p, Left(p)[Len(p)])

\* The byte behind one that is left is left too, unless another element starts there.
GoesOn(s, out, p) ==
    \A k \in 1 .. Len(out) : s[k] < Len(p) /\ p[s[k] + 1] # Slash =>
        k < Len(out) /\ s[k + 1] = s[k] + 1

LEMMA RestGoesOn ==
    ASSUME NEW B, NEW p \in Seq(B), NEW out \in Seq(B), NEW s, PickedBy(s, out, p, Rest(p))
    PROVE  GoesOn(s, out, p)
<1> SUFFICES ASSUME NEW k \in 1 .. Len(out), s[k] < Len(p), p[s[k] + 1] # Slash
             PROVE  k < Len(out) /\ s[k + 1] = s[k] + 1
  BY DEF GoesOn
<1> DEFINE b == s[k]
           K == Rest(p)
           E == Left(p)[Len(p)]
<1>1. Len(p) \in Nat /\ Len(out) \in Nat /\ k \in Nat /\ k > 0
  OBVIOUS
<1>2. b \in 1 .. Len(p) /\ b \in K
  BY DEF PickedBy, Lists
<1>3. PICK a \in E : a <= b /\ \A j \in a + 1 .. b : p[j] # Slash
  BY <1>2, ByteHasStart DEF Rest
<1>4. a \in Nat
  <2>1. Len(p) \in 0 .. Len(p)
    BY <1>1
  <2>2. PlainStart(p, a)
    BY <2>1, LeftArePlain
  <2> QED BY <2>2, StartFacts DEF PlainStart
<1>5. b + 1 \in K
  <2>1. b + 1 \in 1 .. Len(p) /\ a <= b + 1
    BY <1>1, <1>2, <1>3, <1>4
  <2>2. \A j \in a + 1 .. b + 1 : p[j] # Slash
    BY <1>1, <1>2, <1>3, <1>4
  <2> HIDE DEF E, b
  <2> QED BY <1>3, <2>1, <2>2, StartHasBytes DEF Rest, E
<1>6. PICK i \in 1 .. Len(out) : s[i] = b + 1
  BY <1>5 DEF PickedBy, Lists
<1>7. k < i
  <2>1. ~(i < k) /\ i # k
    BY <1>2, <1>6 DEF PickedBy, Lists, Increasing
  <2> QED BY <1>1, <2>1
<1>8. k < Len(out)
  BY <1>1, <1>7
<1>9. s[k + 1] <= b + 1
  <2>1. s[k] < b + 1
    BY <1>2
  <2> HIDE DEF b, K
  <2> QED BY <1>1, <1>5, <1>8, <2>1, PicksNext DEF K
<1>10. s[k] < s[k + 1] /\ s[k + 1] \in Nat
  BY <1>1, <1>8 DEF PickedBy, Lists, Increasing
<1> QED BY <1>2, <1>8, <1>9, <1>10

\* Behind a gap another element starts, with its slash.
NoGap(s, out, p) ==
    \A k \in 1 .. Len(out) : p[s[k]] # Slash =>
        \/ k = 1 /\ s[1] = DotPrefix(p) + 1 /\ PlainStart(p, s[1])
        \/ k > 1 /\ s[k] = s[k - 1] + 1 /\ (p[s[k - 1]] = Slash => PlainStart(p, s[k - 1]))

LEMMA RestHasNoGap ==
    ASSUME NEW B, NEW p \in Seq(B), NEW out \in Seq(B), NEW s, PickedBy(s, out, p, Rest(p))
    PROVE  NoGap(s, out, p)
<1> SUFFICES ASSUME NEW k \in 1 .. Len(out), p[s[k]] # Slash
             PROVE  \/ k = 1 /\ s[1] = DotPrefix(p) + 1 /\ PlainStart(p, s[1])
                    \/ k > 1 /\ s[k] = s[k - 1] + 1
                       /\ (p[s[k - 1]] = Slash => PlainStart(p, s[k - 1]))
  BY DEF NoGap
<1> DEFINE h == s[k]
           K == Rest(p)
           E == Left(p)[Len(p)]
           q == DotPrefix(p)
<1>1. Len(p) \in Nat /\ Len(out) \in Nat /\ k \in Nat /\ k > 0 /\ Len(p) \in 0 .. Len(p)
      /\ q \in Nat
  BY DotPrefixFacts
<1>2. h \in 1 .. Len(p) /\ h \in K
  BY DEF PickedBy, Lists
<1>3. PICK a \in E : a <= h /\ \A j \in a + 1 .. h : p[j] # Slash
  BY <1>2, ByteHasStart DEF Rest
<1>4. PlainStart(p, a) /\ a \in q + 1 .. Len(p) /\ (a = q + 1 \/ p[a] = Slash)
  BY <1>1, <1>3, LeftArePlain, StartFacts DEF PlainStart
<1>5. \A x \in K : q + 1 <= x /\ x \in Int
  <2> SUFFICES ASSUME NEW x \in K PROVE q + 1 <= x /\ x \in Int
    OBVIOUS
  <2>1. PICK i \in E : i <= x
    BY ByteHasStart DEF Rest
  <2>2. i \in q + 1 .. Len(p)
    BY <1>1, <2>1, LeftArePlain, StartFacts DEF PlainStart
  <2>3. x \in 1 .. Len(p)
    BY BytesAreInside DEF Rest
  <2> QED BY <1>1, <2>1, <2>2, <2>3
<1>6. CASE a = h
  <2>1. h = q + 1
    BY <1>4, <1>6
  <2>2. k = 1
    <3> SUFFICES ASSUME k # 1 PROVE FALSE
      OBVIOUS
    <3>1. 1 \in 1 .. Len(out) /\ 1 < k
      BY <1>1
    <3>2. s[1] < h /\ s[1] \in K
      BY <3>1 DEF PickedBy, Lists, Increasing
    <3> HIDE DEF h, K, q
    <3> QED BY <1>1, <1>5, <2>1, <3>2
  <2> QED BY <1>4, <1>6, <2>1, <2>2
<1>7. CASE a # h
  <2>1. a <= h - 1 /\ h - 1 \in 1 .. Len(p) /\ \A j \in a + 1 .. h - 1 : p[j] # Slash
    BY <1>1, <1>2, <1>3, <1>4, <1>7
  <2>2. h - 1 \in K
    <3> HIDE DEF E, h
    <3> QED BY <1>3, <2>1, StartHasBytes DEF Rest, E
  <2>3. PICK i \in 1 .. Len(out) : s[i] = h - 1
    BY <2>2 DEF PickedBy, Lists
  <2>4. i < k
    <3>1. ~(k < i) /\ i # k
      BY <1>2, <2>3 DEF PickedBy, Lists, Increasing
    <3> QED BY <1>1, <3>1
  <2>5. k - 1 \in 1 .. Len(out) /\ k > 1 /\ k - 1 \in Nat /\ k - 1 > 0 /\ k - 1 < Len(out)
        /\ k - 1 + 1 = k
    BY <1>1, <2>4
  <2>6. s[k - 1] < h /\ s[k - 1] \in Nat /\ s[k - 1] \in K
    BY <2>5 DEF PickedBy, Lists, Increasing
  <2>7. s[k - 1] = h - 1
    <3>1. ~(s[k - 1] < h - 1)
      <4> SUFFICES ASSUME s[k - 1] < h - 1 PROVE FALSE
        OBVIOUS
      <4>1. h <= h - 1
        <5> HIDE DEF K
        <5>1. s[k - 1 + 1] <= h - 1
          <6> HIDE DEF h
          <6> QED BY <1>1, <2>2, <2>5, PicksNext DEF K
        <5> QED BY <2>5, <5>1
      <4> QED BY <1>2, <4>1
    <3> QED BY <1>2, <2>6, <3>1
  <2>8. p[s[k - 1]] = Slash => a = s[k - 1]
    BY <1>2, <1>3, <1>4, <2>1, <2>7
  <2> QED BY <1>2, <1>4, <2>5, <2>6, <2>7, <2>8
<1> QED BY <1>6, <1>7

-----------------------------------------------------------------------------
(* CollapseDotSegments *)

Slashed(p) == IF EndsInDots(p) THEN <<Slash>> ELSE <<>>

LEMMA CollapsedParts ==
    ASSUME NEW B, Slash \in B, NEW p \in Seq(B), ~Climbs(p)
    PROVE  LET base == Picked(p, Rest(p))
               out  == Collapsed(p).out
           IN  /\ Collapsed(p).ok
               /\ base \in Seq(B) /\ Picks(base, p, Rest(p))
               /\ out \in Seq(B)
               /\ \A k \in 1 .. Len(base) : out[k] = base[k]
               /\ IF EndsInDots(p) THEN Len(out) = Len(base) + 1 /\ out[Len(base) + 1] = Slash
                                   ELSE Len(out) = Len(base)
<1> DEFINE base == Picked(p, Rest(p))
           out  == Collapsed(p).out
<1>1. Collapsed(p) = [ok |-> TRUE, out |-> base \o Slashed(p)]
  BY DEF Collapsed, Slashed, Rest
<1>2. base \in Seq(B) /\ Picks(base, p, Rest(p))
  <2>1. Rest(p) \subseteq 1 .. Len(p)
    BY BytesAreInside DEF Rest
  <2> QED BY <2>1, PickedPicks
<1>3. Slashed(p) \in Seq(B) /\ (EndsInDots(p) => Len(Slashed(p)) = 1 /\ Slashed(p)[1] = Slash)
      /\ (~EndsInDots(p) => Len(Slashed(p)) = 0)
  BY DEF Slashed
<1> HIDE DEF base
<1>4. /\ base \o Slashed(p) \in Seq(B)
      /\ Len(base \o Slashed(p)) = Len(base) + Len(Slashed(p))
      /\ \A i \in 1 .. Len(base) + Len(Slashed(p)) : (base \o Slashed(p))[i] =
            IF i <= Len(base) THEN base[i] ELSE Slashed(p)[i - Len(base)]
  BY <1>2, <1>3, ConcatProperties
<1>5. out = base \o Slashed(p)
  BY <1>1
<1>6. Len(base) \in Nat
  BY <1>2
<1> HIDE DEF out
<1>7. \A k \in 1 .. Len(base) : out[k] = base[k]
  BY <1>3, <1>4, <1>5, <1>6
<1>8. IF EndsInDots(p) THEN Len(out) = Len(base) + 1 /\ out[Len(base) + 1] = Slash
                       ELSE Len(out) = Len(base)
  <2>1. CASE EndsInDots(p)
    <3>1. Len(out) = Len(base) + 1
      BY <1>3, <1>4, <1>5, <2>1
    <3>2. out[Len(base) + 1] = Slashed(p)[1]
      <4>1. Len(base) + 1 \in 1 .. Len(base) + Len(Slashed(p)) /\ ~(Len(base) + 1 <= Len(base))
            /\ Len(base) + 1 - Len(base) = 1
        <5>1. Len(Slashed(p)) = 1
          BY <1>3, <2>1
        <5> QED BY <1>6, <5>1
      <4> QED BY <1>4, <1>5, <4>1
    <3> QED BY <1>3, <2>1, <3>1, <3>2
  <2>2. CASE ~EndsInDots(p)
    BY <1>3, <1>4, <1>5, <1>6, <2>2
  <2> QED BY <2>1, <2>2
<1> QED BY <1>1, <1>2, <1>4, <1>5, <1>7, <1>8 DEF out, base

\* CollapseDotSegments leaves no dot segment.
THEOREM CollapseLeavesNoDots ==
    ASSUME NEW B, Slash \in B, NEW p \in Seq(B), ~Climbs(p)
    PROVE  /\ Collapsed(p).ok /\ Collapsed(p).out \in Seq(B)
           /\ ~HasDotSegment(Collapsed(p).out)
<1> DEFINE base == Picked(p, Rest(p))
           out  == Collapsed(p).out
           K == Rest(p)
           N == Len(base)
<1>1. /\ Collapsed(p).ok
      /\ base \in Seq(B) /\ Picks(base, p, K) /\ out \in Seq(B)
      /\ \A k \in 1 .. N : out[k] = base[k]
      /\ IF EndsInDots(p) THEN Len(out) = N + 1 /\ out[N + 1] = Slash ELSE Len(out) = N
  BY CollapsedParts
<1>2. PICK s \in [1 .. N -> Nat] : PickedBy(s, base, p, K)
  BY <1>1 DEF Picks
<1> HIDE DEF base, out, K, N
<1>3. N \in Nat /\ Len(p) \in Nat /\ Len(out) \in Nat /\ Dot # Slash /\ N = Len(base)
  BY <1>1 DEF Dot, Slash, N
<1>4. \A k \in 1 .. N : s[k] \in 1 .. Len(p) /\ s[k] \in K /\ out[k] = p[s[k]]
  BY <1>1, <1>2, <1>3 DEF PickedBy, Lists
<1>5. /\ \A k \in 1 .. Len(out) : out[k] = Dot => k \in 1 .. N
      /\ base \in Seq(B) /\ GoesOn(s, base, p) /\ NoGap(s, base, p)
  <2>1. PickedBy(s, base, p, Rest(p)) /\ base \in Seq(B)
    BY <1>1, <1>2 DEF K
  <2> QED BY <1>1, <1>3, <2>1, RestGoesOn, RestHasNoGap
\* The byte behind a byte of the output, if both have the same element.
<1>6. ASSUME NEW k \in 1 .. N, s[k] < Len(p), p[s[k] + 1] # Slash
      PROVE  k < N /\ s[k + 1] = s[k] + 1 /\ out[k + 1] = p[s[k] + 1]
  <2>1. k < N /\ s[k + 1] = s[k] + 1
    BY <1>3, <1>5, <1>6 DEF GoesOn
  <2>2. k + 1 \in 1 .. N
    BY <1>3, <2>1
  <2> QED BY <1>4, <2>1, <2>2
<1>7. ASSUME NEW k \in 1 .. N, k = Len(out) \/ out[k + 1] = Slash
      PROVE  s[k] = Len(p) \/ p[s[k] + 1] = Slash
  <2> SUFFICES ASSUME s[k] < Len(p), p[s[k] + 1] # Slash PROVE FALSE
    BY <1>3, <1>4
  <2>1. k < N /\ out[k + 1] # Slash
    BY <1>6
  <2>2. k < Len(out)
    BY <1>1, <1>3, <2>1
  <2> QED BY <1>3, <1>7, <2>1, <2>2
\* A segment of the output that starts with a dot is a segment of the path that is left.
<1>8. ASSUME NEW k \in 1 .. N, k = 1 \/ out[k - 1] = Slash, out[k] = Dot
      PROVE  /\ s[k] - 1 \in 0 .. Len(p)
             /\ ~OneDot(p, s[k] - 1) /\ ~TwoDots(p, s[k] - 1)
  <2>1. p[s[k]] # Slash /\ s[k] \in 1 .. Len(p)
    BY <1>3, <1>4, <1>8
  <2>2. \/ k = 1 /\ s[1] = DotPrefix(p) + 1 /\ PlainStart(p, s[1])
        \/ k > 1 /\ s[k] = s[k - 1] + 1 /\ (p[s[k - 1]] = Slash => PlainStart(p, s[k - 1]))
    BY <1>3, <1>5, <2>1 DEF NoGap
  <2>3. \E a : PlainStart(p, a) /\ SegmentFrom(p, a) = s[k] - 1
    <3>1. CASE k = 1 /\ s[1] = DotPrefix(p) + 1 /\ PlainStart(p, s[1])
      BY <2>1, <3>1 DEF SegmentFrom
    <3>2. CASE k > 1 /\ s[k] = s[k - 1] + 1 /\ (p[s[k - 1]] = Slash => PlainStart(p, s[k - 1]))
      <4>1. k - 1 \in 1 .. N /\ out[k - 1] = Slash
        BY <1>3, <1>8, <3>2
      <4>2. p[s[k - 1]] = Slash /\ s[k - 1] \in 1 .. Len(p)
        BY <1>4, <4>1
      <4>3. s[k - 1] = s[k] - 1
        BY <3>2, <4>2
      <4> QED BY <3>2, <4>2, <4>3 DEF SegmentFrom
    <3> QED BY <2>2, <3>1, <3>2
  <2>4. PICK a : PlainStart(p, a) /\ SegmentFrom(p, a) = s[k] - 1
    BY <2>3
  <2>5. ~OneDot(p, s[k] - 1) /\ ~TwoDots(p, s[k] - 1)
    BY <2>4, StartFacts DEF PlainStart, DotElements
  <2> QED BY <1>3, <2>1, <2>5
<1>9. ASSUME NEW i \in 0 .. Len(out), i = 0 \/ out[i] = Slash, OneDot(out, i) PROVE FALSE
  <2>1. i + 1 \in 1 .. N /\ out[i + 1] = Dot /\ (i + 1 = 1 \/ out[i + 1 - 1] = Slash)
    BY <1>3, <1>5, <1>9 DEF OneDot
  <2>2. s[i + 1] - 1 \in 0 .. Len(p) /\ ~OneDot(p, s[i + 1] - 1)
    BY <1>8, <2>1
  <2>3. s[i + 1] = Len(p) \/ p[s[i + 1] + 1] = Slash
    <3>1. i + 1 = Len(out) \/ out[i + 1 + 1] = Slash
      BY <1>9 DEF OneDot
    <3> QED BY <1>7, <2>1, <3>1
  <2>4. p[s[i + 1]] = Dot /\ s[i + 1] \in 1 .. Len(p)
    BY <1>4, <2>1
  <2> DEFINE b == s[i + 1]
  <2>5. b - 1 + 1 = b /\ b - 1 + 2 = b + 1 /\ b - 1 < Len(p) /\ p[b] = Dot
        /\ (b = Len(p) \/ p[b + 1] = Slash) /\ ~OneDot(p, b - 1)
    BY <1>3, <2>2, <2>3, <2>4
  <2> HIDE DEF b
  <2> QED BY <2>5 DEF OneDot
<1>10. ASSUME NEW i \in 0 .. Len(out), i = 0 \/ out[i] = Slash, TwoDots(out, i) PROVE FALSE
  <2>1. i + 1 \in 1 .. N /\ out[i + 1] = Dot /\ (i + 1 = 1 \/ out[i + 1 - 1] = Slash)
        /\ i + 2 \in 1 .. N /\ out[i + 2] = Dot
    BY <1>3, <1>5, <1>10 DEF TwoDots
  <2> DEFINE b == s[i + 1]
  <2>2. b - 1 \in 0 .. Len(p) /\ ~TwoDots(p, b - 1)
    BY <1>8, <2>1
  <2>3. p[b] = Dot /\ b \in 1 .. Len(p)
    BY <1>4, <2>1
  <2>4. s[i + 2] = b + 1
    <3>1. p[s[i + 2]] # Slash /\ i + 2 \in 1 .. Len(base) /\ i + 2 # 1 /\ i + 2 - 1 = i + 1
      BY <1>3, <1>4, <2>1
    <3>2. s[i + 2] = s[i + 2 - 1] + 1
      BY <1>5, <3>1 DEF NoGap
    <3> QED BY <3>1, <3>2
  <2>5. p[b + 1] = Dot /\ b + 1 \in 1 .. Len(p)
    BY <1>4, <2>1, <2>4
  <2>6. b + 1 = Len(p) \/ p[b + 2] = Slash
    <3>1. i + 2 = Len(out) \/ out[i + 2 + 1] = Slash
      BY <1>10 DEF TwoDots
    <3>2. s[i + 2] = Len(p) \/ p[s[i + 2] + 1] = Slash
      BY <1>7, <2>1, <3>1
    <3>3. b + 1 + 1 = b + 2
      BY <2>3
    <3> QED BY <2>4, <3>2, <3>3
  <2> HIDE DEF b
  <2>7. b - 1 + 1 = b /\ b - 1 + 2 = b + 1 /\ b - 1 + 3 = b + 2 /\ b - 1 + 1 < Len(p)
    BY <1>3, <2>3, <2>5
  <2> QED BY <2>2, <2>3, <2>5, <2>6, <2>7 DEF TwoDots
<1>11. ~HasDotSegment(out)
  BY <1>1, <1>9, <1>10, DotSegmentsAt
<1> QED BY <1>1, <1>11 DEF out

\* CollapseDotSegments puts no two slashes together.
THEOREM CollapseKeepsSingle ==
    ASSUME NEW B, Slash \in B, NEW p \in Seq(B), ~Climbs(p), ~HasDoubleSlash(p)
    PROVE  ~HasDoubleSlash(Collapsed(p).out)
<1> DEFINE base == Picked(p, Rest(p))
           out  == Collapsed(p).out
           N == Len(base)
<1>1. /\ base \in Seq(B) /\ Picks(base, p, Rest(p)) /\ out \in Seq(B)
      /\ \A k \in 1 .. N : out[k] = base[k]
      /\ IF EndsInDots(p) THEN Len(out) = N + 1 /\ out[N + 1] = Slash ELSE Len(out) = N
  BY CollapsedParts
<1>2. PICK s \in [1 .. N -> Nat] : PickedBy(s, base, p, Rest(p))
  BY <1>1 DEF Picks
<1> HIDE DEF base, out, N
<1>3. N \in Nat /\ Len(p) \in Nat /\ Len(out) \in Nat /\ 1 .. N = 1 .. Len(base) /\ N = Len(base)
  BY <1>1 DEF N
<1>4. \A k \in 1 .. N : s[k] \in 1 .. Len(p) /\ s[k] \in Rest(p) /\ out[k] = p[s[k]]
  BY <1>1, <1>2, <1>3 DEF PickedBy, Lists
<1>5. ASSUME NEW k \in 1 .. N, s[k] < Len(p), p[s[k]] = Slash
      PROVE  k < N /\ out[k + 1] # Slash
  <2>1. p[s[k] + 1] # Slash
    <3> DEFINE h == s[k] + 1
    <3>1. h \in 2 .. Len(p) /\ h - 1 = s[k]
      BY <1>3, <1>4, <1>5
    <3>2. ~(p[h] = Slash /\ p[h - 1] = Slash)
      BY <3>1 DEF HasDoubleSlash
    <3> QED BY <1>5, <3>1, <3>2
  <2>2. k \in 1 .. Len(base)
    BY <1>3
  <2>3. k < Len(base) /\ s[k + 1] = s[k] + 1
    <3>1. GoesOn(s, base, p)
      BY <1>1, <1>2, RestGoesOn
    <3> QED BY <1>5, <2>1, <2>2, <3>1 DEF GoesOn
  <2>4. k + 1 \in 1 .. N
    BY <1>3, <2>3
  <2> QED BY <1>3, <1>4, <2>1, <2>3, <2>4
<1>6. ASSUME NEW i \in 2 .. Len(out), out[i] = Slash, out[i - 1] = Slash PROVE FALSE
  <2> DEFINE k == i - 1
  <2>1. k \in 1 .. N /\ k + 1 = i
    BY <1>1, <1>3
  <2>2. p[s[k]] = Slash /\ s[k] \in 1 .. Len(p)
    BY <1>4, <1>6, <2>1
  <2> HIDE DEF k
  <2>3. s[k] = Len(p)
    <3>1. ~(s[k] < Len(p))
      BY <1>5, <1>6, <2>1, <2>2
    <3> QED BY <1>3, <2>2, <3>1
  <2>4. k = N
    <3> SUFFICES ASSUME k # N PROVE FALSE
      OBVIOUS
    <3>1. k + 1 \in 1 .. N /\ k < k + 1 /\ k \in 1 .. N
      BY <1>3, <2>1
    <3>2. s[k] < s[k + 1] /\ s[k + 1] \in 1 .. Len(p)
      BY <1>2, <1>3, <1>4, <3>1 DEF PickedBy, Lists, Increasing
    <3> QED BY <1>3, <2>3, <3>2
  <2>5. EndsInDots(p)
    BY <1>1, <1>3, <2>1, <2>4
  <2>6. PICK a \in ElementStarts(p) :
            p[a] = Slash /\ Segment(p, a) \in DotElements /\ ElementEnd(p, a) = Len(p)
    BY <2>5 DEF EndsInDots
  <2>7. a \in 1 .. Len(p) /\ a + 1 <= Len(p)
    <3>1. a \in 1 .. Len(p)
      BY StartFacts
    <3>2. (OneDot(p, a) /\ a + 1 = Len(p)) \/ (TwoDots(p, a) /\ a + 2 = Len(p))
      BY <2>6, StartFacts
    <3> QED BY <1>3, <3>1, <3>2
  <2>8. p[Len(p)] # Slash
    <3>1. a \in 0 .. Len(p)
      BY <1>3, <2>7
    <3>2. \A h \in a + 1 .. ElementEnd(p, a) : p[h] # Slash
      BY <3>1, ElementEnds
    <3>3. Len(p) \in a + 1 .. Len(p)
      BY <1>3, <2>7
    <3> QED BY <2>6, <3>2, <3>3
  <2> QED BY <2>2, <2>3, <2>8
<1>7. ~HasDoubleSlash(out)
  BY <1>6 DEF HasDoubleSlash
<1> QED BY <1>7 DEF out

\* As long as all elements are plain, all of them are left, with all their bytes.
LEMMA PlainPrefix ==
    ASSUME NEW B, NEW p \in Seq(B), NEW m \in 0 .. Len(p), DotPrefix(p) = 0,
           \A i \in ElementStarts(p) : i <= m => Segment(p, i) \notin DotElements
    PROVE  /\ Left(p)[m] = {i \in ElementStarts(p) : i <= m}
           /\ {k \in BytesOf(p, Left(p)[m]) : k <= m} = 1 .. m
<1> DEFINE E == ElementStarts(p)
           L == Left(p)
           S == {j \in 0 .. Len(p) : j <= m => L[j] = {i \in E : i <= j}}
<1>1. Len(p) \in Nat /\ m \in Nat
  OBVIOUS
<1>2. E = {i \in 1 .. Len(p) : i = 1 \/ p[i] = Slash}
  BY DEF ElementStarts
<1>3. \A i \in E : i \in 1 .. Len(p)
  BY <1>2
<1>4. L[0] = {} /\ \A j \in 1 .. Len(p) : L[j] = ReadElement(p, j, L[j - 1])
  BY LeftSteps
<1> HIDE DEF L, E
<1>5. 0 \in S
  <2>1. {i \in E : i <= 0} = {}
    BY <1>1, <1>3
  <2> QED BY <1>1, <1>4, <2>1
<1>6. ASSUME NEW j \in 1 .. Len(p), j - 1 \in S PROVE j \in S
  <2> SUFFICES ASSUME j <= m PROVE L[j] = {i \in E : i <= j}
    BY <1>1
  <2>1. L[j] = ReadElement(p, j, L[j - 1]) /\ L[j - 1] = {i \in E : i <= j - 1}
    BY <1>1, <1>4, <1>6
  <2>2. CASE j \in E
    <3>1. L[j] = L[j - 1] \cup {j}
      BY <2>1, <2>2 DEF ReadElement, DotElements, E
    <3>2. \A i \in E : i <= j <=> (i <= j - 1 \/ i = j)
      BY <1>1, <1>3
    <3>3. j \in E /\ j <= j
      BY <1>1, <2>2
    <3> QED BY <2>1, <3>1, <3>2, <3>3
  <2>3. CASE j \notin E
    <3>1. L[j] = L[j - 1]
      BY <2>1, <2>3 DEF ReadElement, E
    <3>2. \A i \in E : i <= j <=> i <= j - 1
      BY <1>1, <1>3, <2>3
    <3> QED BY <2>1, <3>1, <3>2
  <2> QED BY <2>2, <2>3
<1>7. L[m] = {i \in E : i <= m}
  <2>1. \A j \in 0 .. Len(p) : j \in S
    <3> HIDE DEF S
    <3> QED BY <1>1, <1>5, <1>6, UpTo
  <2> QED BY <1>1, <2>1
<1>8. ASSUME NEW k \in 1 .. m PROVE k \in BytesOf(p, L[m])
  <2> DEFINE T == {i \in E : i <= k}
  <2>1. T \subseteq 0 .. Len(p) /\ 1 \in T
    BY <1>1, <1>2, <1>3
  <2>2. PICK x \in T : \A y \in T : y <= x
    <3> HIDE DEF T
    <3> QED BY <1>1, <2>1, GreatestNatural
  <2>3. x \in L[m] /\ x <= k /\ x \in 1 .. Len(p) /\ k \in 1 .. Len(p)
    BY <1>1, <1>3, <1>7
  <2>4. ASSUME NEW j \in x + 1 .. k, p[j] = Slash PROVE FALSE
    <3>1. j \in T /\ x < j
      BY <1>1, <1>2, <2>3, <2>4
    <3> QED BY <1>1, <2>2, <2>3, <3>1
  <2> QED BY <2>3, <2>4, StartHasBytes
<1>9. {k \in BytesOf(p, L[m]) : k <= m} = 1 .. m
  <2>1. \A k \in BytesOf(p, L[m]) : k \in 1 .. Len(p)
    BY BytesAreInside
  <2> QED BY <1>1, <1>8, <2>1
<1> QED BY <1>7, <1>9 DEF L, E

\* A "./" in front is a dot segment.
LEMMA DotPrefixIsSegment ==
    ASSUME NEW B, NEW p \in Seq(B), DotPrefix(p) # 0 PROVE OneDot(p, 0)
<1> DEFINE q == DotPrefix(p)
<1>1. q \in 0 .. Len(p) /\ 0 \in 0 .. q - 1 /\ Len(p) \in Nat
  BY DotPrefixFacts
<1>2. 0 + 2 <= q /\ p[0 + 1] = Dot /\ p[0 + 2] = Slash
  BY <1>1, DotPrefixFacts
<1> QED BY <1>1, <1>2 DEF OneDot

\* A path without dot segments is left alone.
THEOREM CollapseLeavesPlain ==
    ASSUME NEW B, NEW p \in Seq(B), ~HasDotSegment(p)
    PROVE  Collapsed(p) = [ok |-> TRUE, out |-> p]
<1>1. Len(p) \in Nat /\ Len(p) \in 0 .. Len(p)
  OBVIOUS
<1>2. \A i \in 0 .. Len(p) : (i = 0 \/ p[i] = Slash) => ~OneDot(p, i) /\ ~TwoDots(p, i)
  BY DotSegmentsAt
<1>3. DotPrefix(p) = 0
  BY <1>1, <1>2, DotPrefixIsSegment
<1>4. ASSUME NEW i \in ElementStarts(p)
      PROVE  Segment(p, i) \notin DotElements /\ i \in 1 .. Len(p)
  <2>1. i \in 1 .. Len(p) /\ (i = 1 \/ p[i] = Slash) /\ SegmentFrom(p, i) \in 0 .. Len(p)
    BY <1>1, <1>3, StartFacts
  <2>2. SegmentFrom(p, i) = 0 \/ p[SegmentFrom(p, i)] = Slash
    BY <1>1, <2>1 DEF SegmentFrom
  <2>3. ~OneDot(p, SegmentFrom(p, i)) /\ ~TwoDots(p, SegmentFrom(p, i))
    BY <1>2, <2>1, <2>2
  <2> QED BY <2>1, <2>3, StartFacts DEF DotElements
<1>5. ~Climbs(p) /\ ~EndsInDots(p)
  BY <1>4 DEF Climbs, EndsInDots, DotElements
<1>6. BytesOf(p, Left(p)[Len(p)]) = 1 .. Len(p)
  <2>1. {k \in BytesOf(p, Left(p)[Len(p)]) : k <= Len(p)} = 1 .. Len(p)
    BY <1>1, <1>3, <1>4, PlainPrefix
  <2>2. \A k \in BytesOf(p, Left(p)[Len(p)]) : k <= Len(p)
    BY <1>1, BytesAreInside
  <2> QED BY <2>1, <2>2
<1>7. Picked(p, BytesOf(p, Left(p)[Len(p)])) = p
  BY <1>6, PickedAll
<1>8. p \o <<>> = p
  OBVIOUS
<1> QED BY <1>5, <1>7, <1>8 DEF Collapsed

-----------------------------------------------------------------------------
(* The elements a reader passes one after the other *)

\* The bytes that are kept of the first m.
KeptUpTo(p, m) == {k \in BytesOf(p, Left(p)[m]) : k <= m}

\* No ".." up to m had nothing to take away.
NotClimbed(p, m) ==
    \A i \in ElementStarts(p) :
        i <= m /\ Segment(p, i) = <<Dot, Dot>> => Left(p)[i - 1] # {}

\* An element starts behind m, or the path ends there.
Boundary(p, m) ==
    m < Len(p) => IF m < DotPrefix(p) THEN m = 0 \/ p[m] = Slash ELSE m + 1 \in ElementStarts(p)

\* Behind m a plain element goes on or starts.
InElement(p, m) ==
    \E a : /\ PlainStart(p, a)
           /\ \A j \in a + 1 .. m : p[j] # Slash
           /\ a \in Left(p)[m] \/ (a = m + 1 /\ p[a] # Slash)

LEMMA KeptNone ==
    ASSUME NEW p, NEW m, Left(p)[m] = {} PROVE KeptUpTo(p, m) = {}
BY DEF KeptUpTo, BytesOf

\* Where no element starts none is read.
LEMMA LeftStays ==
    ASSUME NEW B, NEW p \in Seq(B), NEW j \in 1 .. Len(p), j \notin ElementStarts(p)
    PROVE  Left(p)[j] = Left(p)[j - 1]
BY LeftSteps DEF ReadElement

LEMMA StartsAre ==
    ASSUME NEW B, NEW p \in Seq(B)
    PROVE  /\ DotPrefix(p) \in Nat /\ DotPrefix(p) <= Len(p)
           /\ \A i : i \in ElementStarts(p) <=>
                 /\ i \in Int /\ DotPrefix(p) < i /\ i <= Len(p)
                 /\ i = DotPrefix(p) + 1 \/ p[i] = Slash
<1>1. DotPrefix(p) \in 0 .. Len(p) /\ Len(p) \in Nat
  BY DotPrefixFacts
<1> QED BY <1>1 DEF ElementStarts

\* An element that does not stay keeps no byte.
LEMMA KeptStays ==
    ASSUME NEW B, NEW p \in Seq(B), NEW m \in 0 .. Len(p), NEW t \in m + 1 .. Len(p),
           Left(p)[t] = Left(p)[m], p[m + 1] = Slash
    PROVE  KeptUpTo(p, t) = KeptUpTo(p, m)
<1>1. Len(p) \in Nat
  OBVIOUS
<1>2. ASSUME NEW k \in BytesOf(p, Left(p)[m]) PROVE k <= m /\ k <= t
  <2>1. PICK i \in Left(p)[m] : i <= k /\ \A j \in i + 1 .. k : p[j] # Slash
    BY ByteHasStart
  <2>2. i <= m /\ i \in Int /\ k \in Int
    <3>1. PlainStart(p, i) /\ i <= m
      BY <2>1, LeftArePlain
    <3>2. i \in Int
      BY <3>1, StartsAre DEF PlainStart
    <3>3. k \in 1 .. Len(p)
      BY BytesAreInside
    <3> QED BY <3>1, <3>2, <3>3
  <2>3. ~(m < k)
    BY <1>1, <2>1, <2>2
  <2> QED BY <1>1, <2>2, <2>3
<1> QED BY <1>2 DEF KeptUpTo

\* As long as no slash comes, what is read belongs to the element that goes on.
LEMMA LeftStaysInside ==
    ASSUME NEW B, NEW p \in Seq(B), NEW a \in ElementStarts(p), NEW j \in a + 1 .. Len(p),
           p[j] # Slash
    PROVE  j \notin ElementStarts(p) /\ Left(p)[j] = Left(p)[j - 1]
<1>1. Len(p) \in Nat /\ a \in Int /\ DotPrefix(p) < a /\ DotPrefix(p) \in Nat
  BY StartsAre
<1>2. j \notin ElementStarts(p)
  BY <1>1, StartsAre
<1>3. j \in 1 .. Len(p)
  BY <1>1
<1> QED BY <1>2, <1>3, LeftStays

\* "./" in front, or "." alone behind it.
LEMMA WalkDot ==
    ASSUME NEW B, NEW p \in Seq(B), NEW m \in 0 .. Len(p), m < Len(p), Boundary(p, m), OneDot(p, m),
           NotClimbed(p, m)
    PROVE  LET t == IF m + 1 = Len(p) THEN m + 1 ELSE m + 2
           IN  /\ t \in 0 .. Len(p) /\ Boundary(p, t) /\ NotClimbed(p, t)
               /\ KeptUpTo(p, m) = {} /\ KeptUpTo(p, t) = {}
               /\ t = Len(p) => ~EndsInDots(p)
<1> DEFINE q == DotPrefix(p)
           L == Left(p)
           t == IF m + 1 = Len(p) THEN m + 1 ELSE m + 2
<1>1. Len(p) \in Nat /\ m \in Nat /\ q \in Nat /\ q <= Len(p) /\ Dot # Slash
  BY StartsAre DEF Dot, Slash
<1>2. p[m + 1] = Dot /\ (m + 1 = Len(p) \/ p[m + 2] = Slash) /\ t \in 0 .. Len(p)
  BY <1>1 DEF OneDot
<1>3. \A i : i \in ElementStarts(p) <=>
          i \in Int /\ q < i /\ i <= Len(p) /\ (i = q + 1 \/ p[i] = Slash)
  BY StartsAre
<1>4. /\ q = 0 \/ p[q] = Slash
      /\ \A k \in 0 .. q - 1 : k = 0 \/ p[k] = Slash =>
             k + 2 <= q /\ p[k + 1] = Dot /\ p[k + 2] = Slash
      /\ q + 2 <= Len(p) => ~(p[q + 1] = Dot /\ p[q + 2] = Slash)
  BY DotPrefixFacts
<1> HIDE DEF q, L
<1>5. m <= q
  <2> SUFFICES ASSUME q < m PROVE FALSE
    BY <1>1
  <2>1. m + 1 \in ElementStarts(p) /\ m + 1 # q + 1
    BY <1>1 DEF Boundary, q
  <2> QED BY <1>1, <1>2, <1>3, <2>1
<1>6. L[m] = {}
  <2> SUFFICES ASSUME NEW a \in L[m] PROVE FALSE
    OBVIOUS
  <2>1. PlainStart(p, a) /\ a <= m
    BY LeftArePlain DEF L
  <2> QED BY <1>1, <1>3, <1>5, <2>1 DEF PlainStart
<1>7. CASE m < q
  <2>1. m + 2 <= q /\ p[m + 2] = Slash
    <3>1. m \in 0 .. q - 1 /\ (m = 0 \/ p[m] = Slash)
      BY <1>1, <1>7 DEF Boundary, q
    <3> QED BY <1>4, <3>1
  <2>2. t = m + 2
    BY <1>1, <2>1
  <2>3. L[m + 2] = {}
    <3>1. m + 1 \in 1 .. Len(p) /\ m + 2 \in 1 .. Len(p) /\ m + 2 - 1 = m + 1 /\ m + 1 - 1 = m
      BY <1>1, <2>1
    <3>2. m + 1 \notin ElementStarts(p) /\ m + 2 \notin ElementStarts(p)
      BY <1>1, <1>3, <2>1
    <3> QED BY <1>6, <3>1, <3>2, LeftStays DEF L
  <2>4. Boundary(p, t)
    <3> SUFFICES ASSUME t < Len(p), t >= q PROVE t + 1 \in ElementStarts(p)
      BY <1>1, <2>1, <2>2 DEF Boundary, q
    <3> QED BY <1>1, <1>3, <2>1, <2>2
  <2>5. \A i \in ElementStarts(p) : ~(i <= t)
    BY <1>1, <1>3, <2>1, <2>2
  <2>6. NotClimbed(p, t)
    BY <2>5 DEF NotClimbed
  <2>7. t = Len(p) => ~EndsInDots(p)
    BY <1>3, <2>5 DEF EndsInDots
  <2>8. KeptUpTo(p, m) = {} /\ KeptUpTo(p, t) = {}
    BY <1>6, <2>2, <2>3, KeptNone DEF L
  <2> QED BY <1>2, <2>4, <2>6, <2>7, <2>8
<1>8. CASE m = q
  <2>1. m + 1 = Len(p) /\ t = Len(p)
    BY <1>1, <1>2, <1>4, <1>8
  <2>2. \A i : i \in ElementStarts(p) <=> i = m + 1
    BY <1>1, <1>3, <1>8, <2>1
  <2>3. p[m + 1] # Slash /\ SegmentFrom(p, m + 1) = m
    BY <1>1, <1>2 DEF SegmentFrom
  <2>4. Segment(p, m + 1) = <<Dot>>
    <3>1. m + 1 \in ElementStarts(p)
      BY <2>2
    <3> QED BY <2>3, <3>1, StartFacts
  <2>5. L[t] = {}
    <3>1. m + 1 \in 1 .. Len(p) /\ m + 1 - 1 = m
      BY <1>1, <2>1
    <3>2. L[m + 1] = ReadElement(p, m + 1, L[m + 1 - 1])
      BY <3>1, LeftSteps DEF L
    <3> QED BY <1>6, <2>1, <2>4, <3>1, <3>2 DEF ReadElement
  <2>6. Boundary(p, t)
    BY <1>1, <2>1 DEF Boundary
  <2>7. NotClimbed(p, t)
    <3>1. <<Dot>> # <<Dot, Dot>>
      <4>1. Len(<<Dot>>) = 1 /\ Len(<<Dot, Dot>>) = 2
        OBVIOUS
      <4> QED BY <4>1
    <3> QED BY <2>2, <2>4, <3>1 DEF NotClimbed
  <2>8. ~EndsInDots(p)
    BY <2>2, <2>3 DEF EndsInDots
  <2>9. KeptUpTo(p, m) = {} /\ KeptUpTo(p, t) = {}
    BY <1>6, <2>5, KeptNone DEF L
  <2> QED BY <1>2, <2>6, <2>7, <2>8, <2>9
<1> QED BY <1>1, <1>5, <1>7, <1>8

\* Behind the dots in front: a slash, or the first byte, starts an element.
LEMMA BoundaryStarts ==
    ASSUME NEW B, NEW p \in Seq(B), NEW m \in 0 .. Len(p), m < Len(p), Boundary(p, m),
           p[m + 1] = Slash \/ ~OneDot(p, m)
    PROVE  m + 1 \in ElementStarts(p)
<1>1. Len(p) \in Nat /\ DotPrefix(p) \in Nat /\ DotPrefix(p) <= Len(p) /\ Dot # Slash
  BY StartsAre DEF Dot, Slash
<1>2. CASE m < DotPrefix(p)
  <2>1. m \in 0 .. DotPrefix(p) - 1 /\ (m = 0 \/ p[m] = Slash)
    BY <1>1, <1>2 DEF Boundary
  <2>2. m + 2 <= DotPrefix(p) /\ p[m + 1] = Dot /\ p[m + 2] = Slash
    BY <2>1, DotPrefixFacts
  <2>3. OneDot(p, m)
    BY <1>1, <2>2 DEF OneDot
  <2> QED BY <1>1, <2>2, <2>3
<1>3. CASE ~(m < DotPrefix(p))
  BY <1>3 DEF Boundary
<1> QED BY <1>2, <1>3

\* ".." in front, or with nothing before it.
LEMMA WalkClimb ==
    ASSUME NEW B, NEW p \in Seq(B), NEW m \in 0 .. Len(p), m < Len(p), Boundary(p, m),
           TwoDots(p, m) \/ (p[m + 1] = Slash /\ TwoDots(p, m + 1) /\ KeptUpTo(p, m) = {})
    PROVE  Climbs(p)
<1>1. Len(p) \in Nat /\ m \in Nat /\ Dot # Slash
  BY DEF Dot, Slash
<1>2. m + 1 \in ElementStarts(p) /\ m + 1 - 1 = m
  <2>1. TwoDots(p, m) => ~OneDot(p, m)
    BY <1>1 DEF OneDot, TwoDots
  <2> QED BY <1>1, <2>1, BoundaryStarts
<1>3. Left(p)[m] = {}
  <2> SUFFICES ASSUME NEW a \in Left(p)[m] PROVE FALSE
    OBVIOUS
  <2>1. a \in ElementStarts(p) /\ a <= m
    BY LeftArePlain DEF PlainStart
  <2>2. a \in 1 .. Len(p) /\ DotPrefix(p) < a /\ DotPrefix(p) \in Nat
    BY <1>1, <2>1, StartsAre
  <2>3. CASE TwoDots(p, m)
    <3>1. p[m + 1] = Dot
      BY <2>3 DEF TwoDots
    <3>2. m + 1 = DotPrefix(p) + 1
      BY <1>1, <1>2, <3>1, StartsAre
    <3> QED BY <1>1, <2>1, <2>2, <3>2
  <2>4. CASE KeptUpTo(p, m) = {}
    <3>1. a \in BytesOf(p, Left(p)[m])
      <4>1. a <= a /\ \A j \in a + 1 .. a : p[j] # Slash
        BY <2>2
      <4>2. \A S : a \in S => a \in BytesOf(p, S)
        BY <2>2, <4>1, StartHasBytes
      <4> QED BY <4>2
    <3> QED BY <2>1, <2>4, <3>1 DEF KeptUpTo
  <2> QED BY <2>3, <2>4
<1>4. Segment(p, m + 1) = <<Dot, Dot>>
  <2>1. CASE TwoDots(p, m)
    <3>1. SegmentFrom(p, m + 1) = m
      BY <1>1, <2>1 DEF TwoDots, SegmentFrom
    <3> QED BY <1>2, <2>1, <3>1, StartFacts
  <2>2. CASE p[m + 1] = Slash /\ TwoDots(p, m + 1)
    <3>1. SegmentFrom(p, m + 1) = m + 1
      BY <2>2 DEF SegmentFrom
    <3> QED BY <1>2, <2>2, <3>1, StartFacts
  <2> QED BY <2>1, <2>2
<1> QED BY <1>2, <1>3, <1>4 DEF Climbs

\* The element that is read after m, and what follows it.
LEMMA BehindDots ==
    ASSUME NEW B, NEW p \in Seq(B), NEW m \in 0 .. Len(p), m < Len(p),
           m + 1 \in ElementStarts(p), p[m + 1] = Slash, NotClimbed(p, m),
           NEW t \in m + 2 .. Len(p),
           \/ OneDot(p, m + 1) /\ t = m + 2
           \/ TwoDots(p, m + 1) /\ t = m + 3 /\ Left(p)[m] # {}
    PROVE  /\ Left(p)[t] = Left(p)[m + 1] /\ Boundary(p, t) /\ NotClimbed(p, t)
           /\ t = Len(p) => EndsInDots(p)
<1> DEFINE L == Left(p)
           q == DotPrefix(p)
<1>1. Len(p) \in Nat /\ m \in Nat /\ t \in Nat /\ q \in Nat /\ Dot # Slash
  BY StartsAre DEF Dot, Slash
<1>2. \A i : i \in ElementStarts(p) <=>
          i \in Int /\ q < i /\ i <= Len(p) /\ (i = q + 1 \/ p[i] = Slash)
  BY StartsAre
<1> HIDE DEF L, q
<1>3. \A j \in m + 2 .. t : p[j] # Slash /\ j \notin ElementStarts(p)
  <2>1. p[m + 2] = Dot /\ (t # m + 2 => t = m + 3 /\ p[m + 3] = Dot)
    <3>1. m + 1 + 1 = m + 2 /\ m + 1 + 2 = m + 3
      BY <1>1
    <3> QED BY <3>1 DEF OneDot, TwoDots
  <2>2. \A j \in m + 2 .. t : p[j] # Slash
    <3> TAKE j \in m + 2 .. t
    <3>1. j = m + 2 \/ j = m + 3
      BY <1>1
    <3> QED BY <1>1, <2>1, <3>1
  <2> QED BY <1>1, <1>2, <2>2
<1>4. m + 2 \in 1 .. Len(p) /\ m + 2 - 1 = m + 1 /\ m + 3 - 1 = m + 2
  BY <1>1
<1>5. L[t] = L[m + 1]
  <2>1. m + 2 \notin ElementStarts(p)
    BY <1>1, <1>3
  <2>2. L[m + 2] = L[m + 1]
    BY <1>4, <2>1, LeftStays DEF L
  <2>3. CASE t = m + 2
    BY <2>2, <2>3
  <2>4. CASE t # m + 2
    <3>1. t = m + 3 /\ m + 3 \in 1 .. Len(p) /\ m + 3 \notin ElementStarts(p)
      BY <1>1, <1>3, <2>4
    <3>2. L[m + 3] = L[m + 2]
      BY <1>4, <3>1, LeftStays DEF L
    <3> QED BY <2>2, <3>1, <3>2
  <2> QED BY <2>3, <2>4
<1>6. Boundary(p, t)
  <2> SUFFICES ASSUME t < Len(p) PROVE ~(t < q) /\ t + 1 \in ElementStarts(p)
    BY DEF Boundary, q
  <2>1. p[t + 1] = Slash
    <3>1. m + 1 + 1 = m + 2 /\ m + 1 + 2 = m + 3 /\ m + 1 + 3 = m + 4 /\ m + 2 + 1 = m + 3
          /\ m + 3 + 1 = m + 4
      BY <1>1
    <3> QED BY <1>1, <3>1 DEF OneDot, TwoDots
  <2> QED BY <1>1, <1>2, <2>1
<1>7. SegmentFrom(p, m + 1) = m + 1
  BY DEF SegmentFrom
<1>8. NotClimbed(p, t)
  <2> SUFFICES ASSUME NEW i \in ElementStarts(p), i <= t, Segment(p, i) = <<Dot, Dot>>
               PROVE  Left(p)[i - 1] # {}
    BY DEF NotClimbed
  <2>1. i \in Int
    BY <1>2
  <2>2. i <= m + 1
    BY <1>1, <1>3, <2>1
  <2>3. CASE i = m + 1
    <3>1. TwoDots(p, m + 1)
      BY <1>7, <2>3, StartFacts
    <3>2. ~OneDot(p, m + 1)
      BY <1>1, <3>1 DEF OneDot, TwoDots
    <3> QED BY <1>1, <2>3, <3>2
  <2>4. CASE i # m + 1
    <3>1. i <= m
      BY <1>1, <2>1, <2>2, <2>4
    <3> QED BY <3>1 DEF NotClimbed
  <2> QED BY <2>3, <2>4
<1>9. ASSUME t = Len(p) PROVE EndsInDots(p)
  <2>1. Segment(p, m + 1) \in DotElements
    BY <1>7, StartFacts DEF DotElements
  <2>2. ElementEnd(p, m + 1) = Len(p)
    <3>1. m + 1 \in 0 .. Len(p) /\ m + 1 + 1 = m + 2 /\ m + 1 + 2 = m + 3
      BY <1>1
    <3> QED BY <1>9, <3>1, DotElement
  <2> QED BY <2>1, <2>2 DEF EndsInDots
<1> QED BY <1>5, <1>6, <1>8, <1>9 DEF L

\* "/."
LEMMA WalkSkip ==
    ASSUME NEW B, NEW p \in Seq(B), NEW m \in 0 .. Len(p), m < Len(p), Boundary(p, m),
           p[m + 1] = Slash, OneDot(p, m + 1), NotClimbed(p, m)
    PROVE  /\ m + 2 \in 0 .. Len(p) /\ Boundary(p, m + 2) /\ NotClimbed(p, m + 2)
           /\ KeptUpTo(p, m + 2) = KeptUpTo(p, m)
           /\ m + 2 = Len(p) => EndsInDots(p)
<1>1. Len(p) \in Nat /\ m \in Nat /\ m + 1 - 1 = m
  OBVIOUS
<1>2. m + 1 \in ElementStarts(p)
  BY BoundaryStarts
<1>3. m + 2 \in m + 1 .. Len(p) /\ m + 2 \in m + 2 .. Len(p) /\ m + 2 \in 0 .. Len(p)
      /\ m + 1 \in 1 .. Len(p)
  BY <1>1 DEF OneDot
<1> DEFINE t == m + 2
<1>4. /\ Left(p)[t] = Left(p)[m + 1] /\ Boundary(p, t) /\ NotClimbed(p, t)
      /\ t = Len(p) => EndsInDots(p)
  <2>1. t \in m + 2 .. Len(p) /\ OneDot(p, m + 1) /\ t = m + 2
    BY <1>3
  <2> HIDE DEF t
  <2> QED BY <1>2, <2>1, BehindDots
<1>5. Left(p)[m + 1] = Left(p)[m]
  <2>1. Segment(p, m + 1) = <<Dot>>
    BY <1>2, StartFacts DEF SegmentFrom
  <2>2. Left(p)[m + 1] = ReadElement(p, m + 1, Left(p)[m + 1 - 1])
    BY <1>3, LeftSteps
  <2> QED BY <1>1, <2>1, <2>2 DEF ReadElement
<1>6. KeptUpTo(p, t) = KeptUpTo(p, m)
  <2>1. t \in m + 1 .. Len(p) /\ Left(p)[t] = Left(p)[m]
    BY <1>3, <1>4, <1>5
  <2> HIDE DEF t
  <2> QED BY <2>1, KeptStays
<1> QED BY <1>3, <1>4, <1>6

\* "/..": of what is kept the bytes of the last element go, those from b on.
LEMMA WalkPop ==
    ASSUME NEW B, NEW p \in Seq(B), NEW m \in 0 .. Len(p), m < Len(p), Boundary(p, m),
           p[m + 1] = Slash, TwoDots(p, m + 1), NotClimbed(p, m), KeptUpTo(p, m) # {}
    PROVE  /\ m + 3 \in 0 .. Len(p) /\ Boundary(p, m + 3) /\ NotClimbed(p, m + 3)
           /\ m + 3 = Len(p) => EndsInDots(p)
           /\ \E b \in KeptUpTo(p, m) :
                 /\ KeptUpTo(p, m + 3) = {k \in KeptUpTo(p, m) : k < b}
                 /\ \A k \in KeptUpTo(p, m) : b < k => p[k] # Slash
                 /\ p[b] = Slash \/ \A k \in KeptUpTo(p, m) : b <= k
<1> DEFINE t == m + 3
           q == DotPrefix(p)
           L == Left(p)
<1>1. Len(p) \in Nat /\ m \in Nat /\ m + 1 - 1 = m
  OBVIOUS
<1>2. m + 1 \in ElementStarts(p)
  BY BoundaryStarts
<1>3. t \in m + 2 .. Len(p) /\ t \in 0 .. Len(p) /\ m + 1 \in 1 .. Len(p) /\ m <= t
  BY <1>1 DEF TwoDots
<1>4. L[m] # {}
  BY KeptNone
<1>5. L[t] = L[m + 1] /\ Boundary(p, t) /\ NotClimbed(p, t) /\ (t = Len(p) => EndsInDots(p))
  <2>1. t = m + 3 /\ t \in m + 2 .. Len(p)
    BY <1>3
  <2> HIDE DEF t
  <2> QED BY <1>2, <1>4, <2>1, BehindDots
<1>6. L[m + 1] = {j \in L[m] : \E k \in L[m] : j < k}
  <2>1. Segment(p, m + 1) = <<Dot, Dot>>
    BY <1>2, StartFacts DEF SegmentFrom
  <2>2. L[m + 1] = ReadElement(p, m + 1, L[m + 1 - 1])
    BY <1>3, LeftSteps
  <2>3. <<Dot>> # <<Dot, Dot>>
    <3>1. Len(<<Dot>>) = 1 /\ Len(<<Dot, Dot>>) = 2
      OBVIOUS
    <3> QED BY <3>1
  <2> QED BY <1>1, <1>2, <2>1, <2>2, <2>3 DEF ReadElement
<1>7. \A i \in L[m] : /\ i \in 1 .. Len(p) /\ i <= m
                      /\ q < i /\ (i = q + 1 \/ p[i] = Slash)
  <2>1. \A i \in L[m] : i \in ElementStarts(p) /\ i <= m
    BY LeftArePlain DEF PlainStart
  <2>2. q \in Nat
    BY StartsAre
  <2> QED BY <1>1, <2>1, <2>2, StartsAre
<1>8. q \in Nat
  BY StartsAre
<1> HIDE DEF L, q
<1>9. PICK b \in L[m] : \A i \in L[m] : i <= b
  <2>1. L[m] \subseteq 0 .. Len(p)
    BY <1>7
  <2> QED BY <1>1, <1>4, <2>1, GreatestNatural
<1>10. L[t] = {i \in L[m] : i < b}
  BY <1>5, <1>6, <1>7, <1>9
<1>11. \A k : k \in KeptUpTo(p, m) <=>
            k \in 1 .. m /\ \E i \in L[m] : i <= k /\ \A j \in i + 1 .. k : p[j] # Slash
  BY <1>1 DEF KeptUpTo, BytesOf, L
<1>12. \A k : k \in KeptUpTo(p, t) <=>
            k \in 1 .. t /\ \E i \in L[m] : i < b /\ i <= k /\ \A j \in i + 1 .. k : p[j] # Slash
  <2>1. \A k : k \in KeptUpTo(p, t) <=>
            k \in 1 .. t /\ \E i \in L[t] : i <= k /\ \A j \in i + 1 .. k : p[j] # Slash
    <3> HIDE DEF t
    <3> QED BY <1>1, <1>3 DEF KeptUpTo, BytesOf, L
  <2> HIDE DEF t
  <2> QED BY <1>10, <2>1
<1>13. b \in KeptUpTo(p, m)
  <2>1. b \in 1 .. m /\ b <= b /\ \A j \in b + 1 .. b : p[j] # Slash
    BY <1>1, <1>7
  <2> QED BY <1>11, <2>1
<1>14. ASSUME NEW k \in KeptUpTo(p, t) PROVE k \in KeptUpTo(p, m) /\ k < b
  <2>1. PICK i \in L[m] : i < b /\ i <= k /\ \A j \in i + 1 .. k : p[j] # Slash
    BY <1>12
  <2>2. k \in 1 .. t /\ i \in Nat /\ i <= m /\ i <= b
    BY <1>7, <1>12, <2>1
  <2>3. k <= m
    BY <1>1, <2>1, <2>2
  <2>4. k \in KeptUpTo(p, m)
    BY <1>1, <1>11, <2>1, <2>2, <2>3
  <2>5. p[b] = Slash /\ b \in Nat
    BY <1>7, <1>8, <2>1
  <2>6. k < b
    BY <2>1, <2>2, <2>5
  <2> QED BY <2>4, <2>6
<1>15. ASSUME NEW k \in KeptUpTo(p, m), k < b PROVE k \in KeptUpTo(p, t)
  <2>1. PICK i \in L[m] : i <= k /\ \A j \in i + 1 .. k : p[j] # Slash
    BY <1>11
  <2>2. k \in 1 .. t /\ i < b
    BY <1>1, <1>3, <1>7, <1>11, <1>15, <2>1
  <2> QED BY <1>12, <2>1, <2>2
<1>16. KeptUpTo(p, t) = {k \in KeptUpTo(p, m) : k < b}
  BY <1>14, <1>15
<1>17. ASSUME NEW k \in KeptUpTo(p, m), b < k PROVE p[k] # Slash
  <2>1. PICK i \in L[m] : i <= k /\ \A j \in i + 1 .. k : p[j] # Slash
    BY <1>11
  <2>2. k \in i + 1 .. k
    BY <1>1, <1>7, <1>9, <1>11, <1>17, <2>1
  <2> QED BY <2>1, <2>2
<1>18. ASSUME p[b] # Slash, NEW k \in KeptUpTo(p, m) PROVE b <= k
  <2>1. PICK i \in L[m] : i <= k
    BY <1>11
  <2>2. b = q + 1 /\ q < i /\ i \in Nat /\ k \in Nat
    BY <1>7, <1>11, <1>18, <2>1
  <2> QED BY <1>8, <2>1, <2>2
<1> HIDE DEF t
<1>19. \E x \in KeptUpTo(p, m) :
                 /\ KeptUpTo(p, t) = {k \in KeptUpTo(p, m) : k < x}
                 /\ \A k \in KeptUpTo(p, m) : x < k => p[k] # Slash
                 /\ p[x] = Slash \/ \A k \in KeptUpTo(p, m) : x <= k
  BY <1>13, <1>16, <1>17, <1>18
<1> QED BY <1>3, <1>5, <1>19 DEF t

\* A plain element starts behind m; its slash, if it has one, is read at once.
LEMMA WalkMove ==
    ASSUME NEW B, NEW p \in Seq(B), NEW m \in 0 .. Len(p), m < Len(p), Boundary(p, m),
           ~OneDot(p, m), ~TwoDots(p, m),
           p[m + 1] = Slash => ~OneDot(p, m + 1) /\ ~TwoDots(p, m + 1), NotClimbed(p, m)
    PROVE  IF p[m + 1] = Slash
           THEN InElement(p, m + 1) /\ NotClimbed(p, m + 1)
                /\ KeptUpTo(p, m + 1) = KeptUpTo(p, m) \cup {m + 1}
           ELSE InElement(p, m)
<1>1. Len(p) \in Nat /\ m \in Nat /\ m + 1 - 1 = m /\ m + 1 \in 1 .. Len(p)
  OBVIOUS
<1>2. m + 1 \in ElementStarts(p)
  BY BoundaryStarts
<1>3. PlainStart(p, m + 1)
  BY <1>1, <1>2, StartFacts DEF PlainStart, DotElements, SegmentFrom
<1>4. CASE p[m + 1] # Slash
  <2>1. \A j \in m + 1 + 1 .. m : p[j] # Slash
    BY <1>1
  <2> QED BY <1>3, <1>4, <2>1 DEF InElement
<1>5. CASE p[m + 1] = Slash
  <2>1. Left(p)[m + 1] = Left(p)[m] \cup {m + 1}
    <3>1. Left(p)[m + 1] = ReadElement(p, m + 1, Left(p)[m + 1 - 1])
      BY <1>1, LeftSteps
    <3> QED BY <1>1, <1>2, <1>3, <3>1 DEF ReadElement, PlainStart, DotElements
  <2>2. InElement(p, m + 1)
    <3>1. \A j \in m + 1 + 1 .. m + 1 : p[j] # Slash
      BY <1>1
    <3>2. m + 1 \in Left(p)[m + 1]
      BY <2>1
    <3> QED BY <1>3, <3>1, <3>2 DEF InElement
  <2>3. NotClimbed(p, m + 1)
    <3> SUFFICES ASSUME NEW i \in ElementStarts(p), i <= m + 1, Segment(p, i) = <<Dot, Dot>>
                 PROVE  Left(p)[i - 1] # {}
      BY DEF NotClimbed
    <3>1. i # m + 1 /\ i \in Int
      BY <1>3, StartsAre DEF PlainStart, DotElements
    <3>2. i <= m
      BY <1>1, <3>1
    <3> QED BY <3>2 DEF NotClimbed
  <2>4. KeptUpTo(p, m + 1) = KeptUpTo(p, m) \cup {m + 1}
    <3>1. ASSUME NEW k \in 1 .. m
          PROVE  k \in BytesOf(p, Left(p)[m + 1]) <=> k \in BytesOf(p, Left(p)[m])
      BY <1>1, <2>1 DEF BytesOf
    <3>2. m + 1 \in BytesOf(p, Left(p)[m + 1])
      <4>1. m + 1 <= m + 1 /\ \A j \in m + 1 + 1 .. m + 1 : p[j] # Slash
        BY <1>1
      <4>2. \A S : m + 1 \in S => m + 1 \in BytesOf(p, S)
        BY <1>1, <4>1, StartHasBytes
      <4> QED BY <2>1, <4>2
    <3>3. \A S : BytesOf(p, S) \subseteq 1 .. Len(p)
      BY BytesAreInside
    <3>4. \A k : k \in KeptUpTo(p, m) <=> k \in 1 .. m /\ k \in BytesOf(p, Left(p)[m])
      BY <1>1, <3>3 DEF KeptUpTo
    <3>5. \A k : k \in KeptUpTo(p, m + 1) <=> k \in 1 .. m + 1 /\ k \in BytesOf(p, Left(p)[m + 1])
      BY <1>1, <3>3 DEF KeptUpTo
    <3>6. \A k : k \in 1 .. m + 1 <=> k \in 1 .. m \/ k = m + 1
      BY <1>1
    <3>7. \A k : k \in KeptUpTo(p, m + 1) <=> k \in KeptUpTo(p, m) \/ k = m + 1
      BY <3>1, <3>2, <3>4, <3>5, <3>6
    <3> QED BY <3>7
  <2> QED BY <1>5, <2>2, <2>3, <2>4
<1> QED BY <1>4, <1>5

\* Another byte of the element.
LEMMA WalkByte ==
    ASSUME NEW B, NEW p \in Seq(B), NEW m \in 0 .. Len(p), m < Len(p), InElement(p, m),
           p[m + 1] # Slash, NotClimbed(p, m)
    PROVE  /\ InElement(p, m + 1) /\ NotClimbed(p, m + 1)
           /\ KeptUpTo(p, m + 1) = KeptUpTo(p, m) \cup {m + 1}
<1>1. Len(p) \in Nat /\ m \in Nat /\ m + 1 - 1 = m /\ m + 1 \in 1 .. Len(p)
  OBVIOUS
<1>2. PICK a : /\ PlainStart(p, a)
               /\ \A j \in a + 1 .. m : p[j] # Slash
               /\ a \in Left(p)[m] \/ (a = m + 1 /\ p[a] # Slash)
  BY DEF InElement
<1>3. a \in 1 .. Len(p) /\ a <= m + 1 /\ a \in ElementStarts(p)
  <2>1. a \in Left(p)[m] => a <= m
    BY LeftArePlain
  <2> QED BY <1>1, <1>2, <2>1, StartFacts DEF PlainStart
<1>4. \A j \in a + 1 .. m + 1 : p[j] # Slash
  BY <1>1, <1>2, <1>3
<1>5. a \in Left(p)[m + 1] /\ Left(p)[m] \subseteq Left(p)[m + 1]
      /\ Left(p)[m + 1] \subseteq Left(p)[m] \cup {m + 1}
  <2>1. CASE a = m + 1
    <3>1. Left(p)[m + 1] = ReadElement(p, m + 1, Left(p)[m + 1 - 1])
      BY <1>1, LeftSteps
    <3> QED BY <1>1, <1>2, <2>1, <3>1 DEF ReadElement, PlainStart, DotElements
  <2>2. CASE a # m + 1
    <3>1. m + 1 \in a + 1 .. Len(p)
      BY <1>1, <1>3, <2>2
    <3>2. Left(p)[m + 1] = Left(p)[m + 1 - 1]
      BY <1>3, <3>1, LeftStaysInside
    <3> QED BY <1>1, <1>2, <2>2, <3>2
  <2> QED BY <2>1, <2>2
<1>6. InElement(p, m + 1)
  BY <1>2, <1>4, <1>5 DEF InElement
<1>7. NotClimbed(p, m + 1)
  <2> SUFFICES ASSUME NEW i \in ElementStarts(p), i <= m + 1, Segment(p, i) = <<Dot, Dot>>
               PROVE  Left(p)[i - 1] # {}
    BY DEF NotClimbed
  <2>1. i # m + 1 /\ i \in Int
    <3>1. CASE a = m + 1
      BY <1>2, <3>1, StartsAre DEF PlainStart, DotElements
    <3>2. CASE a # m + 1
      <4>1. m + 1 \in a + 1 .. Len(p)
        BY <1>1, <1>3, <3>2
      <4>2. m + 1 \notin ElementStarts(p)
        BY <1>3, <4>1, LeftStaysInside
      <4> QED BY <4>2, StartsAre
    <3> QED BY <3>1, <3>2
  <2>2. i <= m
    BY <1>1, <2>1
  <2> QED BY <2>2 DEF NotClimbed
<1>8. KeptUpTo(p, m + 1) = KeptUpTo(p, m) \cup {m + 1}
  <2>1. ASSUME NEW k \in 1 .. m
        PROVE  k \in BytesOf(p, Left(p)[m + 1]) <=> k \in BytesOf(p, Left(p)[m])
    BY <1>1, <1>5 DEF BytesOf
  <2>2. m + 1 \in BytesOf(p, Left(p)[m + 1])
    <3>1. \A S : a \in S => m + 1 \in BytesOf(p, S)
      BY <1>1, <1>3, <1>4, StartHasBytes
    <3> QED BY <1>5, <3>1
  <2>3. \A S : BytesOf(p, S) \subseteq 1 .. Len(p)
    BY BytesAreInside
  <2>4. \A k : k \in KeptUpTo(p, m) <=> k \in 1 .. m /\ k \in BytesOf(p, Left(p)[m])
    BY <1>1, <2>3 DEF KeptUpTo
  <2>5. \A k : k \in KeptUpTo(p, m + 1) <=> k \in 1 .. m + 1 /\ k \in BytesOf(p, Left(p)[m + 1])
    BY <1>1, <2>3 DEF KeptUpTo
  <2>6. \A k : k \in 1 .. m + 1 <=> k \in 1 .. m \/ k = m + 1
    BY <1>1
  <2>7. \A k : k \in KeptUpTo(p, m + 1) <=> k \in KeptUpTo(p, m) \/ k = m + 1
    BY <2>1, <2>2, <2>4, <2>5, <2>6
  <2> QED BY <2>7
<1> QED BY <1>6, <1>7, <1>8

\* The element ends: at the end of the path no dot segment is behind it.
LEMMA WalkEnd ==
    ASSUME NEW B, NEW p \in Seq(B), NEW m \in 0 .. Len(p), InElement(p, m),
           m = Len(p) \/ p[m + 1] = Slash
    PROVE  Boundary(p, m) /\ (m = Len(p) => ~EndsInDots(p))
<1> DEFINE q == DotPrefix(p)
<1>1. Len(p) \in Nat /\ m \in Nat /\ q \in Nat
  BY StartsAre
<1>2. PICK a : /\ PlainStart(p, a)
               /\ \A j \in a + 1 .. m : p[j] # Slash
               /\ a \in Left(p)[m] \/ (a = m + 1 /\ p[a] # Slash)
  BY DEF InElement
<1>3. a \in 1 .. Len(p) /\ a \in ElementStarts(p) /\ q < a /\ (a = q + 1 \/ p[a] = Slash)
  BY <1>2, StartFacts, StartsAre DEF PlainStart
<1>4. a <= m
  <2>1. a \in Left(p)[m] => a <= m
    BY LeftArePlain
  <2> QED BY <1>1, <1>2, <1>3, <2>1
<1>5. Boundary(p, m)
  <2> SUFFICES ASSUME m < Len(p) PROVE ~(m < q) /\ m + 1 \in ElementStarts(p)
    BY DEF Boundary
  <2>1. p[m + 1] = Slash
    BY <1>1
  <2> QED BY <1>1, <1>3, <1>4, <2>1, StartsAre
<1>6. ASSUME m = Len(p), NEW i \in ElementStarts(p), p[i] = Slash,
             Segment(p, i) \in DotElements, ElementEnd(p, i) = Len(p)
      PROVE  FALSE
  <2>1. i \in 1 .. Len(p) /\ q < i /\ i \in 0 .. Len(p)
    BY <1>1, StartFacts, StartsAre
  <2>2. \A j \in i + 1 .. Len(p) : p[j] # Slash
    BY <1>6, <2>1, ElementEnds
  <2>3. i # a
    BY <1>2, <1>6 DEF PlainStart
  <2>4. ~(a < i)
    BY <1>1, <1>2, <1>3, <1>6, <2>1
  <2>5. ~(i < a)
    BY <1>1, <1>3, <2>1, <2>2
  <2> QED BY <1>3, <2>1, <2>3, <2>4, <2>5
<1> QED BY <1>5, <1>6 DEF EndsInDots

\* Where the first dot segment is, all that is before it is kept.
LEMMA WalkStart ==
    ASSUME NEW B, NEW p \in Seq(B), NEW i \in 0 .. Len(p), i < Len(p), i = 0 \/ p[i] = Slash,
           \A k \in 0 .. i - 1 : k = 0 \/ p[k] = Slash => ~OneDot(p, k) /\ ~TwoDots(p, k)
    PROVE  LET m == IF i = 0 THEN 0 ELSE i - 1
           IN  /\ m \in 0 .. Len(p) /\ m < Len(p) /\ Boundary(p, m) /\ NotClimbed(p, m)
               /\ KeptUpTo(p, m) = 1 .. m
<1> DEFINE m == IF i = 0 THEN 0 ELSE i - 1
           q == DotPrefix(p)
<1>1. Len(p) \in Nat /\ i \in Nat /\ q \in Nat
  BY StartsAre
<1>2. CASE i = 0
  <2>1. 1 <= Len(p)
    BY <1>1, <1>2
  <2>2. Boundary(p, 0)
    <3> SUFFICES ASSUME ~(0 < q) PROVE 0 + 1 \in ElementStarts(p)
      BY DEF Boundary
    <3>1. q = 0
      BY <1>1
    <3> QED BY <2>1, <3>1, StartsAre
  <2>3. \A j \in ElementStarts(p) : ~(j <= 0)
    BY <1>1, StartsAre
  <2>4. NotClimbed(p, 0)
    BY <2>3 DEF NotClimbed
  <2>5. KeptUpTo(p, 0) = {}
    BY LeftSteps, KeptNone
  <2>6. 1 .. 0 = {} /\ 0 \in 0 .. Len(p) /\ 0 < Len(p)
    BY <2>1, <1>1
  <2> QED BY <1>2, <2>2, <2>4, <2>5, <2>6
<1>3. CASE i # 0
  <2>1. m = i - 1 /\ m \in 0 .. Len(p) /\ m \in Nat /\ m < Len(p) /\ m + 1 = i
    BY <1>1, <1>3
  <2> HIDE DEF m
  <2>2. q = 0
    <3>1. 0 \in 0 .. i - 1
      BY <1>1, <1>3
    <3>2. ~OneDot(p, 0)
      BY <3>1
    <3> QED BY <3>2, DotPrefixIsSegment
  <2>3. \A j \in ElementStarts(p) : j <= m => Segment(p, j) \notin DotElements
    <3> SUFFICES ASSUME NEW j \in ElementStarts(p), j <= m
                 PROVE  Segment(p, j) \notin DotElements
      OBVIOUS
    <3>1. j \in 1 .. Len(p) /\ (j = 1 \/ p[j] = Slash)
      BY <2>2, StartFacts, StartsAre
    <3>2. SegmentFrom(p, j) \in 0 .. i - 1
          /\ (SegmentFrom(p, j) = 0 \/ p[SegmentFrom(p, j)] = Slash)
      BY <1>1, <2>1, <3>1 DEF SegmentFrom
    <3>3. ~OneDot(p, SegmentFrom(p, j)) /\ ~TwoDots(p, SegmentFrom(p, j))
      BY <3>2
    <3> QED BY <3>3, StartFacts DEF DotElements
  <2>4. KeptUpTo(p, m) = 1 .. m
    BY <2>1, <2>2, <2>3, PlainPrefix DEF KeptUpTo
  <2>5. NotClimbed(p, m)
    BY <2>3 DEF NotClimbed, DotElements
  <2>6. Boundary(p, m)
    <3>1. i \in ElementStarts(p) /\ ~(m < q)
      BY <1>1, <1>3, <2>1, <2>2, StartsAre
    <3> QED BY <2>1, <3>1 DEF Boundary
  <2> QED BY <2>1, <2>4, <2>5, <2>6 DEF m
<1> QED BY <1>2, <1>3

\* What is kept of the whole path is what is left of it.
LEMMA KeptAtEnd ==
    ASSUME NEW B, NEW p \in Seq(B), NotClimbed(p, Len(p))
    PROVE  KeptUpTo(p, Len(p)) = Rest(p) /\ ~Climbs(p)
<1>1. Len(p) \in Nat
  OBVIOUS
<1>2. Rest(p) \subseteq 1 .. Len(p)
  BY BytesAreInside DEF Rest
<1>3. KeptUpTo(p, Len(p)) = Rest(p)
  BY <1>1, <1>2 DEF KeptUpTo, Rest
<1>4. \A i \in ElementStarts(p) : i <= Len(p)
  BY StartsAre
<1> QED BY <1>3, <1>4 DEF NotClimbed, Climbs

-----------------------------------------------------------------------------
(* Both passes *)

\* A path that redirectRoutingPath returns is not changed again, and no redirect
\* leads away from it.
THEOREM NormalizedIsStable ==
    ASSUME NEW B, Slash \in B, NEW p \in Seq(B), NEW merging, NEW collapsing,
           Normalized(merging, collapsing, p).ok
    PROVE  LET norm == Normalized(merging, collapsing, p).path
           IN  /\ norm \in Seq(B)
               /\ Normalized(merging, collapsing, norm) = [ok |-> TRUE, path |-> norm, redirect |-> FALSE]
               /\ merging # "exact" => ~HasDoubleSlash(norm)
               /\ collapsing # "exact" => ~HasDotSegment(norm)
<1> DEFINE m == IF merging = "exact" THEN p ELSE Merged(p)
           c == IF collapsing = "exact" THEN [ok |-> TRUE, out |-> m] ELSE Collapsed(m)
           norm == Normalized(merging, collapsing, p).path
<1>1. m \in Seq(B) /\ (merging # "exact" => ~HasDoubleSlash(m))
  BY MergeLeavesNoDouble
<1>2. norm = c.out /\ c.ok
  BY DEF Normalized
<1> HIDE DEF m, norm
<1>3. /\ norm \in Seq(B)
      /\ merging # "exact" => ~HasDoubleSlash(norm)
      /\ collapsing # "exact" => ~HasDotSegment(norm)
  <2>1. CASE collapsing = "exact"
    BY <1>1, <1>2, <2>1
  <2>2. CASE collapsing # "exact"
    <3>1. ~Climbs(m)
      BY <1>2, <2>2 DEF Collapsed, Rejected
    <3> QED BY <1>1, <1>2, <2>2, <3>1, CollapseLeavesNoDots, CollapseKeepsSingle
  <2> QED BY <2>1, <2>2
<1>4. (IF merging = "exact" THEN norm ELSE Merged(norm)) = norm
  BY <1>3, MergeLeavesSingle
<1>5. (IF collapsing = "exact" THEN [ok |-> TRUE, out |-> norm] ELSE Collapsed(norm))
        = [ok |-> TRUE, out |-> norm]
  BY <1>3, CollapseLeavesPlain
<1>6. Normalized(merging, collapsing, norm) = [ok |-> TRUE, path |-> norm, redirect |-> FALSE]
  <2> DEFINE m2 == IF merging = "exact" THEN norm ELSE Merged(norm)
             c2 == IF collapsing = "exact" THEN [ok |-> TRUE, out |-> m2] ELSE Collapsed(m2)
  <2>1. m2 = norm /\ c2 = [ok |-> TRUE, out |-> norm]
    BY <1>4, <1>5
  <2>2. Normalized(merging, collapsing, norm) =
            [ok |-> c2.ok, path |-> c2.out,
             redirect |-> c2.ok /\ \/ merging = "redirect" /\ m2 # norm
                                   \/ collapsing = "redirect" /\ c2.out # m2]
    BY DEF Normalized
  <2> HIDE DEF m2, c2
  <2>3. c2.ok = TRUE /\ c2.out = norm
    BY <2>1
  <2> QED BY <2>1, <2>2, <2>3
<1> QED BY <1>3, <1>6 DEF norm
=============================================================================
