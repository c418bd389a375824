------------------------- MODULE RegprogEndsProofs -------------------------
(***************************************************************************)
(* A listing of the prefixes that match (regprog.Ends) answers what         *)
(* matching each prefix afresh would, for every program, text and sequence  *)
(* of questions, whichever closures are listed at compile time.             *)
(*                                                                          *)
(* Recursive functions are reasoned about through the least element of a    *)
(* set of naturals, closures through what they are: the smallest set that   *)
(* has the instructions one starts from and is closed under the empty       *)
(* transitions.                                                             *)
(***************************************************************************)
EXTENDS RegprogEnds, NaturalsInduction, FiniteSetTheorems, SequenceTheorems, TLAPS

-----------------------------------------------------------------------------
(* Naturals *)

LEMMA LeastNatural ==
    ASSUME NEW T, T \subseteq Nat, T # {}
    PROVE  \E x \in T : \A y \in T : x <= y
<1> DEFINE R == OpToRel(<, Nat)
<1>1. IsWellFoundedOn(R, Nat)
  BY NatLessThanWellFounded, Zenon
<1>2. ASSUME NEW x \in Nat, NEW y \in Nat, ~(<<y, x>> \in R) PROVE x <= y
  BY <1>2 DEF OpToRel
<1> HIDE DEF R
<1>3. \E x \in T : \A y \in T : ~(<<y, x>> \in R)
  BY <1>1, WFMin
<1> QED BY <1>2, <1>3

\* Induction up to a bound, over a set instead of a predicate.
LEMMA UpTo ==
    ASSUME NEW N \in Nat, NEW S, 0 \in S, \A i \in 1 .. N : i - 1 \in S => i \in S
    PROVE  \A i \in 0 .. N : i \in S
<1> DEFINE T == {i \in 0 .. N : i \notin S}
<1> SUFFICES ASSUME T # {} PROVE FALSE
  OBVIOUS
<1>1. PICK x \in T : \A y \in T : x <= y
  <2>1. T \subseteq Nat
    OBVIOUS
  <2> HIDE DEF T
  <2> QED BY <2>1, LeastNatural
<1>2. x \in 1 .. N /\ x - 1 \in 0 .. N /\ x - 1 \notin T
  BY <1>1
<1> QED BY <1>1, <1>2

\* A function that is computed step by step exists.
Iterates(g, N, v0, F) == g = [k \in 0 .. N |-> IF k = 0 THEN v0 ELSE F[g[k - 1]]]

LEMMA IterationExists ==
    ASSUME NEW N \in Nat, NEW V, NEW v0 \in V, NEW F \in [V -> V]
    PROVE  \E g \in [0 .. N -> V] : Iterates(g, N, v0, F)
<1> DEFINE Part(m) == \E g \in [0 .. m -> V] : Iterates(g, m, v0, F)
           S == {m \in 0 .. N : Part(m)}
<1>1. Part(0)
  <2> DEFINE g == [k \in 0 .. 0 |-> v0]
  <2>1. g \in [0 .. 0 -> V] /\ Iterates(g, 0, v0, F)
    BY DEF Iterates
  <2> QED BY <2>1
<1>2. ASSUME NEW m \in 1 .. N, Part(m - 1) PROVE Part(m)
  <2>1. PICK g \in [0 .. m - 1 -> V] : Iterates(g, m - 1, v0, F)
    BY <1>2
  <2>2. m - 1 \in 0 .. m - 1 /\ F[g[m - 1]] \in V
    BY <2>1
  <2> DEFINE h == [k \in 0 .. m |-> IF k < m THEN g[k] ELSE F[g[m - 1]]]
  <2>3. h \in [0 .. m -> V]
    <3>1. \A k \in 0 .. m : k < m => k \in 0 .. m - 1
      OBVIOUS
    <3> QED BY <2>1, <2>2, <3>1
  <2>4. ASSUME NEW k \in 0 .. m PROVE h[k] = IF k = 0 THEN v0 ELSE F[h[k - 1]]
    <3>1. CASE k = 0
      <4>1. h[0] = g[0] /\ 0 \in 0 .. m - 1
        OBVIOUS
      <4>2. g[0] = v0
        BY <2>1, <4>1 DEF Iterates
      <4> QED BY <3>1, <4>1, <4>2
    <3>2. CASE k # 0
      <4>1. k - 1 \in 0 .. m - 1 /\ h[k - 1] = g[k - 1]
        BY <3>2
      <4>2. CASE k < m
        <5>1. k \in 0 .. m - 1 /\ h[k] = g[k]
          BY <4>2
        <5>2. g[k] = F[g[k - 1]]
          BY <2>1, <3>2, <5>1 DEF Iterates
        <5> QED BY <3>2, <4>1, <5>1, <5>2
      <4>3. CASE k = m
        <5>1. h[m] = F[g[m - 1]]
          OBVIOUS
        <5> HIDE DEF h
        <5> QED BY <3>2, <4>1, <4>3, <5>1
      <4> QED BY <4>2, <4>3
    <3> QED BY <3>1, <3>2
  <2> HIDE DEF h
  <2>5. Iterates(h, m, v0, F)
    BY <2>3, <2>4 DEF Iterates
  <2> QED BY <2>3, <2>5
<1> HIDE DEF Part
<1>3. \A m \in 0 .. N : m \in S
  <2>1. 0 \in S
    BY <1>1
  <2>2. \A m \in 1 .. N : m - 1 \in S => m \in S
    BY <1>2
  <2> HIDE DEF S
  <2> QED BY <2>1, <2>2, UpTo
<1>4. Part(N)
  BY <1>3
<1> QED BY <1>4 DEF Part

-----------------------------------------------------------------------------
(* What is reached *)

\* The set C has all that is led to from it.
ClosedFor(C, leads) == \A pc \in C \cap DOMAIN leads : leads[pc] \subseteq C

\* One step further, for every set of instructions.
OneFurther(D, leads) == [T \in SUBSET D |-> T \cup UNION {leads[pc] : pc \in T}]

SpreadRun(g, N, D, leads, S) ==
    /\ g \in [0 .. N -> SUBSET D]
    /\ Spread(leads, S) = g[N]
    /\ g[0] = S
    /\ \A k \in 1 .. N : g[k] = g[k - 1] \cup UNION {leads[pc] : pc \in g[k - 1]}

LEMMA SpreadIterates ==
    ASSUME NEW D, IsFiniteSet(D), NEW leads \in [D -> SUBSET D], NEW S \in SUBSET D
    PROVE  \E g : SpreadRun(g, Cardinality(D), D, leads, S)
<1> DEFINE N == Cardinality(D)
           F == OneFurther(D, leads)
           Body(g) == [k \in 0 .. N |-> IF k = 0 THEN S ELSE g[k - 1] \cup UNION {leads[pc] : pc \in g[k - 1]}]
           r == CHOOSE g : g = Body(g)
<1>1. N \in Nat
  BY FS_CardinalityType
<1>2. Spread(leads, S) = r[N]
  <2>1. DOMAIN leads = D
    OBVIOUS
  <2> QED BY <2>1 DEF Spread
<1>3. F \in [SUBSET D -> SUBSET D]
  <2>1. ASSUME NEW T \in SUBSET D PROVE T \cup UNION {leads[pc] : pc \in T} \in SUBSET D
    OBVIOUS
  <2> QED BY <2>1 DEF OneFurther
<1>4. PICK g \in [0 .. N -> SUBSET D] : Iterates(g, N, S, F)
  <2> HIDE DEF F, N
  <2> QED BY <1>1, <1>3, IterationExists
<1>5. g = Body(g)
  <2>1. ASSUME NEW k \in 0 .. N
        PROVE  g[k] = IF k = 0 THEN S ELSE g[k - 1] \cup UNION {leads[pc] : pc \in g[k - 1]}
    <3>1. CASE k = 0
      BY <1>1, <1>4, <3>1 DEF Iterates
    <3>2. CASE k # 0
      <4>1. k - 1 \in 0 .. N
        BY <1>1, <3>2
      <4>2. g[k] = F[g[k - 1]]
        <5> HIDE DEF F, N
        <5> QED BY <1>4, <3>2 DEF Iterates
      <4>3. g[k - 1] \in SUBSET D
        BY <4>1
      <4> QED BY <3>2, <4>2, <4>3 DEF OneFurther
    <3> QED BY <3>1, <3>2
  <2> HIDE DEF N
  <2> QED BY <2>1
<1>6. r = Body(r)
  <2> HIDE DEF Body
  <2> QED BY <1>5
<1> HIDE DEF F
<1> HIDE DEF r
<1>7. r[0] = S /\ \A k \in 1 .. N : r[k] = r[k - 1] \cup UNION {leads[pc] : pc \in r[k - 1]}
  <2>1. 0 \in 0 .. N /\ \A k \in 1 .. N : k \in 0 .. N /\ k # 0
    BY <1>1
  <2> HIDE DEF N
  <2> QED BY <1>6, <2>1
<1>8. \A k \in 0 .. N : r[k] \in SUBSET D
  <2> DEFINE K == {k \in 0 .. N : r[k] \in SUBSET D}
  <2>1. 0 \in K
    BY <1>1, <1>7
  <2>2. ASSUME NEW k \in 1 .. N, k - 1 \in K PROVE k \in K
    <3>1. r[k] = r[k - 1] \cup UNION {leads[pc] : pc \in r[k - 1]} /\ r[k - 1] \in SUBSET D
      BY <1>7, <2>2
    <3>2. r[k] \in SUBSET D
      BY <3>1
    <3> QED BY <1>1, <3>2
  <2>3. \A k \in 0 .. N : k \in K
    <3> HIDE DEF K, N
    <3> QED BY <1>1, <2>1, <2>2, UpTo
  <2> QED BY <2>3
<1>9. r \in [0 .. N -> SUBSET D]
  BY <1>6, <1>8
<1>10. SpreadRun(r, N, D, leads, S)
  <2> HIDE DEF N
  <2> QED BY <1>2, <1>7, <1>9 DEF SpreadRun
<1> QED BY <1>10

\* Spread(leads, S) is the smallest set that has S and is closed.
LEMMA SpreadFacts ==
    ASSUME NEW D, IsFiniteSet(D), NEW leads \in [D -> SUBSET D], NEW S \in SUBSET D
    PROVE  /\ S \subseteq Spread(leads, S) /\ Spread(leads, S) \in SUBSET D
           /\ ClosedFor(Spread(leads, S), leads)
           /\ \A C : S \subseteq C /\ ClosedFor(C, leads) => Spread(leads, S) \subseteq C
<1> DEFINE N == Cardinality(D)
<1>1. N \in Nat
  BY FS_CardinalityType
<1>2. PICK g : SpreadRun(g, N, D, leads, S)
  BY SpreadIterates
<1> HIDE DEF N
<1>3. ASSUME NEW C, S \subseteq C, ClosedFor(C, leads) PROVE g[N] \subseteq C
  <2> DEFINE K == {k \in 0 .. N : g[k] \subseteq C}
  <2>1. 0 \in K
    BY <1>1, <1>2, <1>3 DEF SpreadRun
  <2>2. ASSUME NEW k \in 1 .. N, k - 1 \in K PROVE k \in K
    <3>1. g[k] = g[k - 1] \cup UNION {leads[pc] : pc \in g[k - 1]} /\ g[k - 1] \subseteq C
      BY <1>2, <2>2 DEF SpreadRun
    <3>2. g[k - 1] \in SUBSET D
      BY <1>1, <1>2 DEF SpreadRun
    <3>3. \A pc \in g[k - 1] : leads[pc] \subseteq C
      BY <1>3, <3>1, <3>2 DEF ClosedFor
    <3>4. g[k] \subseteq C
      BY <3>1, <3>3
    <3> QED BY <1>1, <3>4
  <2>3. \A k \in 0 .. N : k \in K
    <3> HIDE DEF K
    <3> QED BY <1>1, <2>1, <2>2, UpTo
  <2> QED BY <1>1, <2>3
<1>4. S \subseteq g[N]
  <2> DEFINE K == {k \in 0 .. N : S \subseteq g[k]}
  <2>1. 0 \in K
    BY <1>1, <1>2 DEF SpreadRun
  <2>2. ASSUME NEW k \in 1 .. N, k - 1 \in K PROVE k \in K
    <3>1. g[k] = g[k - 1] \cup UNION {leads[pc] : pc \in g[k - 1]} /\ S \subseteq g[k - 1]
      BY <1>2, <2>2 DEF SpreadRun
    <3>2. S \subseteq g[k]
      BY <3>1
    <3> QED BY <1>1, <3>2
  <2>3. \A k \in 0 .. N : k \in K
    <3> HIDE DEF K
    <3> QED BY <1>1, <2>1, <2>2, UpTo
  <2> QED BY <1>1, <2>3
\* A set that is not closed yet grows, and there are N elements to grow by.
<1>5. ClosedFor(g[N], leads)
  <2> DEFINE Done(T) == ClosedFor(T, leads)
             K == {k \in 0 .. N : Done(g[k]) \/ k <= Cardinality(g[k])}
  <2>1. \A k \in 0 .. N : /\ IsFiniteSet(g[k]) /\ Cardinality(g[k]) \in Nat
                          /\ Cardinality(g[k]) <= N
                          /\ Cardinality(g[k]) = N => g[k] = D
    <3> SUFFICES ASSUME NEW k \in 0 .. N
                 PROVE  /\ IsFiniteSet(g[k]) /\ Cardinality(g[k]) \in Nat
                        /\ Cardinality(g[k]) <= N
                        /\ Cardinality(g[k]) = N => g[k] = D
      OBVIOUS
    <3>1. g[k] \in SUBSET D
      BY <1>2 DEF SpreadRun
    <3>2. IsFiniteSet(g[k]) /\ Cardinality(g[k]) <= N /\ (N = Cardinality(g[k]) => D = g[k])
      BY <3>1, FS_Subset DEF N
    <3> QED BY <3>2, FS_CardinalityType
  <2>2. 0 \in K
    BY <1>1, <2>1
  <2>3. ASSUME NEW k \in 1 .. N, k - 1 \in K PROVE k \in K
    <3>1. /\ g[k] = g[k - 1] \cup UNION {leads[pc] : pc \in g[k - 1]}
          /\ k - 1 \in 0 .. N /\ k \in 0 .. N /\ k \in Nat
      BY <1>1, <1>2 DEF SpreadRun
    <3>2. g[k - 1] \in SUBSET D
      BY <1>2, <3>1 DEF SpreadRun
    <3>3. CASE Done(g[k - 1])
      <4>1. \A pc \in g[k - 1] : leads[pc] \subseteq g[k - 1]
        BY <3>2, <3>3 DEF ClosedFor
      <4>2. g[k] = g[k - 1]
        BY <3>1, <4>1
      <4> QED BY <3>1, <3>3, <4>2
    <3>4. CASE ~Done(g[k - 1])
      <4>1. k - 1 <= Cardinality(g[k - 1])
        BY <2>3, <3>4
      <4>2. g[k] # g[k - 1] /\ g[k - 1] \in SUBSET g[k]
        BY <3>1, <3>4 DEF ClosedFor
      <4>3. Cardinality(g[k - 1]) <= Cardinality(g[k]) /\ Cardinality(g[k]) # Cardinality(g[k - 1])
        BY <2>1, <3>1, <4>2, FS_Subset
      <4>4. Cardinality(g[k - 1]) \in Nat /\ Cardinality(g[k]) \in Nat
        BY <2>1, <3>1
      <4>5. k <= Cardinality(g[k])
        BY <3>1, <4>1, <4>3, <4>4
      <4> QED BY <3>1, <4>5
    <3> QED BY <3>3, <3>4
  <2>4. \A k \in 0 .. N : k \in K
    <3> HIDE DEF K
    <3> QED BY <1>1, <2>2, <2>3, UpTo
  <2>5. CASE Done(g[N])
    BY <2>5
  <2>6. CASE ~Done(g[N])
    <3>1. N \in 0 .. N
      BY <1>1
    <3>2. N <= Cardinality(g[N])
      BY <2>4, <2>6, <3>1
    <3>3. g[N] = D
      BY <1>1, <2>1, <3>1, <3>2
    <3>4. Done(g[N])
      BY <3>3 DEF ClosedFor
    <3> QED BY <2>6, <3>4
  <2> QED BY <2>5, <2>6
<1>6. g[N] \in SUBSET D
  BY <1>1, <1>2 DEF SpreadRun
<1> QED BY <1>2, <1>3, <1>4, <1>5, <1>6 DEF SpreadRun

-----------------------------------------------------------------------------
(* Closures *)

\* Where an instruction of a program leads is in the program.
LEMMA EmptyInside ==
    ASSUME NEW g, WellFormed(g), NEW pc \in DOMAIN g, NEW flag
    PROVE  /\ Empty(g, pc, flag) \in SUBSET DOMAIN g
           /\ g[pc].op \in {"rune", "match", "fail"} => Empty(g, pc, flag) = {}
BY DEF Empty, WellFormed

LEMMA ClosureFacts ==
    ASSUME NEW g, WellFormed(g), NEW S \in SUBSET DOMAIN g, NEW flag
    PROVE  LET C == Closure(g, S, flag)
           IN  /\ S \subseteq C /\ C \in SUBSET DOMAIN g
               /\ \A pc \in C : Empty(g, pc, flag) \subseteq C
               /\ \A T : S \subseteq T /\ (\A pc \in T \cap DOMAIN g : Empty(g, pc, flag) \subseteq T)
                            => C \subseteq T
<1> DEFINE leads == [pc \in DOMAIN g |-> Empty(g, pc, flag)]
           C == Closure(g, S, flag)
<1>1. leads \in [DOMAIN g -> SUBSET DOMAIN g] /\ IsFiniteSet(DOMAIN g)
  BY EmptyInside DEF WellFormed
<1>2. C = Spread(leads, S)
  BY DEF Closure
<1>3. \A T : ClosedFor(T, leads) <=> \A pc \in T \cap DOMAIN g : Empty(g, pc, flag) \subseteq T
  BY DEF ClosedFor
<1> HIDE DEF leads, C
<1>4. /\ S \subseteq C /\ C \in SUBSET DOMAIN g
      /\ ClosedFor(C, leads)
      /\ \A T : S \subseteq T /\ ClosedFor(T, leads) => C \subseteq T
  BY <1>1, <1>2, SpreadFacts
<1>5. \A pc \in C : Empty(g, pc, flag) \subseteq C
  BY <1>3, <1>4
<1> QED BY <1>3, <1>4, <1>5 DEF C

\* Nothing is reached from nowhere.
LEMMA ClosureNone ==
    ASSUME NEW g, WellFormed(g), NEW flag
    PROVE  Closure(g, {}, flag) = {}
<1>1. {} \in SUBSET DOMAIN g
  OBVIOUS
<1>2. Closure(g, {}, flag) \subseteq {}
  BY <1>1, ClosureFacts
<1> QED BY <1>2

\* The instructions that follow those of cur that match a rune.
Outs(g, pcs) == {g[pc].out : pc \in pcs}

LEMMA OutsInside ==
    ASSUME NEW g, WellFormed(g), NEW pcs \in SUBSET RuneInsts(g)
    PROVE  Outs(g, pcs) \in SUBSET DOMAIN g
BY DEF Outs, RuneInsts, WellFormed

MatchInsts(g) == {pc \in DOMAIN g : g[pc].op = "match"}

\* builder.last and Regexp.Accepts: an instruction is accepting if and only if a
\* match is in the closure of what follows it, searched backwards from the matches
\* or forwards.
THEOREM AcceptedIs ==
    ASSUME NEW g, WellFormed(g), NEW pcs \in SUBSET RuneInsts(g), NEW prev
    PROVE  Accepted(g, prev, pcs) <=>
              \E pc \in Closure(g, Outs(g, pcs), Holding(prev, Edge)) : g[pc].op = "match"
<1> DEFINE flag == Holding(prev, Edge)
           D == DOMAIN g
           back == [pc \in D |-> {q \in D : pc \in Empty(g, q, flag)}]
           M == MatchInsts(g)
           L == Leading(g, M, flag)
           O == Outs(g, pcs)
           C == Closure(g, O, flag)
<1>1. back \in [D -> SUBSET D] /\ IsFiniteSet(D) /\ M \in SUBSET D
  BY DEF WellFormed, MatchInsts
<1>2. L = Spread(back, M)
  BY DEF Leading
<1>3. Accepted(g, prev, pcs) <=> O \cap L # {}
  BY DEF Accepted, Outs, MatchInsts
<1>4. O \in SUBSET D
  BY OutsInside
<1>5. \A T : ClosedFor(T, back) <=>
          \A pc \in T \cap D : \A q \in D : pc \in Empty(g, q, flag) => q \in T
  BY DEF ClosedFor
<1> HIDE DEF flag, back, L, C
<1>6. /\ M \subseteq L /\ L \in SUBSET D
      /\ ClosedFor(L, back)
      /\ \A T : M \subseteq T /\ ClosedFor(T, back) => L \subseteq T
  <2> HIDE DEF D, M
  <2> QED BY <1>1, <1>2, SpreadFacts
<1>7. \A pc \in D : Empty(g, pc, flag) \in SUBSET D
  BY EmptyInside
<1>8. /\ O \subseteq C /\ C \in SUBSET D
      /\ \A pc \in C : Empty(g, pc, flag) \subseteq C
      /\ \A T : O \subseteq T /\ (\A pc \in T \cap D : Empty(g, pc, flag) \subseteq T) => C \subseteq T
  <2> HIDE DEF O
  <2> QED BY <1>4, ClosureFacts DEF C
<1> HIDE DEF D, M, O
<1>9. ASSUME O \cap L = {} PROVE C \cap M = {}
  <2> DEFINE T == D \ L
  <2>1. O \subseteq T
    BY <1>4, <1>9
  <2>2. ASSUME NEW pc \in T PROVE Empty(g, pc, flag) \subseteq T
    <3>1. \A x \in Empty(g, pc, flag) : x \in D /\ x \notin L
      BY <1>5, <1>6, <1>7
    <3> QED BY <3>1
  <2>3. C \subseteq T
    <3> HIDE DEF T
    <3> QED BY <1>8, <2>1, <2>2
  <2> QED BY <1>6, <2>3
<1>10. ASSUME C \cap M = {} PROVE O \cap L = {}
  \* What leads to a match cannot be in the closure.
  <2> DEFINE T == D \ C
  <2>1. M \subseteq T
    BY <1>1, <1>10
  <2>2. ClosedFor(T, back)
    BY <1>5, <1>8
  <2>3. L \subseteq T
    <3> HIDE DEF T
    <3> QED BY <1>6, <2>1, <2>2
  <2> QED BY <1>8, <2>3
<1>11. (\E pc \in C : g[pc].op = "match") <=> C \cap M # {}
  BY <1>8 DEF M, MatchInsts, D
<1> QED BY <1>3, <1>9, <1>10, <1>11 DEF C, flag, O

\* A closure that is expanded when it is read.
Large(g, pc, flag) == Cardinality(ClosureOf(g, pc, flag)) > MaxClosure

\* What Follow lists of an instruction.
LEMMA FollowFacts ==
    ASSUME NEW g, WellFormed(g), NEW pc \in DOMAIN g, NEW flag
    PROVE  /\ FollowOf(g, pc, flag) \in SUBSET DOMAIN g
           /\ pc \notin RuneInsts(g) =>
                 FollowOf(g, pc, flag) = {x \in Empty(g, pc, flag) : g[x].op \notin {"match", "fail"}}
           /\ pc \in RuneInsts(g) =>
                 FollowOf(g, pc, flag) =
                    IF Large(g, pc, flag) THEN {x \in {g[pc].out} : g[x].op \notin {"match", "fail"}}
                    ELSE Closure(g, {g[pc].out}, flag) \cap RuneInsts(g)
<1>1. Empty(g, pc, flag) \in SUBSET DOMAIN g
  BY EmptyInside
<1>2. pc \in RuneInsts(g) <=> g[pc].op = "rune"
  BY DEF RuneInsts
<1>3. pc \in RuneInsts(g) => g[pc].out \in DOMAIN g
  BY <1>2 DEF WellFormed
<1>4. RuneInsts(g) \subseteq DOMAIN g
  BY DEF RuneInsts
<1> QED BY <1>1, <1>2, <1>3, <1>4 DEF FollowOf, FollowList, Entries, ClosureOf, Large

\* Regexp.Next reaches exactly the rune instructions of the closure, whichever
\* closures are so large that they are listed by an entry and expanded when read.
THEOREM ExpandedIs ==
    ASSUME NEW g, WellFormed(g), NEW pcs \in SUBSET RuneInsts(g), NEW flag
    PROVE  Expanded(g, pcs, flag, {}).pcs = Closure(g, Outs(g, pcs), flag) \cap RuneInsts(g)
<1> DEFINE D == DOMAIN g
           R == RuneInsts(g)
           O == Outs(g, pcs)
           C == Closure(g, O, flag)
           Follow(pc) == FollowOf(g, pc, flag)
           leads == [pc \in D |-> IF g[pc].op = "rune" THEN {} ELSE Follow(pc) \ {}]
           start == UNION {Follow(pc) : pc \in pcs} \ {}
           new == Spread(leads, start)
           Ends(x) == g[x].op \in {"match", "fail"}
<1>1. Expanded(g, pcs, flag, {}).pcs = new \cap R
  <2> DEFINE follow == [pc \in D |-> Follow(pc)]
  <2>1. Expansion(g, pcs, follow, {}) = new
    <3>1. \A pc \in D : follow[pc] = Follow(pc)
      OBVIOUS
    <3>2. pcs \subseteq D
      BY DEF RuneInsts
    <3> HIDE DEF follow, Follow
    <3>3. [pc \in D |-> IF g[pc].op = "rune" THEN {} ELSE follow[pc] \ {}] = leads
      BY <3>1
    <3>4. UNION {follow[pc] : pc \in pcs} \ {} = start
      BY <3>1, <3>2
    <3> HIDE DEF leads, start
    <3> QED BY <3>3, <3>4 DEF Expansion
  <2>2. Expanded(g, pcs, flag, {}) = Sorted(g, {}, Expansion(g, pcs, follow, {}))
    BY DEF Expanded
  <2> HIDE DEF new
  <2> QED BY <2>1, <2>2 DEF Sorted
<1>2. R \in SUBSET D /\ (\A pc \in D : pc \in R <=> g[pc].op = "rune") /\ IsFiniteSet(D)
  BY DEF RuneInsts, WellFormed
<1>3. \A pc \in D : /\ Follow(pc) \in SUBSET D
                    /\ pc \notin R => Follow(pc) = {x \in Empty(g, pc, flag) : ~Ends(x)}
                    /\ pc \in R => Follow(pc) = IF Large(g, pc, flag) THEN {x \in {g[pc].out} : ~Ends(x)}
                                                ELSE Closure(g, {g[pc].out}, flag) \cap R
  BY FollowFacts
<1>4. \A pc \in D : Empty(g, pc, flag) \in SUBSET D /\ (pc \in R => Empty(g, pc, flag) = {})
  BY <1>2, EmptyInside
<1>5. O \in SUBSET D /\ O = {g[pc].out : pc \in pcs}
  BY OutsInside DEF Outs
<1> HIDE DEF O
<1>6. /\ O \subseteq C /\ C \in SUBSET D
      /\ \A pc \in C : Empty(g, pc, flag) \subseteq C
      /\ \A T : O \subseteq T /\ (\A pc \in T \cap D : Empty(g, pc, flag) \subseteq T) => C \subseteq T
  BY <1>5, ClosureFacts
<1>7. ASSUME NEW pc \in pcs
      PROVE  LET K == Closure(g, {g[pc].out}, flag)
             IN  /\ g[pc].out \in K /\ K \in SUBSET D /\ K \subseteq C
                 /\ \A x \in K : Empty(g, x, flag) \subseteq K
  <2>1. {g[pc].out} \in SUBSET D /\ {g[pc].out} \subseteq C
    BY <1>5, <1>6
  <2>2. \A x \in C \cap D : Empty(g, x, flag) \subseteq C
    BY <1>6
  <2> DEFINE K == Closure(g, {g[pc].out}, flag)
  <2>3. /\ {g[pc].out} \subseteq K /\ K \in SUBSET D
        /\ \A x \in K : Empty(g, x, flag) \subseteq K
        /\ \A T : {g[pc].out} \subseteq T /\ (\A x \in T \cap D : Empty(g, x, flag) \subseteq T)
                     => K \subseteq T
    BY <2>1, ClosureFacts
  <2> HIDE DEF K, C, D
  <2>4. K \subseteq C
    BY <2>1, <2>2, <2>3
  <2> QED BY <2>3, <2>4 DEF K
<1>8. leads \in [D -> SUBSET D] /\ start \in SUBSET D
  BY <1>2, <1>3
<1>9. \A T : ClosedFor(T, leads) <=> \A pc \in T \cap D : pc \notin R => Follow(pc) \subseteq T
  <2>1. DOMAIN leads = D /\ \A pc \in D : leads[pc] = IF pc \in R THEN {} ELSE Follow(pc)
    BY <1>2
  <2> HIDE DEF leads, Follow, D, R
  <2> QED BY <2>1 DEF ClosedFor
<1>10. start = UNION {Follow(pc) : pc \in pcs}
  OBVIOUS
<1> HIDE DEF leads, start, new, C, Ends, Follow
<1>11. /\ start \subseteq new /\ new \in SUBSET D
       /\ ClosedFor(new, leads)
       /\ \A T : start \subseteq T /\ ClosedFor(T, leads) => new \subseteq T
  <2>1. new = Spread(leads, start)
    BY DEF new
  <2> HIDE DEF D
  <2> QED BY <1>2, <1>8, <2>1, SpreadFacts
<1>12. pcs \subseteq R
  OBVIOUS
<1> HIDE DEF D, R
<1>13. new \subseteq C
  <2>1. ASSUME NEW pc \in pcs PROVE Follow(pc) \subseteq C
    <3>1. pc \in D /\ pc \in R
      BY <1>2, <1>12
    <3>2. Closure(g, {g[pc].out}, flag) \subseteq C /\ g[pc].out \in C
      BY <1>5, <1>6, <1>7
    <3> QED BY <1>3, <3>1, <3>2
  <2>2. start \subseteq C
    BY <1>10, <2>1
  <2>3. ASSUME NEW pc \in C \cap D, pc \notin R PROVE Follow(pc) \subseteq C
    BY <1>3, <1>6, <2>3
  <2>4. ClosedFor(C, leads)
    BY <1>9, <2>3
  <2> QED BY <1>11, <2>2, <2>4
<1>14. C \cap R \subseteq new
  <2> DEFINE Small == UNION {Closure(g, {g[pc].out}, flag) : pc \in {x \in pcs : ~Large(g, x, flag)}}
             T == new \cup {x \in D : Ends(x)} \cup Small
  <2>1. ASSUME NEW x \in Small
        PROVE  /\ Empty(g, x, flag) \subseteq Small
               /\ x \in D /\ (x \in R => x \in new)
    <3>1. PICK pc \in pcs : ~Large(g, pc, flag) /\ x \in Closure(g, {g[pc].out}, flag)
      BY <2>1
    <3>2. Empty(g, x, flag) \subseteq Closure(g, {g[pc].out}, flag) /\ x \in D
      BY <1>7, <3>1
    <3>3. pc \in D /\ pc \in R
      BY <1>2, <1>12
    <3>4. Follow(pc) = Closure(g, {g[pc].out}, flag) \cap R
      BY <1>3, <3>1, <3>3
    <3>5. Follow(pc) \subseteq new
      BY <1>10, <1>11
    <3> QED BY <3>1, <3>2, <3>4, <3>5
  <2>2. O \subseteq T
    <3> SUFFICES ASSUME NEW pc \in pcs PROVE g[pc].out \in T
      BY <1>5
    <3>1. pc \in D /\ pc \in R /\ g[pc].out \in D
      BY <1>2, <1>5, <1>12
    <3>2. CASE Large(g, pc, flag)
      <4>1. Follow(pc) = {x \in {g[pc].out} : ~Ends(x)}
        BY <1>3, <3>1, <3>2
      <4>2. Follow(pc) \subseteq new
        BY <1>10, <1>11
      <4> QED BY <3>1, <4>1, <4>2
    <3>3. CASE ~Large(g, pc, flag)
      <4>1. g[pc].out \in Closure(g, {g[pc].out}, flag)
        BY <1>7
      <4> QED BY <3>3, <4>1
    <3> QED BY <3>2, <3>3
  <2>3. ASSUME NEW x \in T \cap D PROVE Empty(g, x, flag) \subseteq T
    <3>1. CASE x \in Small
      BY <2>1, <3>1
    <3>2. CASE Ends(x)
      <4>1. Empty(g, x, flag) = {}
        BY <3>2, EmptyInside DEF Ends, D
      <4> QED BY <4>1
    <3>3. CASE x \in new /\ ~Ends(x)
      <4>1. CASE x \in R
        BY <1>4, <4>1
      <4>2. CASE x \notin R
        <5>1. Follow(x) = {y \in Empty(g, x, flag) : ~Ends(y)} /\ Follow(x) \subseteq new
          BY <1>3, <1>9, <1>11, <4>2, <3>3
        <5>2. Empty(g, x, flag) \subseteq D
          BY <1>4
        <5> QED BY <5>1, <5>2
      <4> QED BY <4>1, <4>2
    <3> QED BY <3>1, <3>2, <3>3
  <2> HIDE DEF Small
  <2>4. \A x \in T \cap R : x \in new
    <3>1. \A x \in D : x \in R => ~Ends(x)
      BY <1>2 DEF Ends
    <3> QED BY <1>2, <2>1, <3>1
  <2>5. C \subseteq T
    <3> HIDE DEF T
    <3> QED BY <1>6, <2>2, <2>3
  <2> QED BY <2>4, <2>5
<1> QED BY <1>1, <1>13, <1>14 DEF C, O, R

-----------------------------------------------------------------------------
(* What the reference reaches at each position *)

\* Where the runes that end at p lead to.
Entered(g, s, before, p) ==
    IF p = 0 THEN {1}
    ELSE UNION {Outs(g, Matching(g, before[q] \cap RuneInsts(g), RuneAt(s, q))) :
                q \in {x \in 0 .. p - 1 : x + Width(s, x) = p}}

LEMMA ReachedFromIs ==
    ASSUME NEW g, NEW s, NEW before, NEW p
    PROVE  ReachedFrom(g, s, before, p) =
              Closure(g, Entered(g, s, before, p), Holding(ClassAt(s, p - 1), ClassAt(s, p)))
BY DEF ReachedFrom, Entered, Outs

LEMMA EnteredInside ==
    ASSUME NEW g, WellFormed(g), NEW s, NEW before, NEW p
    PROVE  Entered(g, s, before, p) \in SUBSET DOMAIN g
<1>1. ASSUME NEW q
      PROVE  Outs(g, Matching(g, before[q] \cap RuneInsts(g), RuneAt(s, q))) \in SUBSET DOMAIN g
  <2>1. Matching(g, before[q] \cap RuneInsts(g), RuneAt(s, q)) \in SUBSET RuneInsts(g)
    BY DEF Matching
  <2> QED BY <2>1, OutsInside
<1>2. 1 \in DOMAIN g
  BY DEF WellFormed
<1> QED BY <1>1, <1>2 DEF Entered

\* It depends on what is before p only.
LEMMA EnteredDepends ==
    ASSUME NEW g, NEW s, NEW f, NEW h, NEW p \in Nat, \A q \in 0 .. p - 1 : f[q] = h[q]
    PROVE  Entered(g, s, f, p) = Entered(g, s, h, p)
<1> DEFINE Read == {x \in 0 .. p - 1 : x + Width(s, x) = p}
           From(b, q) == Outs(g, Matching(g, b[q] \cap RuneInsts(g), RuneAt(s, q)))
<1>1. \A q \in Read : From(f, q) = From(h, q)
  OBVIOUS
<1>2. UNION {From(f, q) : q \in Read} = UNION {From(h, q) : q \in Read}
  <2> HIDE DEF Read, From
  <2> QED BY <1>1
<1> QED BY <1>2 DEF Entered

\* The recursive function exists.
LEMMA ReachedSteps ==
    ASSUME NEW g, NEW s, Len(s) \in Nat
    PROVE  \A p \in 0 .. Len(s) : ReachedAt(g, s)[p] = ReachedFrom(g, s, ReachedAt(g, s), p)
<1> DEFINE N == Len(s)
           At(f, p) == ReachedFrom(g, s, f, p)
           Fits(f, m) == f = [p \in 0 .. m |-> At(f, p)]
           Part(m) == \E f : Fits(f, m)
           S == {m \in 0 .. N : Part(m)}
<1>1. ASSUME NEW f, NEW h, NEW p \in Nat, \A q \in 0 .. p - 1 : f[q] = h[q]
      PROVE  At(f, p) = At(h, p)
  <2>1. Entered(g, s, f, p) = Entered(g, s, h, p)
    BY <1>1, EnteredDepends
  <2> QED BY <2>1, ReachedFromIs
<1> HIDE DEF At
<1>2. Part(0)
  <2> DEFINE f == [p \in 0 .. 0 |-> At(<<>>, 0)]
  <2>1. ASSUME NEW p \in 0 .. 0 PROVE f[p] = At(f, p)
    <3>1. p = 0 /\ f[p] = At(<<>>, 0)
      OBVIOUS
    <3> HIDE DEF f
    <3>2. At(<<>>, 0) = At(f, 0)
      BY <1>1
    <3> QED BY <3>1, <3>2
  <2>2. f = [p \in 0 .. 0 |-> f[p]]
    OBVIOUS
  <2> HIDE DEF f
  <2>3. Fits(f, 0)
    BY <2>1, <2>2
  <2> HIDE DEF Fits
  <2> QED BY <2>3
<1>3. ASSUME NEW m \in 1 .. N, Part(m - 1) PROVE Part(m)
  <2>1. PICK f : Fits(f, m - 1)
    BY <1>3
  <2> DEFINE h == [p \in 0 .. m |-> IF p < m THEN f[p] ELSE At(f, m)]
  <2>2. \A q \in 0 .. m - 1 : h[q] = f[q]
    OBVIOUS
  <2>3. ASSUME NEW p \in 0 .. m PROVE h[p] = At(h, p)
    <3>1. \A q \in 0 .. p - 1 : h[q] = f[q]
      BY <2>2
    <3>2. CASE p < m
      <4>1. p \in 0 .. m - 1 /\ h[p] = f[p]
        BY <3>2
      <4> HIDE DEF h
      <4>2. f[p] = At(f, p)
        BY <2>1, <4>1
      <4>3. At(h, p) = At(f, p)
        BY <1>1, <3>1
      <4> QED BY <4>1, <4>2, <4>3
    <3>3. CASE p = m
      <4>1. h[m] = At(f, m)
        OBVIOUS
      <4> HIDE DEF h
      <4>2. At(h, m) = At(f, m)
        <5>1. m \in Nat
          OBVIOUS
        <5> QED BY <1>1, <2>2, <5>1
      <4> QED BY <3>3, <4>1, <4>2
    <3> QED BY <3>2, <3>3
  <2>4. h = [p \in 0 .. m |-> h[p]]
    OBVIOUS
  <2> HIDE DEF h
  <2>5. Fits(h, m)
    BY <2>3, <2>4
  <2> HIDE DEF Fits
  <2> QED BY <2>5
<1> HIDE DEF Part
<1>4. \A m \in 0 .. N : m \in S
  <2>1. 0 \in S
    BY <1>2
  <2>2. \A m \in 1 .. N : m - 1 \in S => m \in S
    BY <1>3
  <2> HIDE DEF S
  <2> QED BY <2>1, <2>2, UpTo
<1>5. Part(N)
  BY <1>4
<1>6. ReachedAt(g, s) = CHOOSE f : Fits(f, N)
  BY DEF ReachedAt, At
<1>7. Fits(ReachedAt(g, s), N)
  <2> HIDE DEF Fits
  <2> QED BY <1>5, <1>6 DEF Part
<1> DEFINE R == ReachedAt(g, s)
<1>8. R = [p \in 0 .. N |-> At(R, p)]
  BY <1>7
<1> HIDE DEF R
<1>9. \A p \in 0 .. N : R[p] = At(R, p)
  BY <1>8
<1> QED BY <1>9 DEF R, At

LEMMA ReachedIs ==
    ASSUME NEW g, WellFormed(g), NEW B, NEW s \in Seq(B), NEW p \in 0 .. Len(s)
    PROVE  LET R == ReachedAt(g, s)
           IN  /\ R[p] = Closure(g, Entered(g, s, R, p), Holding(ClassAt(s, p - 1), ClassAt(s, p)))
               /\ R[p] \in SUBSET DOMAIN g
               /\ Entered(g, s, R, p) = {} => R[p] = {}
<1> DEFINE R == ReachedAt(g, s)
           flag == Holding(ClassAt(s, p - 1), ClassAt(s, p))
<1>1. R[p] = ReachedFrom(g, s, R, p)
  BY ReachedSteps
<1> HIDE DEF R, flag
<1>2. R[p] = Closure(g, Entered(g, s, R, p), flag)
  BY <1>1, ReachedFromIs DEF flag
<1>3. Entered(g, s, R, p) \in SUBSET DOMAIN g
  BY EnteredInside
<1>4. Closure(g, Entered(g, s, R, p), flag) \in SUBSET DOMAIN g
  BY <1>3, ClosureFacts
<1>5. Closure(g, {}, flag) = {}
  BY ClosureNone
<1> QED BY <1>2, <1>4, <1>5 DEF R, flag

\* The position q is inside a rune of two bytes.
InRune(s, q) == q \in 1 .. Len(s) - 1 /\ s[q] = "<" /\ s[q + 1] = ">"

LEMMA Widths ==
    ASSUME NEW B, NEW s \in Seq(B), NEW q \in 0 .. Len(s) - 1
    PROVE  /\ Width(s, q) \in {1, 2}
           /\ Width(s, q) = 2 <=> InRune(s, q + 1)
           /\ q + Width(s, q) \in 1 .. Len(s)
           /\ ~InRune(s, q + Width(s, q))
<1>1. Len(s) \in Nat /\ "<" # ">"
  OBVIOUS
<1>2. Width(s, q) = 2 <=> InRune(s, q + 1)
  BY <1>1 DEF Width, InRune
<1>3. Width(s, q) \in {1, 2}
  BY DEF Width
<1>4. CASE Width(s, q) = 2
  BY <1>1, <1>2, <1>4 DEF InRune
<1>5. CASE Width(s, q) = 1
  BY <1>1, <1>2, <1>5
<1> QED BY <1>2, <1>3, <1>4, <1>5

\* Nothing is reached inside a rune.
LEMMA InRuneNone ==
    ASSUME NEW g, WellFormed(g), NEW B, NEW s \in Seq(B), NEW q, InRune(s, q)
    PROVE  ReachedAt(g, s)[q] = {}
<1>1. Len(s) \in Nat /\ q \in 1 .. Len(s) - 1 /\ q \in 0 .. Len(s)
  BY DEF InRune
<1>2. ASSUME NEW x \in 0 .. q - 1, x + Width(s, x) = q PROVE FALSE
  <2>1. x \in 0 .. Len(s) - 1
    BY <1>1
  <2>2. Width(s, x) \in {1, 2} /\ (Width(s, x) = 2 <=> InRune(s, x + 1)) /\ ~InRune(s, x + Width(s, x))
    BY <2>1, Widths
  <2> QED BY <1>2, <2>2
<1>3. Entered(g, s, ReachedAt(g, s), q) = {}
  <2>1. {x \in 0 .. q - 1 : x + Width(s, x) = q} = {} /\ q # 0
    BY <1>1, <1>2
  <2> QED BY <2>1, Zenon DEF Entered
<1> QED BY <1>1, <1>3, ReachedIs

\* What the rune at a position leads to is all that is reached behind it.
LEMMA ReachedStep ==
    ASSUME NEW g, WellFormed(g), NEW B, NEW s \in Seq(B), NEW q \in 0 .. Len(s) - 1, ~InRune(s, q)
    PROVE  LET R == ReachedAt(g, s)
               p == q + Width(s, q)
           IN  R[p] = Closure(g, Outs(g, Matching(g, R[q] \cap RuneInsts(g), RuneAt(s, q))),
                              Holding(ClassAt(s, p - 1), ClassAt(s, p)))
<1> DEFINE R == ReachedAt(g, s)
           p == q + Width(s, q)
           From(x) == Outs(g, Matching(g, R[x] \cap RuneInsts(g), RuneAt(s, x)))
           Read == {x \in 0 .. p - 1 : x + Width(s, x) = p}
<1>1. /\ Width(s, q) \in {1, 2} /\ (Width(s, q) = 2 <=> InRune(s, q + 1))
      /\ p \in 1 .. Len(s) /\ ~InRune(s, p)
  BY Widths
<1>2. Len(s) \in Nat
  OBVIOUS
<1>3. q \in Read
  BY <1>1, <1>2
<1>4. ASSUME NEW x \in Read, x # q PROVE From(x) = {}
  <2>1. x \in 0 .. Len(s) - 1 /\ x + Width(s, x) = p
    BY <1>1, <1>2
  <2>2. Width(s, x) \in {1, 2} /\ (Width(s, x) = 2 <=> InRune(s, x + 1))
    BY <2>1, Widths
  <2>3. x = q + 1 /\ InRune(s, x)
    BY <1>1, <1>4, <2>1, <2>2
  <2>4. R[x] = {}
    BY <2>3, InRuneNone
  <2> QED BY <2>4 DEF Outs, Matching
<1>5. Entered(g, s, R, p) = UNION {From(x) : x \in Read}
  <2>1. p # 0
    BY <1>1
  <2> HIDE DEF p
  <2> QED BY <2>1, Zenon DEF Entered
<1>6. UNION {From(x) : x \in Read} = From(q)
  <2> HIDE DEF From, Read
  <2> QED BY <1>3, <1>4
<1>7. Entered(g, s, R, p) = From(q)
  BY <1>5, <1>6
<1>8. p \in 0 .. Len(s)
  BY <1>1
<1>9. R[p] = Closure(g, Entered(g, s, R, p), Holding(ClassAt(s, p - 1), ClassAt(s, p)))
  <2> HIDE DEF p
  <2> QED BY <1>8, ReachedIs
<1> QED BY <1>7, <1>9

\* Once no rune instruction is reached, nothing is reached any more.
LEMMA NothingMore ==
    ASSUME NEW g, WellFormed(g), NEW B, NEW s \in Seq(B), NEW q \in 0 .. Len(s), ~InRune(s, q),
           ReachedAt(g, s)[q] \cap RuneInsts(g) = {}
    PROVE  \A p \in q + 1 .. Len(s) : ReachedAt(g, s)[p] = {}
<1> DEFINE R == ReachedAt(g, s)
           T == {p \in q + 1 .. Len(s) : R[p] # {}}
<1> SUFFICES ASSUME T # {} PROVE FALSE
  OBVIOUS
<1>1. Len(s) \in Nat /\ q \in Nat
  OBVIOUS
<1>2. PICK p \in T : \A y \in T : p <= y
  <2>1. T \subseteq Nat
    BY <1>1
  <2> HIDE DEF T
  <2> QED BY <2>1, LeastNatural
<1>3. p \in 1 .. Len(s) /\ p \in 0 .. Len(s) /\ q < p /\ R[p] # {}
  BY <1>1, <1>2
<1>4. Entered(g, s, R, p) # {}
  BY <1>3, ReachedIs
<1>5. PICK x \in 0 .. p - 1 : x + Width(s, x) = p /\ R[x] \cap RuneInsts(g) # {}
  BY <1>3, <1>4 DEF Entered, Outs, Matching
<1>6. x \in 0 .. Len(s) - 1
  BY <1>1, <1>3, <1>5
<1>7. Width(s, x) \in {1, 2} /\ (Width(s, x) = 2 <=> InRune(s, x + 1))
  BY <1>6, Widths
<1>8. x # q
  BY <1>5
<1>9. ~(q < x)
  <2>1. q < x => x \in T /\ x < p
    BY <1>1, <1>3, <1>5, <1>6
  <2>2. x \in T => p <= x
    BY <1>2
  <2> QED BY <1>3, <1>6, <2>1, <2>2
<1>10. x + 1 = q
  BY <1>1, <1>3, <1>5, <1>6, <1>7, <1>8, <1>9
<1> QED BY <1>5, <1>7, <1>10, <1>3

-----------------------------------------------------------------------------
(* The prefixes of a text from a start *)

Prefix(t, st, k) == SubSeq(t, st + 1, k)

LEMMA PrefixFacts ==
    ASSUME NEW B, NEW t \in Seq(B), NEW st \in 0 .. Len(t), NEW k \in st .. Len(t)
    PROVE  LET x == Prefix(t, st, k)
           IN  /\ x \in Seq(B) /\ Len(x) = k - st
               /\ \A i \in 1 .. k - st : x[i] = t[st + i]
BY DEF Prefix

\* The prefix does not end inside a rune.
Cut(t, k) == k = Len(t) \/ t[k + 1] # ">"

\* A rune starts at p, in a text read from st.
Boundary(t, st, p) == p = st \/ p = Len(t) \/ ~(t[p] = "<" /\ t[p + 1] = ">")

\* A prefix is read as the text is.
LEMMA PrefixReads ==
    ASSUME NEW B, NEW t \in Seq(B), NEW st \in 0 .. Len(t), NEW k \in st + 1 .. Len(t), Cut(t, k),
           NEW p \in st .. k - 1
    PROVE  LET x == Prefix(t, st, k)
           IN  /\ Width(x, p - st) = Width(t, p) /\ RuneAt(x, p - st) = RuneAt(t, p)
               /\ p + Width(t, p) \in p + 1 .. k
               /\ Boundary(t, st, p) => ~InRune(x, p - st)
<1> DEFINE x == Prefix(t, st, k)
           q == p - st
<1>1. /\ x \in Seq(B) /\ Len(x) = k - st
      /\ \A i \in 1 .. k - st : x[i] = t[st + i]
  <2>1. k \in st .. Len(t)
    OBVIOUS
  <2> QED BY <2>1, PrefixFacts
<1>2. Len(t) \in Nat /\ st \in Nat /\ k \in Nat /\ p \in Nat /\ q \in 0 .. Len(x) - 1 /\ p < k
  BY <1>1
<1>3. x[q + 1] = t[p + 1]
  <2>1. q + 1 \in 1 .. k - st /\ st + (q + 1) = p + 1
    BY <1>2
  <2> QED BY <1>1, <2>1
<1>4. p + 1 < k => x[q + 2] = t[p + 2]
  <2>1. p + 1 < k => q + 2 \in 1 .. k - st /\ st + (q + 2) = p + 2
    BY <1>2
  <2> QED BY <1>1, <2>1
<1>5. q + 1 < Len(x) <=> p + 1 < k
  BY <1>1, <1>2
<1> HIDE DEF x, q
<1>6. Width(x, q) = Width(t, p)
  <2>1. CASE p + 1 < k
    <3>1. p + 1 < Len(t) /\ q + 1 < Len(x)
      BY <1>2, <1>5, <2>1
    <3> QED BY <1>3, <1>4, <2>1, <3>1 DEF Width
  <2>2. CASE ~(p + 1 < k)
    <3>1. p + 1 = k /\ p + 2 = k + 1
      BY <1>2, <2>2
    <3>2. p + 1 < Len(t) => t[p + 2] # ">"
      BY <1>2, <3>1 DEF Cut
    <3>3. Width(x, q) = 1
      BY <1>5, <2>2 DEF Width
    <3>4. Width(t, p) = 1
      BY <3>2 DEF Width
    <3> QED BY <3>3, <3>4
  <2> QED BY <2>1, <2>2
<1>7. RuneAt(x, q) = RuneAt(t, p)
  BY <1>3, <1>6 DEF RuneAt
<1>8. Width(x, q) \in {1, 2} /\ q + Width(x, q) \in 1 .. Len(x)
  BY <1>1, <1>2, Widths
<1>9. p + Width(t, p) \in p + 1 .. k
  <2>1. q = p - st
    BY DEF q
  <2> QED BY <1>1, <1>2, <1>6, <1>8, <2>1
<1>10. ASSUME Boundary(t, st, p), InRune(x, q) PROVE FALSE
  <2>1. q = p - st
    BY DEF q
  <2>2. q \in 1 .. k - st /\ st + q = p /\ q \in 1 .. Len(x) - 1
    BY <1>1, <1>2, <1>10, <2>1 DEF InRune
  <2>3. x[q] = t[p]
    BY <1>1, <2>2
  <2>4. p # st /\ p # Len(t)
    BY <1>2, <2>1, <2>2
  <2> QED BY <1>3, <1>10, <2>3, <2>4 DEF InRune, Boundary
<1> QED BY <1>6, <1>7, <1>9, <1>10 DEF x, q

\* The classes around a position of a prefix.
LEMMA PrefixClasses ==
    ASSUME NEW B, NEW t \in Seq(B), NEW st \in 0 .. Len(t), NEW k \in st .. Len(t), NEW p \in st .. k
    PROVE  LET x == Prefix(t, st, k)
           IN  /\ ClassAt(x, p - st) = IF p < k THEN Class(t[p + 1]) ELSE Edge
               /\ ClassAt(x, p - st - 1) = IF st < p THEN Class(t[p]) ELSE Edge
<1> DEFINE x == Prefix(t, st, k)
<1>1. /\ x \in Seq(B) /\ Len(x) = k - st
      /\ \A i \in 1 .. k - st : x[i] = t[st + i]
  BY PrefixFacts
<1>2. Len(t) \in Nat /\ st \in Nat /\ k \in Nat /\ p \in Nat /\ st <= p /\ p <= k
  OBVIOUS
<1> HIDE DEF x
<1>3. ClassAt(x, p - st) = IF p < k THEN Class(t[p + 1]) ELSE Edge
  <2>1. p - st \in 0 .. Len(x) - 1 <=> p < k
    BY <1>1, <1>2
  <2>2. ASSUME p < k PROVE x[p - st + 1] = t[p + 1]
    <3>1. p - st + 1 \in 1 .. k - st /\ st + (p - st + 1) = p + 1
      BY <1>2, <2>2
    <3> QED BY <1>1, <3>1
  <2> QED BY <2>1, <2>2 DEF ClassAt
<1>4. ClassAt(x, p - st - 1) = IF st < p THEN Class(t[p]) ELSE Edge
  <2>1. p - st - 1 \in 0 .. Len(x) - 1 <=> st < p
    BY <1>1, <1>2
  <2>2. ASSUME st < p PROVE x[(p - st - 1) + 1] = t[p]
    <3>1. (p - st - 1) + 1 \in 1 .. k - st /\ st + ((p - st - 1) + 1) = p
      BY <1>2, <2>2
    <3> QED BY <1>1, <3>1
  <2> QED BY <2>1, <2>2 DEF ClassAt
<1> QED BY <1>3, <1>4 DEF x

-----------------------------------------------------------------------------
(* A listing is right *)

\* The prefix of t from st that ends at k matches, and a delimiter follows.
IsEnd(g, t, st, k) == k \in st + 1 .. Len(t) - 1 /\ t[k + 1] = Delim /\ Matches(g, Prefix(t, st, k))

\* What is reached at p when the prefix that ends at k is matched.
Reaches(g, t, st, k, p) == ReachedAt(g, Prefix(t, st, k))[p - st]

Right(g, t, st, e) ==
    /\ e.pos \in st .. Len(t) /\ Boundary(t, st, e.pos)
    /\ e.cur \in SUBSET RuneInsts(g) /\ (e.pos = Len(t) => e.cur = {})
    /\ \A k \in e.pos + 1 .. Len(t) :
          Cut(t, k) => e.cur = Reaches(g, t, st, k, e.pos) \cap RuneInsts(g)
    /\ e.accepted \in BOOLEAN /\ (e.accepted <=> IsEnd(g, t, st, e.pos))

\* What is reached behind the rune at p.
LEMMA ReachesStep ==
    ASSUME NEW g, WellFormed(g), NEW B, NEW t \in Seq(B), NEW st \in 0 .. Len(t),
           NEW k \in st + 1 .. Len(t), Cut(t, k), NEW p \in st .. k - 1, Boundary(t, st, p)
    PROVE  LET to == p + Width(t, p)
           IN  /\ to \in p + 1 .. k
               /\ Reaches(g, t, st, k, to) =
                     Closure(g, Outs(g, Matching(g, Reaches(g, t, st, k, p) \cap RuneInsts(g),
                                                 RuneAt(t, p))),
                             Holding(Class(t[to]), IF to < k THEN Class(t[to + 1]) ELSE Edge))
<1> DEFINE x == Prefix(t, st, k)
           q == p - st
           to == p + Width(t, p)
<1>1. x \in Seq(B) /\ Len(x) = k - st /\ k \in st .. Len(t)
  <2>1. k \in st .. Len(t)
    OBVIOUS
  <2> QED BY <2>1, PrefixFacts
<1>2. /\ Width(x, q) = Width(t, p) /\ RuneAt(x, q) = RuneAt(t, p)
      /\ to \in p + 1 .. k /\ ~InRune(x, q)
  BY PrefixReads
<1>3. q \in 0 .. Len(x) - 1 /\ to \in st .. k /\ st < to
  BY <1>1, <1>2
<1>4. q + Width(x, q) = to - st
  <2>1. Width(t, p) \in {1, 2}
    BY DEF Width
  <2> QED BY <1>2, <2>1
<1>5. /\ ClassAt(x, to - st) = IF to < k THEN Class(t[to + 1]) ELSE Edge
      /\ ClassAt(x, to - st - 1) = Class(t[to])
  <2> HIDE DEF to
  <2> QED BY <1>1, <1>3, PrefixClasses
<1> HIDE DEF x, q, to
<1>6. LET R == ReachedAt(g, x)
          y == q + Width(x, q)
      IN  R[y] = Closure(g, Outs(g, Matching(g, R[q] \cap RuneInsts(g), RuneAt(x, q))),
                         Holding(ClassAt(x, y - 1), ClassAt(x, y)))
  BY <1>1, <1>2, <1>3, ReachedStep
<1>7. Reaches(g, t, st, k, to) = ReachedAt(g, x)[to - st] /\ Reaches(g, t, st, k, p) = ReachedAt(g, x)[q]
  BY DEF Reaches, x, q
<1> QED BY <1>2, <1>4, <1>5, <1>6, <1>7 DEF to

\* restart
LEMMA RestartRight ==
    ASSUME NEW g, WellFormed(g), NEW B, NEW t \in Seq(B), NEW st \in 0 .. Len(t), NEW e,
           e.pos = st, e.accepted = FALSE,
           e.cur = IF st < Len(t) THEN First(g, Class(t[st + 1])) ELSE {}
    PROVE  Right(g, t, st, e)
<1>1. st \in st .. Len(t) /\ Len(t) \in Nat /\ st \in Nat
  OBVIOUS
<1>2. e.cur \in SUBSET RuneInsts(g) /\ (st = Len(t) => e.cur = {})
  BY <1>1 DEF First
<1>3. ASSUME NEW k \in st + 1 .. Len(t), Cut(t, k)
      PROVE  e.cur = Reaches(g, t, st, k, st) \cap RuneInsts(g)
  <2> DEFINE x == Prefix(t, st, k)
  <2>1. x \in Seq(B) /\ Len(x) = k - st /\ k \in st .. Len(t) /\ st \in st .. k
    <3>1. k \in st .. Len(t) /\ st \in st .. k
      OBVIOUS
    <3> QED BY <3>1, PrefixFacts
  <2>2. ClassAt(x, st - st) = Class(t[st + 1]) /\ ClassAt(x, st - st - 1) = Edge
    BY <2>1, PrefixClasses
  <2>3. ClassAt(x, 0) = Class(t[st + 1]) /\ ClassAt(x, 0 - 1) = Edge
    <3>1. st - st = 0 /\ st - st - 1 = 0 - 1
      OBVIOUS
    <3> QED BY <2>2, <3>1
  <2> HIDE DEF x
  <2>4. 0 \in 0 .. Len(x)
    BY <2>1
  <2>5. ReachedAt(g, x)[0] = Closure(g, Entered(g, x, ReachedAt(g, x), 0), Holding(ClassAt(x, 0 - 1), ClassAt(x, 0)))
    BY <2>1, <2>4, ReachedIs
  <2>6. Entered(g, x, ReachedAt(g, x), 0) = {1}
    BY DEF Entered
  <2>7. Reaches(g, t, st, k, st) = ReachedAt(g, x)[0]
    <3>1. st - st = 0
      OBVIOUS
    <3> QED BY <3>1 DEF Reaches, x
  <2>8. st < Len(t)
    BY <1>1
  <2> QED BY <2>3, <2>5, <2>6, <2>7, <2>8 DEF First
<1>4. ~IsEnd(g, t, st, st)
  BY <1>1 DEF IsEnd
<1>5. Boundary(t, st, st)
  BY DEF Boundary
<1> QED BY <1>1, <1>2, <1>3, <1>4, <1>5 DEF Right

\* One pass of the loop of Next: the listing stays right and passes over no end.
LEMMA StepRight ==
    ASSUME NEW g, WellFormed(g), NEW B, NEW t \in Seq(B), NEW st \in 0 .. Len(t), NEW e,
           e = [start |-> e.start, pos |-> e.pos, reach |-> e.reach, cur |-> e.cur,
                accepted |-> e.accepted],
           Right(g, t, st, e), e.pos < Len(t), Delim \notin {"<", ">"}
    PROVE  LET f == StepEnds(g, t, Delim, e)
           IN  /\ f = [start |-> e.start, pos |-> f.pos, reach |-> e.reach, cur |-> f.cur,
                       accepted |-> f.accepted]
               /\ Right(g, t, st, f) /\ e.pos < f.pos
               /\ \A k \in e.pos + 1 .. f.pos - 1 : ~IsEnd(g, t, st, k)
<1> DEFINE p == e.pos
           to == p + Width(t, p)
           R == RuneInsts(g)
           matched == Matching(g, e.cur, RuneAt(t, p))
           f == StepEnds(g, t, Delim, e)
<1>1. /\ p \in st .. Len(t) /\ Boundary(t, st, p) /\ e.cur \in SUBSET R
      /\ \A k \in p + 1 .. Len(t) : Cut(t, k) => e.cur = Reaches(g, t, st, k, p) \cap R
  BY DEF Right
<1>2. Len(t) \in Nat /\ st \in Nat /\ p \in Nat /\ p < Len(t) /\ p \in 0 .. Len(t) - 1 /\ Cut(t, Len(t))
  BY <1>1 DEF Cut
<1>3. /\ Width(t, p) \in {1, 2} /\ (Width(t, p) = 2 <=> InRune(t, p + 1))
      /\ to \in 1 .. Len(t) /\ ~InRune(t, to)
  BY <1>2, Widths
<1>4. to \in p + 1 .. Len(t) /\ to \in st + 1 .. Len(t) /\ to \in Nat
  BY <1>1, <1>2, <1>3
<1>5. /\ f.start = e.start /\ f.reach = e.reach /\ f.pos = to
      /\ f.accepted = (to < Len(t) /\ t[to + 1] = Delim /\ Accepted(g, Class(t[to]), matched))
      /\ f.cur = IF to = Len(t) THEN {}
                 ELSE Expanded(g, matched, Holding(Class(t[to]), Class(t[to + 1])), {}).pcs
      /\ f = [start |-> f.start, pos |-> f.pos, reach |-> f.reach, cur |-> f.cur,
              accepted |-> f.accepted]
  <2> DEFINE acc == to < Len(t) /\ t[to + 1] = Delim /\ Accepted(g, Class(t[to]), matched)
             cur == IF to = Len(t) THEN {}
                    ELSE Expanded(g, matched, Holding(Class(t[to]), Class(t[to + 1])), {}).pcs
  <2>1. f = [e EXCEPT !.pos = to, !.accepted = acc, !.cur = cur]
    BY DEF StepEnds
  <2> HIDE DEF acc, cur, f, to, p, matched
  <2>2. f = [start |-> e.start, pos |-> to, reach |-> e.reach, cur |-> cur, accepted |-> acc]
    BY <2>1
  <2>3. /\ f.start = e.start /\ f.reach = e.reach /\ f.pos = to /\ f.accepted = acc /\ f.cur = cur
        /\ f = [start |-> f.start, pos |-> f.pos, reach |-> f.reach, cur |-> f.cur,
                accepted |-> f.accepted]
    BY <2>2
  <2> QED BY <2>3 DEF acc, cur
<1>6. matched \in SUBSET R
  BY <1>1 DEF Matching
<1>7. Boundary(t, st, to)
  BY <1>2, <1>3, <1>4 DEF InRune, Boundary
\* What is reached behind the rune, in every prefix that is longer.
<1>8. ASSUME NEW k \in to .. Len(t), Cut(t, k)
      PROVE  Reaches(g, t, st, k, to) =
                Closure(g, Outs(g, matched),
                        Holding(Class(t[to]), IF to < k THEN Class(t[to + 1]) ELSE Edge))
  <2>1. k \in p + 1 .. Len(t) /\ k \in st + 1 .. Len(t) /\ p \in st .. k - 1
    BY <1>1, <1>2, <1>4
  <2>2. e.cur = Reaches(g, t, st, k, p) \cap R
    BY <1>1, <1>8, <2>1
  <2> HIDE DEF p
  <2>3. Reaches(g, t, st, k, to) =
            Closure(g, Outs(g, Matching(g, Reaches(g, t, st, k, p) \cap R, RuneAt(t, p))),
                    Holding(Class(t[to]), IF to < k THEN Class(t[to + 1]) ELSE Edge))
    BY <1>1, <1>8, <2>1, ReachesStep
  <2> QED BY <2>2, <2>3
<1> HIDE DEF to, matched, f, p
<1>9. f.cur \in SUBSET R /\ (to = Len(t) => f.cur = {})
  <2>1. to # Len(t) => f.cur \in SUBSET R
    BY <1>5 DEF Expanded, Sorted
  <2> QED BY <1>5, <2>1
<1>10. ASSUME NEW k \in to + 1 .. Len(t), Cut(t, k) PROVE f.cur = Reaches(g, t, st, k, to) \cap R
  <2>1. k \in to .. Len(t) /\ to < k /\ to # Len(t)
    BY <1>2, <1>4
  <2>2. Reaches(g, t, st, k, to) =
            Closure(g, Outs(g, matched), Holding(Class(t[to]), Class(t[to + 1])))
    BY <1>8, <1>10, <2>1
  <2>3. Expanded(g, matched, Holding(Class(t[to]), Class(t[to + 1])), {}).pcs =
            Closure(g, Outs(g, matched), Holding(Class(t[to]), Class(t[to + 1]))) \cap R
    BY <1>6, ExpandedIs
  <2> QED BY <1>5, <2>1, <2>2, <2>3
<1>11. f.accepted <=> IsEnd(g, t, st, to)
  <2>1. CASE to < Len(t) /\ t[to + 1] = Delim
    <3>1. Cut(t, to) /\ to \in to .. Len(t) /\ ~(to < to)
      BY <1>4, <2>1 DEF Cut
    <3>2. Reaches(g, t, st, to, to) = Closure(g, Outs(g, matched), Holding(Class(t[to]), Edge))
      BY <1>8, <3>1
    <3>3. Len(Prefix(t, st, to)) = to - st
      <4>1. to \in st .. Len(t)
        BY <1>2, <1>4
      <4> QED BY <4>1, PrefixFacts
    <3>4. Matches(g, Prefix(t, st, to)) <=> \E pc \in Reaches(g, t, st, to, to) : g[pc].op = "match"
      BY <3>3 DEF Matches, Reaches
    <3>5. Accepted(g, Class(t[to]), matched) <=>
              \E pc \in Closure(g, Outs(g, matched), Holding(Class(t[to]), Edge)) : g[pc].op = "match"
      BY <1>6, AcceptedIs
    <3>6. to \in st + 1 .. Len(t) - 1
      BY <1>2, <1>4, <2>1
    <3> QED BY <1>5, <2>1, <3>2, <3>4, <3>5, <3>6 DEF IsEnd
  <2>2. CASE ~(to < Len(t) /\ t[to + 1] = Delim)
    <3>1. ~IsEnd(g, t, st, to)
      BY <1>2, <1>4, <2>2 DEF IsEnd
    <3> QED BY <1>5, <2>2, <3>1
  <2> QED BY <2>1, <2>2
<1>12. f.accepted \in BOOLEAN
  <2>1. to < Len(t) => Accepted(g, Class(t[to]), matched) \in BOOLEAN
    BY DEF Accepted
  <2> QED BY <1>5, <2>1
<1>13. Right(g, t, st, f)
  <2>1. f.pos \in st .. Len(t)
    BY <1>2, <1>4, <1>5
  <2> QED BY <1>5, <1>7, <1>9, <1>10, <1>11, <1>12, <2>1 DEF Right
<1>14. ASSUME NEW k \in p + 1 .. to - 1 PROVE ~IsEnd(g, t, st, k)
  <2>1. k = p + 1 /\ Width(t, p) = 2
    BY <1>2, <1>3, <1>4 DEF to
  <2>2. t[k + 1] = ">"
    BY <1>3, <2>1 DEF InRune
  <2> QED BY <2>2 DEF IsEnd
<1>15. p < to
  BY <1>2, <1>4
<1> QED BY <1>5, <1>13, <1>14, <1>15 DEF f, p

\* No instruction is left, or no text: there are no more ends.
LEMMA NoMoreEnds ==
    ASSUME NEW g, WellFormed(g), NEW B, NEW t \in Seq(B), NEW st \in 0 .. Len(t), NEW e,
           Right(g, t, st, e), e.cur = {} \/ e.pos = Len(t), Delim \notin {"<", ">"},
           NEW k, IsEnd(g, t, st, k)
    PROVE  k <= e.pos
<1> SUFFICES ASSUME ~(k <= e.pos) PROVE FALSE
  OBVIOUS
<1> DEFINE x == Prefix(t, st, k)
           q == e.pos - st
<1>1. /\ e.pos \in st .. Len(t) /\ Boundary(t, st, e.pos) /\ (e.pos = Len(t) => e.cur = {})
      /\ \A i \in e.pos + 1 .. Len(t) :
            Cut(t, i) => e.cur = Reaches(g, t, st, i, e.pos) \cap RuneInsts(g)
  BY DEF Right
<1>2. k \in st + 1 .. Len(t) - 1 /\ Cut(t, k) /\ Matches(g, x)
  BY DEF IsEnd, Cut
<1>3. k \in e.pos + 1 .. Len(t) /\ k \in st .. Len(t) /\ e.pos \in st .. k - 1 /\ k \in st + 1 .. Len(t)
  BY <1>1, <1>2
<1>4. x \in Seq(B) /\ Len(x) = k - st
  BY <1>3, PrefixFacts
<1>5. ~InRune(x, q)
  BY <1>1, <1>2, <1>3, PrefixReads
<1>6. ReachedAt(g, x)[q] \cap RuneInsts(g) = {}
  BY <1>1, <1>2, <1>3 DEF Reaches
<1>7. q \in 0 .. Len(x) /\ Len(x) \in q + 1 .. Len(x)
  BY <1>1, <1>3, <1>4
<1> HIDE DEF x, q
<1>8. ReachedAt(g, x)[Len(x)] = {}
  BY <1>4, <1>5, <1>6, <1>7, NothingMore
<1> QED BY <1>2, <1>8 DEF Matches

-----------------------------------------------------------------------------
(* Next *)

\* A listing that has moved on from a, and has passed over no end from from on.
Listing(g, t, st, from, a, e) ==
    /\ e = [start |-> a.start, pos |-> e.pos, reach |-> a.reach, cur |-> e.cur,
            accepted |-> e.accepted]
    /\ Right(g, t, st, e) /\ a.pos <= e.pos
    /\ \A k : IsEnd(g, t, st, k) /\ from <= k => e.pos <= k

Leaves(t, from, e) == Listed(from, e) \/ e.cur = {} \/ e.pos = Len(t)

LEMMA PassListing ==
    ASSUME NEW g, WellFormed(g), NEW B, NEW t \in Seq(B), NEW st \in 0 .. Len(t),
           NEW from \in Nat, NEW a, a.pos \in Nat, NEW e, Listing(g, t, st, from, a, e),
           Delim \notin {"<", ">"}
    PROVE  LET f == Pass(g, t, Delim, from, e)
           IN  /\ Listing(g, t, st, from, a, f)
               /\ IF Leaves(t, from, e) THEN f = e ELSE e.pos < f.pos
<1> DEFINE f == Pass(g, t, Delim, from, e)
<1>1. CASE Leaves(t, from, e)
  BY <1>1 DEF Pass, Leaves
<1>2. CASE ~Leaves(t, from, e)
  <2>1. f = StepEnds(g, t, Delim, e)
    BY <1>2 DEF Pass, Leaves
  <2>2. /\ e = [start |-> a.start, pos |-> e.pos, reach |-> a.reach, cur |-> e.cur,
                accepted |-> e.accepted]
        /\ Right(g, t, st, e) /\ a.pos <= e.pos
        /\ \A k : IsEnd(g, t, st, k) /\ from <= k => e.pos <= k
    BY DEF Listing
  <2>3. e.start = a.start /\ e.reach = a.reach
    BY <2>2
  <2>4. e.pos \in st .. Len(t) /\ e.pos < Len(t) /\ (IsEnd(g, t, st, e.pos) => e.accepted)
    BY <1>2, <2>2 DEF Right, Leaves
  <2>5. e = [start |-> e.start, pos |-> e.pos, reach |-> e.reach, cur |-> e.cur,
             accepted |-> e.accepted]
    BY <2>2, <2>3
  <2> HIDE DEF f
  <2>6. /\ f = [start |-> e.start, pos |-> f.pos, reach |-> e.reach, cur |-> f.cur,
                accepted |-> f.accepted]
        /\ Right(g, t, st, f) /\ e.pos < f.pos
        /\ \A k \in e.pos + 1 .. f.pos - 1 : ~IsEnd(g, t, st, k)
    BY <2>1, <2>2, <2>4, <2>5, StepRight
  <2>7. f.pos \in Nat /\ e.pos \in Nat
    BY <2>4, <2>6 DEF Right
  <2>8. ASSUME NEW k, IsEnd(g, t, st, k), from <= k PROVE f.pos <= k
    <3>1. k \in Nat
      BY <2>8 DEF IsEnd
    <3>2. e.pos <= k
      BY <2>2, <2>8
    <3>3. k # e.pos
      BY <1>2, <2>4, <2>7, <2>8 DEF Leaves, Listed
    <3>4. k \notin e.pos + 1 .. f.pos - 1
      BY <2>6, <2>8
    <3> QED BY <2>7, <3>1, <3>2, <3>3, <3>4
  <2>9. a.pos <= f.pos
    BY <2>2, <2>6, <2>7
  <2>10. Listing(g, t, st, from, a, f)
    BY <2>3, <2>6, <2>8, <2>9 DEF Listing
  <2> QED BY <1>2, <2>6, <2>10 DEF f
<1> QED BY <1>1, <1>2

\* The answer is the first end at or after from.
Answers(g, t, st, from, end) ==
    \/ end = -1 /\ \A k : IsEnd(g, t, st, k) => ~(from <= k)
    \/ /\ IsEnd(g, t, st, end) /\ from <= end
       /\ \A k : IsEnd(g, t, st, k) /\ from <= k => end <= k

LEMMA RunListing ==
    ASSUME NEW g, WellFormed(g), NEW B, NEW t \in Seq(B), NEW st \in 0 .. Len(t),
           NEW from \in Nat, NEW a, a.pos \in Nat, Listing(g, t, st, from, a, a),
           Delim \notin {"<", ">"}
    PROVE  LET x == RunEnds(g, t, Delim, a, from)
           IN  Listing(g, t, st, from, a, x.ends) /\ Answers(g, t, st, from, x.end)
<1> DEFINE N == Len(t)
           Next1(e) == Pass(g, t, Delim, from, e)
           OK(e) == Listing(g, t, st, from, a, e)
           Rec == [start : {a.start}, pos : 0 .. N, reach : {a.reach}, cur : SUBSET RuneInsts(g),
                   accepted : BOOLEAN]
           V == {e \in Rec : OK(e)}
           F == [e \in V |-> Next1(e)]
           Body(h) == [k \in 0 .. N |-> IF k = 0 THEN a ELSE Next1(h[k - 1])]
           run == CHOOSE h : h = Body(h)
           x == RunEnds(g, t, Delim, a, from)
<1>1. N \in Nat /\ st \in Nat
  OBVIOUS
<1>2. x = [ends |-> run[N], end |-> IF Listed(from, run[N]) THEN run[N].pos ELSE -1]
  BY DEF RunEnds, Answer
<1>3. ASSUME NEW e, OK(e)
      PROVE  OK(Next1(e)) /\ IF Leaves(t, from, e) THEN Next1(e) = e ELSE e.pos < Next1(e).pos
  BY <1>3, PassListing
<1>4. ASSUME NEW e, OK(e) PROVE e \in Rec /\ e.pos \in Nat
  <2>1. e = [start |-> a.start, pos |-> e.pos, reach |-> a.reach, cur |-> e.cur,
             accepted |-> e.accepted]
    BY <1>4 DEF Listing
  <2>2. e.pos \in 0 .. N /\ e.cur \in SUBSET RuneInsts(g) /\ e.accepted \in BOOLEAN
    BY <1>1, <1>4 DEF Listing, Right
  <2> QED BY <2>1, <2>2
<1> HIDE DEF Next1, OK, Rec, x
<1>5. \A e : OK(e) <=> e \in V
  BY <1>4
<1>6. F \in [V -> V] /\ a \in V
  <2>1. \A e \in V : Next1(e) \in V
    BY <1>3, <1>5
  <2>2. OK(a)
    BY DEF OK
  <2> QED BY <1>5, <2>1, <2>2
<1>7. PICK h \in [0 .. N -> V] : Iterates(h, N, a, F)
  <2> HIDE DEF F, V, N
  <2> QED BY <1>1, <1>6, IterationExists
<1>8. h = Body(h)
  <2>1. ASSUME NEW k \in 0 .. N PROVE h[k] = IF k = 0 THEN a ELSE Next1(h[k - 1])
    <3>1. h[k] = IF k = 0 THEN a ELSE F[h[k - 1]]
      <4> HIDE DEF F, V, N
      <4> QED BY <1>7 DEF Iterates
    <3>2. k # 0 => h[k - 1] \in V
      <4>1. k # 0 => k - 1 \in 0 .. N
        BY <1>1
      <4> HIDE DEF V, N
      <4> QED BY <4>1
    <3>3. k # 0 => F[h[k - 1]] = Next1(h[k - 1])
      <4> HIDE DEF V, N
      <4> QED BY <3>2
    <3> QED BY <3>1, <3>3
  <2>2. h = [k \in 0 .. N |-> h[k]]
    OBVIOUS
  <2> HIDE DEF N
  <2> QED BY <2>1, <2>2
<1>9. run = Body(run)
  <2> HIDE DEF Body
  <2> QED BY <1>8
<1> HIDE DEF run, F, V, N
<1>10. run[0] = a /\ \A k \in 1 .. N : run[k] = Next1(run[k - 1])
  <2>1. 0 \in 0 .. N /\ \A k \in 1 .. N : k \in 0 .. N /\ k # 0
    BY <1>1
  <2> QED BY <1>9, <2>1
<1>11. \A k \in 0 .. N : OK(run[k]) /\ (Leaves(t, from, run[k]) \/ k <= run[k].pos)
  <2> DEFINE K == {k \in 0 .. N : OK(run[k]) /\ (Leaves(t, from, run[k]) \/ k <= run[k].pos)}
  <2>1. 0 \in K
    <3>1. OK(run[0])
      BY <1>10 DEF OK
    <3>2. run[0].pos \in Nat
      BY <1>4, <3>1
    <3>3. 0 <= run[0].pos
      BY <3>2
    <3> QED BY <1>1, <3>1, <3>3
  <2>2. ASSUME NEW k \in 1 .. N, k - 1 \in K PROVE k \in K
    <3> DEFINE e == run[k - 1]
               f == run[k]
    <3>1. OK(e) /\ (Leaves(t, from, e) \/ k - 1 <= e.pos) /\ f = Next1(e)
      BY <1>10, <2>2
    <3> HIDE DEF e, f
    <3>2. OK(f) /\ IF Leaves(t, from, e) THEN f = e ELSE e.pos < f.pos
      BY <1>3, <3>1
    <3>3. e.pos \in Nat /\ f.pos \in Nat
      BY <1>4, <3>1, <3>2
    <3>4. k \in Nat /\ k \in 0 .. N
      BY <1>1
    <3>5. Leaves(t, from, f) \/ k <= f.pos
      <4>1. CASE Leaves(t, from, e)
        BY <3>2, <4>1
      <4>2. CASE ~Leaves(t, from, e)
        BY <3>1, <3>2, <3>3, <3>4, <4>2
      <4> QED BY <4>1, <4>2
    <3> QED BY <3>2, <3>4, <3>5 DEF f
  <2>3. \A k \in 0 .. N : k \in K
    <3> HIDE DEF K
    <3> QED BY <1>1, <2>1, <2>2, UpTo
  <2> QED BY <2>3
<1> DEFINE e == run[N]
<1>12. OK(e) /\ (Leaves(t, from, e) \/ N <= e.pos)
  <2>1. N \in 0 .. N
    BY <1>1
  <2> QED BY <1>11, <2>1
<1>13. x.ends = e /\ x.end = IF Listed(from, e) THEN e.pos ELSE -1
  BY <1>2
<1> HIDE DEF e
<1>14. Listing(g, t, st, from, a, e)
  BY <1>12 DEF OK
<1>15. /\ Right(g, t, st, e) /\ e.pos \in Nat /\ e.pos <= N
       /\ e.accepted <=> IsEnd(g, t, st, e.pos)
       /\ \A k : IsEnd(g, t, st, k) /\ from <= k => e.pos <= k
  BY <1>1, <1>14 DEF Listing, Right, N
<1>16. Leaves(t, from, e)
  <2>1. N <= e.pos => e.pos = Len(t)
    BY <1>1, <1>15 DEF N
  <2> QED BY <1>12, <2>1 DEF Leaves
<1>17. CASE Listed(from, e)
  <2>1. IsEnd(g, t, st, e.pos) /\ from <= e.pos /\ x.end = e.pos
    BY <1>13, <1>15, <1>17 DEF Listed
  <2> QED BY <1>13, <1>14, <1>15, <2>1 DEF Answers, x
<1>18. CASE ~Listed(from, e)
  <2>1. e.cur = {} \/ e.pos = Len(t)
    BY <1>16, <1>18 DEF Leaves
  <2>2. ASSUME NEW k, IsEnd(g, t, st, k), from <= k PROVE FALSE
    <3>1. k <= e.pos
      BY <1>15, <2>1, <2>2, NoMoreEnds
    <3>2. k \in Nat /\ e.pos <= k
      BY <1>15, <2>2 DEF IsEnd
    <3>3. k = e.pos
      BY <1>15, <3>1, <3>2
    <3> QED BY <1>15, <1>18, <2>2, <3>3 DEF Listed
  <2>3. x.end = -1
    BY <1>13, <1>18
  <2> QED BY <1>13, <1>14, <2>2, <2>3 DEF Answers, x
<1> QED BY <1>17, <1>18

LEMMA MaxOfTwo ==
    ASSUME NEW a \in Int, NEW b \in Int
    PROVE  Max({a, b}) = IF a >= b THEN a ELSE b
<1>1. \E x \in {a, b} : \A y \in {a, b} : x >= y
  <2>1. CASE a >= b
    BY <2>1
  <2>2. CASE b >= a
    BY <2>2
  <2> QED BY <2>1, <2>2
<1>2. Max({a, b}) \in {a, b} /\ \A y \in {a, b} : Max({a, b}) >= y
  BY <1>1 DEF Max
<1> QED BY <1>2

\* The shape of a listing.
Shape(g, t, e) ==
    /\ e = [start |-> e.start, pos |-> e.pos, reach |-> e.reach, cur |-> e.cur,
            accepted |-> e.accepted]
    /\ e.start \in -1 .. Len(t) /\ e.pos \in 0 .. Len(t) /\ e.reach \in 0 .. Len(t)
    /\ e.cur \in SUBSET RuneInsts(g) /\ e.accepted \in BOOLEAN

\* restart, from any listing.
LEMMA RestartShape ==
    ASSUME NEW g, WellFormed(g), NEW B, NEW t \in Seq(B), NEW e, Shape(g, t, e), e.start >= 0
    PROVE  LET f == Restart(g, t, e)
           IN  /\ Shape(g, t, f) /\ Right(g, t, e.start, f)
               /\ f.start = e.start /\ f.pos = e.start
               /\ f.reach = IF e.reach >= e.pos THEN e.reach ELSE e.pos
<1> DEFINE cur == IF e.start < Len(t) THEN First(g, Class(t[e.start + 1])) ELSE {}
           high == IF e.reach >= e.pos THEN e.reach ELSE e.pos
           f == Restart(g, t, e)
<1>1. /\ e = [start |-> e.start, pos |-> e.pos, reach |-> e.reach, cur |-> e.cur,
              accepted |-> e.accepted]
      /\ e.start \in 0 .. Len(t) /\ e.pos \in 0 .. Len(t) /\ e.reach \in 0 .. Len(t)
      /\ Len(t) \in Nat
  BY DEF Shape
<1>2. Reached(e) = high
  BY <1>1, MaxOfTwo DEF Reached
<1>3. cur \in SUBSET RuneInsts(g)
  BY DEF First
<1>4. f = [e EXCEPT !.reach = high, !.pos = e.start, !.accepted = FALSE, !.cur = cur]
  BY <1>2 DEF Restart
<1>5. high \in 0 .. Len(t)
  BY <1>1
<1> HIDE DEF f, high, cur
<1>6. f = [start |-> e.start, pos |-> e.start, reach |-> high, cur |-> cur, accepted |-> FALSE]
  BY <1>1, <1>4
<1>7. /\ f.start = e.start /\ f.pos = e.start /\ f.reach = high /\ f.cur = cur /\ f.accepted = FALSE
      /\ f = [start |-> f.start, pos |-> f.pos, reach |-> f.reach, cur |-> f.cur,
              accepted |-> f.accepted]
  BY <1>6
<1>8. Right(g, t, e.start, f)
  BY <1>1, <1>7, RestartRight DEF cur
<1>9. Shape(g, t, f)
  <2>1. f.start \in -1 .. Len(t) /\ f.pos \in 0 .. Len(t) /\ f.reach \in 0 .. Len(t)
    BY <1>1, <1>5, <1>7
  <2> QED BY <1>3, <1>7, <2>1 DEF Shape
<1> QED BY <1>7, <1>8, <1>9 DEF f, high

\* Next: the answer, the listing it leaves, and how far that has come.
LEMMA NextRight ==
    ASSUME NEW g, WellFormed(g), NEW B, NEW t \in Seq(B), NEW e, Shape(g, t, e), e.start >= 0,
           Right(g, t, e.start, e), NEW from \in e.start .. Len(t), Delim \notin {"<", ">"}
    PROVE  LET x == NextEnd(g, t, Delim, e, from)
           IN  /\ Shape(g, t, x.ends) /\ x.ends.start = e.start
               /\ Right(g, t, e.start, x.ends)
               /\ Answers(g, t, e.start, from, x.end)
               /\ Reached(x.ends) >= Reached(e)
<1> DEFINE st == e.start
           high == IF e.reach >= from THEN e.reach ELSE from
           a == [e EXCEPT !.reach = high]
           b == IF from < a.pos THEN Restart(g, t, a) ELSE a
           x == NextEnd(g, t, Delim, e, from)
<1>1. /\ e = [start |-> e.start, pos |-> e.pos, reach |-> e.reach, cur |-> e.cur,
              accepted |-> e.accepted]
      /\ st \in 0 .. Len(t) /\ e.pos \in 0 .. Len(t) /\ e.reach \in 0 .. Len(t)
      /\ e.cur \in SUBSET RuneInsts(g) /\ e.accepted \in BOOLEAN
      /\ Len(t) \in Nat /\ from \in Nat /\ from <= Len(t) /\ st <= from /\ st \in Nat
  BY DEF Shape
<1>2. x = RunEnds(g, t, Delim, b, from)
  <2>1. Max({e.reach, from}) = high
    BY <1>1, MaxOfTwo
  <2> HIDE DEF high
  <2> QED BY <2>1 DEF NextEnd
<1>3. high \in 0 .. Len(t) /\ e.reach <= high
  BY <1>1
<1> HIDE DEF high
<1>4. /\ a.start = st /\ a.pos = e.pos /\ a.reach = high /\ a.cur = e.cur /\ a.accepted = e.accepted
      /\ a = [start |-> a.start, pos |-> a.pos, reach |-> a.reach, cur |-> a.cur,
              accepted |-> a.accepted]
  <2>1. a = [start |-> st, pos |-> e.pos, reach |-> high, cur |-> e.cur, accepted |-> e.accepted]
    BY <1>1
  <2> HIDE DEF a, st
  <2> QED BY <2>1
<1> HIDE DEF a
<1>5. Shape(g, t, a)
  <2>1. a.start \in -1 .. Len(t) /\ a.pos \in 0 .. Len(t) /\ a.reach \in 0 .. Len(t)
    BY <1>1, <1>3, <1>4
  <2> QED BY <1>1, <1>4, <2>1 DEF Shape
<1>6. Right(g, t, st, a)
  BY <1>4 DEF Right
<1> HIDE DEF st
<1>7. /\ Shape(g, t, b) /\ Right(g, t, st, b) /\ b.start = st
      /\ high <= b.reach /\ b.reach <= Len(t)
      /\ b.pos = e.pos \/ e.pos <= b.reach
      /\ b.pos = st \/ b.pos <= from
  <2>1. CASE from < a.pos
    <3>1. b = Restart(g, t, a) /\ a.start >= 0
      BY <1>1, <1>4, <2>1
    <3> HIDE DEF b
    <3>2. /\ Shape(g, t, b) /\ Right(g, t, a.start, b)
          /\ b.start = a.start /\ b.pos = a.start
          /\ b.reach = IF a.reach >= a.pos THEN a.reach ELSE a.pos
      BY <1>5, <3>1, RestartShape
    <3> QED BY <1>1, <1>3, <1>4, <3>2
  <2>2. CASE ~(from < a.pos)
    <3>1. b = a
      BY <2>2
    <3> HIDE DEF b
    <3> QED BY <1>1, <1>3, <1>4, <1>5, <1>6, <2>2, <3>1
  <2> QED BY <2>1, <2>2
<1> HIDE DEF b
<1>8. b.pos \in Nat /\ b.reach \in Nat
  BY <1>7 DEF Shape
<1>9. Listing(g, t, st, from, b, b)
  <2>1. \A k : IsEnd(g, t, st, k) /\ from <= k => b.pos <= k
    <3> SUFFICES ASSUME NEW k, IsEnd(g, t, st, k), from <= k PROVE b.pos <= k
      OBVIOUS
    <3>1. k \in Nat /\ st <= k
      BY <1>1 DEF IsEnd
    <3> QED BY <1>1, <1>7, <1>8, <3>1
  <2> QED BY <1>7, <1>8, <2>1 DEF Listing, Shape
<1>10. Listing(g, t, st, from, b, x.ends) /\ Answers(g, t, st, from, x.end)
  <2> HIDE DEF x
  <2> QED BY <1>1, <1>2, <1>8, <1>9, RunListing
<1> DEFINE f == x.ends
<1>11. /\ f = [start |-> b.start, pos |-> f.pos, reach |-> b.reach, cur |-> f.cur,
               accepted |-> f.accepted]
       /\ Right(g, t, st, f) /\ b.pos <= f.pos
  BY <1>10 DEF Listing
<1> HIDE DEF x, f
<1>12. f.start = st /\ f.reach = b.reach
  BY <1>7, <1>11
<1>13. f.pos \in 0 .. Len(t) /\ f.cur \in SUBSET RuneInsts(g) /\ f.accepted \in BOOLEAN
  BY <1>1, <1>11 DEF Right
<1>14. Shape(g, t, f)
  <2>1. f.start \in -1 .. Len(t) /\ f.reach \in 0 .. Len(t)
    BY <1>1, <1>7, <1>8, <1>12
  <2>2. f = [start |-> f.start, pos |-> f.pos, reach |-> f.reach, cur |-> f.cur,
             accepted |-> f.accepted]
    BY <1>7, <1>11, <1>12
  <2> QED BY <1>13, <2>1, <2>2 DEF Shape
<1>15. Reached(f) >= Reached(e)
  <2>1. Reached(f) = IF f.reach >= f.pos THEN f.reach ELSE f.pos
    BY <1>8, <1>12, <1>13, MaxOfTwo DEF Reached
  <2>2. Reached(e) = IF e.reach >= e.pos THEN e.reach ELSE e.pos
    BY <1>1, MaxOfTwo DEF Reached
  <2>3. /\ f.reach \in Int /\ f.pos \in Int /\ e.reach \in Int /\ e.pos \in Int
        /\ e.reach <= f.reach /\ (e.pos <= f.pos \/ e.pos <= f.reach)
    BY <1>1, <1>3, <1>7, <1>8, <1>11, <1>12, <1>13
  <2> QED BY <2>1, <2>2, <2>3
<1> QED BY <1>10, <1>11, <1>12, <1>14, <1>15 DEF f, x, st

-----------------------------------------------------------------------------
(* The specification *)

\* The listing in progress, if there is one, is right, and what it answered last
\* is the first end at or after the position asked.
EndsInv ==
    /\ prog \in Programs /\ text \in Texts
    /\ Shape(prog, text, ends)
    /\ ends.start >= 0 => Right(prog, text, ends.start, ends)
    /\ asked.from >= 0 =>
          /\ ends.start >= 0 /\ asked.from \in Nat
          /\ Answers(prog, text, ends.start, asked.from, asked.end)

TextRunes == {text[i] : i \in DOMAIN text}

LEMMA Given ==
    ASSUME prog \in Programs, text \in Texts
    PROVE  /\ WellFormed(prog) /\ text \in Seq(TextRunes) /\ Len(text) \in Nat
           /\ Delim \notin {"<", ">"}
<1>1. WellFormed(prog) /\ text \in Seq(TextRunes) /\ Delim \notin {"<", ">"}
  BY RegprogEndsAssumption DEF TextRunes
<1> QED BY <1>1

LEMMA UnaskedIs == Unasked.from = -1
BY DEF Unasked

LEMMA InitEnds ==
    ASSUME Init PROVE EndsInv
<1>1. prog \in Programs /\ text \in Texts /\ ends = NoListing /\ asked = Unasked
  BY DEF Init
<1>2. Len(text) \in Nat
  BY <1>1, Given
<1>3. /\ ends = [start |-> -1, pos |-> 0, reach |-> 0, cur |-> {}, accepted |-> FALSE]
  BY <1>1 DEF NoListing
<1>4. Shape(prog, text, ends) /\ ends.start = -1
  BY <1>2, <1>3 DEF Shape
<1>5. ~(ends.start >= 0) /\ ~(asked.from >= 0)
  BY <1>1, <1>4, UnaskedIs
<1> QED BY <1>1, <1>4, <1>5 DEF EndsInv

LEMMA ListingMoved ==
    ASSUME NEW start, NEW pos, NEW reach, NEW cur, NEW accepted, NEW p, NEW e, NEW a, NEW b, NEW f,
           e = [start |-> start, pos |-> pos, reach |-> reach, cur |-> cur, accepted |-> accepted],
           a = [e EXCEPT !.start = p], b = [a EXCEPT !.pos = p], f = [b EXCEPT !.reach = p]
    PROVE  f = [start |-> p, pos |-> p, reach |-> p, cur |-> cur, accepted |-> accepted]
OBVIOUS

LEMMA StartEndsKeeps ==
    ASSUME EndsInv, NEW p \in 0 .. Len(text), Start(p)
    PROVE  EndsInv' /\ (ends'.start = ends.start => ends' = ends)
<1>1. /\ prog' = prog /\ text' = text /\ ends' = StartEnds(prog, text, ends, p) /\ asked' = Unasked
  BY DEF Start
<1>2. /\ prog \in Programs /\ text \in Texts /\ Shape(prog, text, ends)
      /\ ends.start >= 0 => Right(prog, text, ends.start, ends)
  BY DEF EndsInv
<1>3. WellFormed(prog) /\ text \in Seq(TextRunes) /\ Len(text) \in Nat
  BY <1>2, Given
<1>4. ~(asked'.from >= 0)
  BY <1>1, UnaskedIs
<1>5. CASE ends.start = p
  <2>1. ends' = ends
    BY <1>1, <1>5 DEF StartEnds
  <2> QED BY <1>1, <1>2, <1>4, <2>1 DEF EndsInv
<1>6. CASE ends.start # p
  <2> DEFINE e == [ends EXCEPT !.start = p, !.pos = p, !.reach = p]
             f == Restart(prog, text, e)
  <2>1. ends' = f
    BY <1>1, <1>6 DEF StartEnds
  <2>2. /\ e = [start |-> p, pos |-> p, reach |-> p, cur |-> ends.cur, accepted |-> ends.accepted]
        /\ ends.cur \in SUBSET RuneInsts(prog) /\ ends.accepted \in BOOLEAN
    <3>1. /\ ends = [start |-> ends.start, pos |-> ends.pos, reach |-> ends.reach, cur |-> ends.cur,
                      accepted |-> ends.accepted]
          /\ ends.cur \in SUBSET RuneInsts(prog) /\ ends.accepted \in BOOLEAN
      BY <1>2 DEF Shape
    <3> DEFINE a == [ends EXCEPT !.start = p]
               b == [a EXCEPT !.pos = p]
    <3>2. e = [b EXCEPT !.reach = p]
      BY DEF e
    <3>3. e = [start |-> p, pos |-> p, reach |-> p, cur |-> ends.cur, accepted |-> ends.accepted]
      <4> HIDE DEF e, b
      <4>1. b = [a EXCEPT !.pos = p]
        BY DEF b
      <4> HIDE DEF a
      <4>2. a = [ends EXCEPT !.start = p]
        BY DEF a
      <4> QED BY <3>1, <3>2, <4>1, <4>2, ListingMoved
    <3> QED BY <3>1, <3>3
  <2> HIDE DEF e
  <2>3. e.start = p /\ e.pos = p /\ e.reach = p /\ e.cur = ends.cur /\ e.accepted = ends.accepted
    BY <2>2
  <2>4. /\ e = [start |-> e.start, pos |-> e.pos, reach |-> e.reach, cur |-> e.cur,
                accepted |-> e.accepted]
    BY <2>2, <2>3
  <2>5. e.start \in -1 .. Len(text) /\ e.pos \in 0 .. Len(text) /\ e.reach \in 0 .. Len(text)
    BY <1>3, <2>3
  <2>6. Shape(prog, text, e) /\ e.start >= 0
    BY <2>2, <2>3, <2>4, <2>5 DEF Shape
  <2>7. Shape(prog, text, f) /\ Right(prog, text, e.start, f) /\ f.start = e.start
    BY <1>3, <2>6, RestartShape
  <2> HIDE DEF f
  <2>8. ends'.start # ends.start
    BY <1>6, <2>1, <2>3, <2>7
  <2> QED BY <1>1, <1>2, <1>4, <2>1, <2>7, <2>8 DEF EndsInv
<1> QED BY <1>5, <1>6

LEMMA NextKeeps ==
    ASSUME EndsInv, NEW p \in 0 .. Len(text), Next(p)
    PROVE  EndsInv' /\ Reached(ends') >= Reached(ends)
<1> DEFINE x == NextEnd(prog, text, Delim, ends, p)
<1>1. /\ prog' = prog /\ text' = text /\ ends.start >= 0 /\ p >= ends.start
      /\ ends' = x.ends /\ asked' = [from |-> p, end |-> x.end]
  BY DEF Next
<1>2. /\ prog \in Programs /\ text \in Texts /\ Shape(prog, text, ends)
      /\ Right(prog, text, ends.start, ends)
  BY <1>1 DEF EndsInv
<1>3. /\ WellFormed(prog) /\ text \in Seq(TextRunes) /\ Len(text) \in Nat /\ Delim \notin {"<", ">"}
  BY <1>2, Given
<1>4. p \in ends.start .. Len(text) /\ p \in Nat
  BY <1>1, <1>2, <1>3 DEF Shape
<1>5. /\ Shape(prog, text, x.ends) /\ x.ends.start = ends.start
      /\ Right(prog, text, ends.start, x.ends)
      /\ Answers(prog, text, ends.start, p, x.end)
      /\ Reached(x.ends) >= Reached(ends)
  BY <1>1, <1>2, <1>3, <1>4, NextRight
<1> HIDE DEF x
<1>6. asked'.from = p /\ asked'.end = x.end
  BY <1>1
<1> QED BY <1>1, <1>2, <1>4, <1>5, <1>6 DEF EndsInv

LEMMA ResetKeeps ==
    ASSUME EndsInv, Reset
    PROVE  EndsInv' /\ ends'.start = -1
<1>1. /\ prog' = prog /\ text' = text /\ ends' = [ends EXCEPT !.start = -1] /\ asked' = Unasked
  BY DEF Reset
<1>2. /\ prog \in Programs /\ text \in Texts /\ Shape(prog, text, ends)
  BY DEF EndsInv
<1>3. Len(text) \in Nat
  BY <1>2, Given
<1>4. ends' = [start |-> -1, pos |-> ends.pos, reach |-> ends.reach, cur |-> ends.cur,
               accepted |-> ends.accepted]
  BY <1>1, <1>2 DEF Shape
<1>5. /\ ends'.start = -1 /\ ends'.pos = ends.pos /\ ends'.reach = ends.reach
      /\ ends'.cur = ends.cur /\ ends'.accepted = ends.accepted
  BY <1>4
<1>6. ends'.start \in -1 .. Len(text)
  BY <1>3, <1>5
<1>7. Shape(prog, text, ends')
  BY <1>2, <1>4, <1>5, <1>6 DEF Shape
<1>8. ~(ends'.start >= 0) /\ ~(asked'.from >= 0)
  BY <1>1, <1>5, UnaskedIs
<1> QED BY <1>1, <1>2, <1>5, <1>7, <1>8 DEF EndsInv

LEMMA StepKeeps ==
    ASSUME EndsInv, [Steps]_vars PROVE EndsInv'
<1>1. ASSUME NEW p \in 0 .. Len(text), Start(p) PROVE EndsInv'
  BY <1>1, StartEndsKeeps
<1>2. ASSUME NEW p \in 0 .. Len(text), Next(p) PROVE EndsInv'
  BY <1>2, NextKeeps
<1>3. CASE Reset
  BY <1>3, ResetKeeps
<1>4. CASE UNCHANGED vars
  BY <1>4 DEF EndsInv, vars
<1> QED BY <1>1, <1>2, <1>3, <1>4 DEF Steps

\* A listing in progress is where a fresh match of every longer prefix would be,
\* and it has passed over no end.
THEOREM EndsInvariant == Spec => []EndsInv
<1>1. Init => EndsInv
  BY InitEnds
<1>2. EndsInv /\ [Steps]_vars => EndsInv'
  BY StepKeeps
<1> QED BY <1>1, <1>2, PTL DEF Spec

LEMMA LeastIsMin ==
    ASSUME NEW S \in SUBSET Nat, NEW m \in S, \A k \in S : m <= k
    PROVE  Min(S) = m
<1>1. Min(S) \in S /\ \A k \in S : Min(S) <= k
  BY DEF Min
<1>2. Min(S) \in Nat /\ m \in Nat /\ Min(S) <= m /\ m <= Min(S)
  BY <1>1
<1> QED BY <1>2

FirstOrNone(S) == IF S = {} THEN -1 ELSE Min(S)

LEMMA RightAnswer ==
    ASSUME EndsInv PROVE EndsAreMatches
<1>1. /\ prog \in Programs /\ text \in Texts /\ Shape(prog, text, ends)
  BY DEF EndsInv
<1>2. TypeOK
  BY <1>1 DEF TypeOK, Shape
<1>3. ASSUME asked.from >= 0
      PROVE  asked.end = FirstOrNone({e \in EndsFrom(ends.start) : e >= asked.from})
  <2> DEFINE es == {e \in EndsFrom(ends.start) : e >= asked.from}
  <2> SUFFICES asked.end = FirstOrNone(es)
    OBVIOUS
  <2>1. /\ ends.start >= 0 /\ asked.from \in Nat
        /\ Answers(prog, text, ends.start, asked.from, asked.end)
    BY <1>3 DEF EndsInv
  <2>2. Len(text) \in Nat /\ ends.start \in Nat
    BY <1>1, <2>1, Given DEF Shape
  <2>3. \A k : IsEnd(prog, text, ends.start, k) <=> k \in EndsFrom(ends.start)
    BY DEF IsEnd, EndsFrom, Prefix
  <2>4. EndsFrom(ends.start) \subseteq Nat
    BY <2>2 DEF EndsFrom
  <2>5. es \in SUBSET Nat
    BY <2>4
  <2>6. \A k : k \in es <=> IsEnd(prog, text, ends.start, k) /\ asked.from <= k
    BY <2>1, <2>3, <2>4
  <2> HIDE DEF es
  <2>7. CASE asked.end = -1 /\ \A k : IsEnd(prog, text, ends.start, k) => ~(asked.from <= k)
    <3>1. es = {}
      BY <2>6, <2>7
    <3> QED BY <2>7, <3>1 DEF FirstOrNone
  <2>8. CASE /\ IsEnd(prog, text, ends.start, asked.end) /\ asked.from <= asked.end
             /\ \A k : IsEnd(prog, text, ends.start, k) /\ asked.from <= k => asked.end <= k
    <3>1. asked.end \in es /\ \A k \in es : asked.end <= k
      BY <2>6, <2>8
    <3>2. Min(es) = asked.end /\ es # {}
      BY <2>5, <3>1, LeastIsMin
    <3> QED BY <3>2 DEF FirstOrNone
  <2>9. asked.end = FirstOrNone(es)
    BY <2>1, <2>7, <2>8 DEF Answers
  <2> QED BY <2>9
<1> QED BY <1>2, <1>3 DEF EndsAreMatches, FirstOrNone

\* Whatever the program, the text and the questions asked before, in whichever
\* order, an answer of Ends.Next is the first position at or after the one asked
\* that ends a prefix which matches.
THEOREM ListingsAnswer == Spec => []EndsAreMatches
BY EndsInvariant, RightAnswer, PTL

\* Ends.Reach never falls while a listing is in progress, although Next starts the
\* listing over when it is asked from behind.
THEOREM ListingsNeverFallBack == Spec => ReachNeverFalls
<1>1. EndsInv /\ [Steps]_vars
         => [ends'.start = ends.start /\ ends.start >= 0 => Reached(ends') >= Reached(ends)]_vars
  <2> SUFFICES ASSUME EndsInv, [Steps]_vars, ends'.start = ends.start, ends.start >= 0
               PROVE  Reached(ends') >= Reached(ends)
    OBVIOUS
  <2>1. Reached(ends) \in Int
    <3>1. Shape(prog, text, ends) /\ Len(text) \in Nat
      BY Given DEF EndsInv
    <3>2. ends.reach \in Int /\ ends.pos \in Int
      BY <3>1 DEF Shape
    <3>3. Reached(ends) = IF ends.reach >= ends.pos THEN ends.reach ELSE ends.pos
      BY <3>2, MaxOfTwo DEF Reached
    <3> QED BY <3>2, <3>3
  <2>2. ends' = ends => Reached(ends') >= Reached(ends)
    BY <2>1
  <2>3. ASSUME NEW p \in 0 .. Len(text), Start(p) PROVE Reached(ends') >= Reached(ends)
    BY <2>2, <2>3, StartEndsKeeps
  <2>4. ASSUME NEW p \in 0 .. Len(text), Next(p) PROVE Reached(ends') >= Reached(ends)
    BY <2>4, NextKeeps
  <2>5. CASE Reset
    BY <2>5, ResetKeeps
  <2>6. CASE UNCHANGED vars
    BY <2>2, <2>6 DEF vars
  <2> QED BY <2>3, <2>4, <2>5, <2>6 DEF Steps
<1> QED BY <1>1, EndsInvariant, PTL DEF Spec, ReachNeverFalls
=============================================================================
