------------------------------ MODULE PathRef ------------------------------
(***************************************************************************)
(* What path normalisation means, on paths as sequences of characters: the  *)
(* reference for the loops of path.go (module PathNorm), and the            *)
(* normalisation the dispatcher works with (module Dispatch).               *)
(***************************************************************************)
EXTENDS Integers, SequencesExt

Slash == "/"
Dot   == "."

\* The element of a path that starts behind position i: up to the next slash.
ElementEnd(p, i) ==
    CHOOSE j \in i .. Len(p) :
        /\ \A k \in i + 1 .. j : p[k] # Slash
        /\ j = Len(p) \/ p[j + 1] = Slash

ElementAt(p, i) == SubSeq(p, i + 1, ElementEnd(p, i))

\* Positions behind which an element starts.
Starts(p) == {i \in 0 .. Len(p) : i = 0 \/ p[i] = Slash}

DotElements == {<<Dot>>, <<Dot, Dot>>}

HasDotSegment(p) == \E i \in Starts(p) : ElementAt(p, i) \in DotElements

HasDoubleSlash(p) == \E i \in 2 .. Len(p) : p[i] = Slash /\ p[i - 1] = Slash

\* The elements of a set of numbers, smallest first.
InOrder(S) == [k \in 1 .. Cardinality(S) |-> CHOOSE i \in S : Cardinality({j \in S : j <= i}) = k]

\* The bytes of a path at the positions of a set.
Picked(p, S) == LET at == InOrder(S) IN [k \in DOMAIN at |-> p[at[k]]]

-----------------------------------------------------------------------------
(* MergeSlashes: of consecutive slashes the first stays. *)

Merged(p) == Picked(p, {i \in DOMAIN p : ~(i > 1 /\ p[i] = Slash /\ p[i - 1] = Slash)})

-----------------------------------------------------------------------------
(* CollapseDotSegments: RFC 3986, section 5.2.4, except that a path that    *)
(* climbs above its root is refused.                                        *)

\* Leading ./ of a path that is not rooted: so many bytes.
DotPrefix(p) ==
    Max({m \in 0 .. Len(p) :
            /\ m = 0 \/ p[m] = Slash
            /\ \A i \in 1 .. m : p[i] = IF i = 1 \/ p[i - 1] = Slash THEN Dot ELSE Slash})

\* Where the elements start behind it, each with the slash in front of it.
ElementStarts(p) ==
    LET first == DotPrefix(p) + 1 IN {i \in first .. Len(p) : i = first \/ p[i] = Slash}

\* The element that starts at i, without the slash.
Segment(p, i) == ElementAt(p, IF p[i] = Slash THEN i ELSE i - 1)

\* The element that starts at i is read, if there is one, where the elements of the
\* set are left: a "." adds none, a ".." takes the last one away.
ReadElement(p, i, left) ==
    IF i \notin ElementStarts(p) \/ Segment(p, i) = <<Dot>> THEN left
    ELSE IF Segment(p, i) = <<Dot, Dot>> THEN {j \in left : \E k \in left : j < k}
    ELSE left \cup {i}

\* The elements that are left of those that start up to each position.
Left(p) ==
    LET left[i \in 0 .. Len(p)] == IF i = 0 THEN {} ELSE ReadElement(p, i, left[i - 1])
    IN  left

Climbs(p) == \E i \in ElementStarts(p) : Segment(p, i) = <<Dot, Dot>> /\ Left(p)[i - 1] = {}

\* The bytes of the elements of a set.
BytesOf(p, starts) ==
    {k \in DOMAIN p : \E i \in starts : i <= k /\ \A j \in i + 1 .. k : p[j] # Slash}

\* The last element is a dot segment, behind a slash.
EndsInDots(p) ==
    \E i \in ElementStarts(p) :
        p[i] = Slash /\ Segment(p, i) \in DotElements /\ ElementEnd(p, i) = Len(p)

Rejected == [ok |-> FALSE, out |-> <<>>]

\* [ok, out]: a dot segment at the end leaves a slash.
Collapsed(p) ==
    IF Climbs(p) THEN Rejected
    ELSE [ok  |-> TRUE,
          out |-> Picked(p, BytesOf(p, Left(p)[Len(p)])) \o
                  (IF EndsInDots(p) THEN <<Slash>> ELSE <<>>)]

-----------------------------------------------------------------------------
(* Both passes: redirectRoutingPath and normalizeRoutingPath. *)

PathOptions == {"exact", "normalize", "redirect"}

\* redirect: a pass in redirect mode changed the path.
Normalized(merge, collapse, p) ==
    LET m == IF merge = "exact" THEN p ELSE Merged(p)
        c == IF collapse = "exact" THEN [ok |-> TRUE, out |-> m] ELSE Collapsed(m)
    IN  [ok       |-> c.ok,
         path     |-> c.out,
         redirect |-> c.ok /\ \/ merge = "redirect" /\ m # p
                              \/ collapse = "redirect" /\ c.out # m]
=============================================================================
