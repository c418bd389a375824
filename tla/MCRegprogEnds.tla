--------------------------- MODULE MCRegprogEnds ---------------------------
(* Small instances of RegprogEnds for TLC. *)
EXTENDS RegprogEnds

Inst(op, set, out, arg) == [op |-> op, set |-> set, out |-> out, arg |-> arg]
Rune(set, out)   == Inst("rune", set, out, 0)
Alt(out, arg)    == Inst("alt", {}, out, arg)
Assert(set, out) == Inst("assert", set, out, 0)
Nop(out)         == Inst("nop", {}, out, 0)
Match            == Inst("match", {}, 0, 0)
Fail             == Inst("fail", {}, 0, 0)

\* ^a$
Single == <<Assert({"beginText"}, 2), Rune({"a"}, 3), Assert({"endText"}, 4), Match>>

\* ^(?:[a/]*a)$, a loop in front of a rune
Loop == <<Assert({"beginText"}, 2), Alt(3, 4), Rune({"a", "/"}, 2), Rune({"a"}, 5),
          Assert({"endText"}, 6), Match>>

\* ^(?:a|/?b?)*$, a loop over an alternative that may be empty
Nested == <<Assert({"beginText"}, 2), Alt(3, 8), Alt(4, 5), Rune({"a"}, 2), Alt(6, 7),
            Rune({"/"}, 7), Alt(10, 9), Assert({"endText"}, 11), Nop(2), Rune({"b"}, 9), Match>>

\* ^(?:.\b|.\B.)+$, word boundaries, any rune
AnyRune == {"a", "b", "/", "<>", "?"}
Boundary == <<Assert({"beginText"}, 2), Alt(3, 5), Rune(AnyRune, 4), Assert({"wordBoundary"}, 8),
              Rune(AnyRune, 6), Assert({"noWordBoundary"}, 7), Rune(AnyRune, 8), Alt(2, 9),
              Assert({"endText"}, 10), Match>>

\* A class that no rune is in.
Never == <<Assert({"beginText"}, 2), Alt(3, 4), Rune({"a", "<>"}, 2), Fail>>

MCPrograms == {Single, Loop, Nested, Boundary, Never}

Strings(chars, n) == UNION {[1 .. k -> chars] : k \in 0 .. n}
MCTexts == Strings({"a", "b", "/"}, 4) \cup
           {<<"a">> \o s : s \in Strings({"<", ">", "/"}, 3)} \cup
           {<<"a", "/", "a", "b", "/", "a">>, <<"a", "<", ">", "/", "a", "/">>}
=============================================================================
