------------------------------- MODULE Regprog -------------------------------
(***************************************************************************)
(* Regular expressions compiled for simulation (internal/regprog): the      *)
(* lists of instructions that follow an instruction without consuming a     *)
(* rune, in each context of the empty-width assertions, and Ends, which     *)
(* lists the prefixes of a string that match.                               *)
(*                                                                          *)
(* A program, as regexp/syntax compiles it, is a sequence of instructions   *)
(* [op, set, out, arg]: op is rune, alt, nop, assert, match or fail, set    *)
(* the runes an instruction matches or the assertions it makes.  Sets of    *)
(* instructions are what the code keeps as lists without duplicates: their  *)
(* order decides nothing.  A text is a sequence of bytes; the bytes "<" and *)
(* ">" stand for the two bytes of the rune "<>", and each alone for an      *)
(* invalid byte, which reads as "?".                                        *)
(***************************************************************************)
EXTENDS Integers, Sequences, FiniteSets, FiniteSetsExt

CONSTANT MaxClosure      \* maxClosure

ASSUME MaxClosureAssumption == MaxClosure \in Nat

Edge == "edge"           \* outside of the text

Class(b) == CASE b = "nl" -> "newline"
              [] b \in {"/", ".", "-", "<", ">"} -> "other"
              [] OTHER -> "word"

\* syntax.EmptyOpContext between bytes of these classes.
Holding(prev, next) ==
    (IF prev = Edge THEN {"beginText"} ELSE {}) \cup
    (IF next = Edge THEN {"endText"} ELSE {}) \cup
    (IF prev \in {Edge, "newline"} THEN {"beginLine"} ELSE {}) \cup
    (IF next \in {Edge, "newline"} THEN {"endLine"} ELSE {}) \cup
    {IF (prev = "word") # (next = "word") THEN "wordBoundary" ELSE "noWordBoundary"}

\* The rune at a position and its width.
Width(s, p) == IF s[p + 1] = "<" /\ p + 1 < Len(s) /\ s[p + 2] = ">" THEN 2 ELSE 1
RuneAt(s, p) == IF Width(s, p) = 2 THEN "<>" ELSE IF s[p + 1] \in {"<", ">"} THEN "?" ELSE s[p + 1]

-----------------------------------------------------------------------------
(* Compile *)

\* regexp/syntax starts a program at an instruction, and each one leads to others.
WellFormed(prog) ==
    /\ 1 \in DOMAIN prog /\ IsFiniteSet(DOMAIN prog)
    /\ \A pc \in DOMAIN prog :
          /\ prog[pc].op \in {"rune", "alt", "nop", "assert"} => prog[pc].out \in DOMAIN prog
          /\ prog[pc].op = "alt" => prog[pc].arg \in DOMAIN prog

RuneInsts(prog) == {pc \in DOMAIN prog : prog[pc].op = "rune"}

Consumes(prog, b) == \E pc \in RuneInsts(prog) : b \in prog[pc].set

\* empty: where an empty transition leads when the assertions of flag hold.
Empty(prog, pc, flag) ==
    LET in == prog[pc]
    IN  CASE in.op = "alt" -> {in.arg, in.out}
          [] in.op = "nop" -> {in.out}
          [] in.op = "assert" /\ in.set \subseteq flag -> {in.out}
          [] OTHER -> {}

\* What is reached from S where each instruction leads to a set of others.
Spread(leads, S) ==
    LET n == Cardinality(DOMAIN leads)
        reached[k \in 0 .. n] ==
            IF k = 0 THEN S ELSE LET T == reached[k - 1] IN T \cup UNION {leads[pc] : pc \in T}
    IN  reached[n]

\* closure: what is reached from S without consuming a rune.
Closure(prog, S, flag) == Spread([pc \in DOMAIN prog |-> Empty(prog, pc, flag)], S)

ClosureOf(prog, pc, flag) == Closure(prog, {prog[pc].out}, flag)

\* entry: an entry that is not a rune instruction is one that Next expands.
Entries(prog, pcs) == {pc \in pcs : prog[pc].op \notin {"match", "fail"}}

\* A closure is listed unless it is large.
FollowList(prog, pc, closure) ==
    IF Cardinality(closure) > MaxClosure THEN Entries(prog, {prog[pc].out})
    ELSE closure \cap RuneInsts(prog)

\* follow
FollowOf(prog, pc, flag) ==
    IF prog[pc].op = "rune" THEN FollowList(prog, pc, ClosureOf(prog, pc, flag))
    ELSE Entries(prog, Empty(prog, pc, flag))

First(prog, next) == Closure(prog, {1}, Holding(Edge, next)) \cap RuneInsts(prog)

\* From where S is reached without consuming a rune.
Leading(prog, S, flag) ==
    Spread([pc \in DOMAIN prog |-> {q \in DOMAIN prog : pc \in Empty(prog, q, flag)}], S)

\* last, and Regexp.Accepts: a match follows one of pcs at the end of the text.
Accepted(prog, prev, pcs) ==
    \E pc \in pcs : prog[pc].out \in
        Leading(prog, {q \in DOMAIN prog : prog[q].op = "match"}, Holding(prev, Edge))

-----------------------------------------------------------------------------
(* Simulation *)

\* Regexp.Next: the rune instructions that follow pcs, except those seen.  What
\* is seen marks the instructions reached at a position, expanded ones too.
Expansion(prog, pcs, follow, seen) ==
    Spread([pc \in DOMAIN prog |-> IF prog[pc].op = "rune" THEN {} ELSE follow[pc] \ seen],
           UNION {follow[pc] : pc \in pcs} \ seen)

Sorted(prog, seen, new) == [pcs |-> new \cap RuneInsts(prog), seen |-> seen \cup new]

Expanded(prog, pcs, flag, seen) ==
    Sorted(prog, seen,
           Expansion(prog, pcs, [pc \in DOMAIN prog |-> FollowOf(prog, pc, flag)], seen))

Matching(prog, pcs, rune) == {pc \in pcs : rune \in prog[pc].set}

-----------------------------------------------------------------------------
(* Ends: e = [start, pos, reach, cur, accepted]. *)

NoListing == [start |-> -1, pos |-> 0, reach |-> 0, cur |-> {}, accepted |-> FALSE]

\* Reach: the highest position passed to Next or stepped to.
Reached(e) == Max({e.reach, e.pos})

\* Mutant of Restart: how far the listing had come is forgotten.
RestartForgets(prog, s, e) ==
    [e EXCEPT !.pos = e.start, !.accepted = FALSE,
              !.cur = IF e.start < Len(s) THEN First(prog, Class(s[e.start + 1])) ELSE {}]

Restart(prog, s, e) ==
    [e EXCEPT !.reach = Reached(e), !.pos = e.start, !.accepted = FALSE,
              !.cur = IF e.start < Len(s) THEN First(prog, Class(s[e.start + 1])) ELSE {}]

\* Start: nothing to do for the listing in progress.
StartEnds(prog, s, e, start) ==
    IF e.start = start THEN e
    ELSE Restart(prog, s, [e EXCEPT !.start = start, !.pos = start, !.reach = start])

\* One pass of the loop of Next, over one rune.
StepEnds(prog, s, delim, e) ==
    LET matched == Matching(prog, e.cur, RuneAt(s, e.pos))
        pos     == e.pos + Width(s, e.pos)
        prev    == Class(s[pos])
    IN  [e EXCEPT !.pos = pos,
                  !.accepted = pos < Len(s) /\ s[pos + 1] = delim /\ Accepted(prog, prev, matched),
                  !.cur = IF pos = Len(s) THEN {}
                          ELSE Expanded(prog, matched, Holding(prev, Class(s[pos + 1])), {}).pcs]

Listed(from, e) == e.accepted /\ e.pos >= from

\* The loop is left, or goes on.
Pass(prog, s, delim, from, e) ==
    IF Listed(from, e) \/ e.cur = {} \/ e.pos = Len(s) THEN e ELSE StepEnds(prog, s, delim, e)

Answer(from, e) == [ends |-> e, end |-> IF Listed(from, e) THEN e.pos ELSE -1]

RunEnds(prog, s, delim, e, from) ==
    LET run[k \in 0 .. Len(s)] == IF k = 0 THEN e ELSE Pass(prog, s, delim, from, run[k - 1])
    IN  Answer(from, run[Len(s)])

\* Mutant of NextEnd: the listing is never started over.
NextEndForward(prog, s, delim, e, from) ==
    RunEnds(prog, s, delim, [e EXCEPT !.reach = Max({@, from})], from)

\* Next: the first end at or after from, -1 if there is none.
NextEnd(prog, s, delim, e, from) ==
    LET a == [e EXCEPT !.reach = Max({@, from})]
    IN  RunEnds(prog, s, delim, IF from < a.pos THEN Restart(prog, s, a) ELSE a, from)

-----------------------------------------------------------------------------
(* What an expression matches, said without lists: every instruction that   *)
(* is reached at each position of the text.                                 *)

ClassAt(s, p) == IF p \in 0 .. Len(s) - 1 THEN Class(s[p + 1]) ELSE Edge

\* What is reached at a position, where before is what is reached at those before it.
ReachedFrom(prog, s, before, p) ==
    LET reads == {q \in 0 .. p - 1 : q + Width(s, q) = p}
        from  == IF p = 0 THEN {1}
                 ELSE UNION {{prog[pc].out :
                          pc \in Matching(prog, before[q] \cap RuneInsts(prog), RuneAt(s, q))} :
                      q \in reads}
    IN  Closure(prog, from, Holding(ClassAt(s, p - 1), ClassAt(s, p)))

ReachedAt(prog, s) ==
    LET reached[p \in 0 .. Len(s)] == ReachedFrom(prog, s, reached, p) IN reached

Matches(prog, s) == \E pc \in ReachedAt(prog, s)[Len(s)] : prog[pc].op = "match"
=============================================================================
