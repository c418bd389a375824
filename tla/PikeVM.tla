------------------------------- MODULE PikeVM -------------------------------
(***************************************************************************)
(* The Pike VM (pikevm.go) that takes over from the walk when a nested      *)
(* wildcard with an expression would be scanned again: it runs all the      *)
(* alternatives below a node in one pass over the input.  Threads are       *)
(* ordered by priority, and of two that reach the same state at a position  *)
(* the first one stays.  The operators here say what one position does;     *)
(* module RouteLookup takes the positions one by one.                       *)
(*                                                                          *)
(* The list under construction is                                           *)
(*   v = [mode, threads, seen, best, cut, need, hits, failed]:              *)
(* seen are the states marked at the position, best the last match, cut     *)
(* says that it cuts the threads after it.  A hostname VM looks up the path *)
(* below a node (hits, failed); when it has not yet been looked up, need is *)
(* that node and the position is taken again once it has.                   *)
(*                                                                          *)
(* Nodes stand for themselves instead of their index in pikeVM.nodes, and   *)
(* captures are sequences of pairs instead of blocks of an arena.           *)
(***************************************************************************)
EXTENDS LookupNode

NoBest == [node |-> Nil, index |-> 0, tsr |-> FALSE, caps |-> <<>>, tail |-> <<>>]

NewList(mode, best, hits, failed) ==
    [mode |-> mode, threads |-> <<>>, seen |-> {}, best |-> best, cut |-> FALSE, need |-> Nil,
     hits |-> hits, failed |-> failed]

Thread(kind, n, parent, caps, start) ==
    [kind |-> kind, node |-> n, parent |-> parent, caps |-> caps, start |-> start,
     pcs |-> {}, wait |-> 0]

Added(v, marks, t) == [v EXCEPT !.seen = @ \cup marks, !.threads = Append(@, t)]

\* spawn
Spawn(v, kind, n, parent, caps, start) ==
    IF <<"key", n>> \in v.seen THEN v
    ELSE Added(v, {<<"key", n>>}, Thread(kind, n, parent, caps, start))

Admitted(v, t) ==
    IF t.pcs = {} THEN v ELSE Added(v, {<<t.kind, t.node, pc>> : pc \in t.pcs}, t)

\* start: the states of a thread that no other one of its kind and node has.
Begins(v, kind, n, parent, p, caps) ==
    LET pcs == {pc \in First(Prog(nodes[n].key), Class(InputOf(v.mode)[p + 1])) :
                   <<kind, n, pc>> \notin v.seen}
    IN  Admitted(v, [Thread(kind, n, parent, caps, p) EXCEPT !.pcs = pcs])

-----------------------------------------------------------------------------
(* Matches *)

\* found
Found(v, n, i, tsr, caps) ==
    [v EXCEPT !.best = [node |-> n, index |-> i, tsr |-> tsr, caps |-> caps, tail |-> <<>>],
              !.cut = TRUE]

EmptyPair == <<0, 0>>

\* The catch-all below c captures the empty string.
FoundBelow(v, c, x, caps) ==
    Found(v, x.node, x.index, TRUE, IF x.node = c THEN caps ELSE Append(caps, EmptyPair))

FoundSlash(v, c, caps) == FoundBelow(v, c, TrailingSlash(c), caps)

\* backtrack
Backtracked(v, n, p, caps) ==
    IF ~v.cut /\ v.mode = "path" /\ DropsSlash(n, Drop(req.path, p))
    THEN Found(v, n, FirstRoute(n, "drop"), TRUE, caps) ELSE v

\* atEnd
AtPathEnd(v, n, parent, caps) ==
    LET w == nodes[n].wildcards[EmptyCatchAll(n, "empty")]
    IN  CASE FirstRoute(n, "any") # 0 -> Found(v, n, FirstRoute(n, "any"), FALSE, caps)
          [] FirstRoute(n, "any") = 0 /\ EmptyCatchAll(n, "empty") # 0 ->
                Found(v, w, FirstRoute(w, "empty"), FALSE, Append(caps, EmptyPair))
          [] FirstRoute(n, "any") = 0 /\ EmptyCatchAll(n, "empty") = 0 ->
                IF EndAddsSlash(n) /\ MatchTrailingSlash(nodes[n].statics[Slash])
                THEN FoundSlash(v, nodes[n].statics[Slash], caps)
                ELSE IF EndDropsSlash(n, parent)
                THEN Found(v, parent, FirstRoute(parent, "drop"), TRUE, caps)
                ELSE v

\* infixTsr: the suffix catch-alls beside n come before the slash it lacks.
InfixTsr(v, n, parent, caps, start) ==
    LET child == nodes[n].statics[Slash]
        ws     == nodes[parent].wildcards
        beside == FirstOf({i \in DOMAIN ws : /\ MatchRegexp(ws[i], Drop(req.path, start))
                                            /\ FirstRoute(ws[i], "any") # 0})
        all == Append(caps, <<start, Len(req.path)>>)
    IN  IF \/ v.mode = "host" \/ Last(req.path) = Slash \/ ~SlashChild(n)
           \/ FirstRoute(child, "slash") = 0
        THEN v
        ELSE IF beside = 0 THEN Found(v, child, FirstRoute(child, "slash"), TRUE, all)
        ELSE Found(v, ws[beside], FirstRoute(ws[beside], "any"), FALSE, all)

\* pathLookup
PathLookup(v, n, caps) ==
    IF n \in v.failed THEN v
    ELSE IF n \notin DOMAIN v.hits THEN [v EXCEPT !.need = n, !.cut = TRUE]
    ELSE LET h == v.hits[n]
         IN  [Found(v, h.node, h.index, h.tsr, caps) EXCEPT !.best.tail = h.params]

\* matchSuffix, and the same for a catch-all without an expression.
MatchSuffix(v, n, caps) ==
    IF v.mode = "host" THEN PathLookup(v, n, caps)
    ELSE IF FirstRoute(n, "any") = 0 THEN v
    ELSE Found(v, n, FirstRoute(n, "any"), FALSE, caps)

-----------------------------------------------------------------------------
(* A node is reached at p *)

\* wildcards: the infix wildcards from i on, then the catch-alls.
InfixThread(v, n, w, p, caps) ==
    IF ~InfixEdge(v.mode, w) THEN v
    ELSE IF NoRegexpOn(w) THEN Spawn(v, "infix", w, n, caps, p)
    ELSE Begins(v, "infixRegexp", w, n, p, caps)

SuffixThread(v, n, w, p, caps) ==
    IF ~SuffixEdge(v.mode, w) THEN v
    ELSE IF ~NoRegexpOn(w) THEN Begins(v, "suffixRegexp", w, n, p, caps)
    ELSE MatchSuffix(v, w, Append(caps, <<p, Len(InputOf(v.mode))>>))

RECURSIVE AtInfixes(_, _, _, _, _)
AtInfixes(v, n, p, i, caps) ==
    LET ws == nodes[n].wildcards
        between(a) == IF i < Len(ws) /\ InfixEdge(v.mode, ws[i])
                      THEN Backtracked(a, n, p, caps) ELSE a
    IN  IF v.cut \/ i > Len(ws) THEN v
        ELSE AtInfixes(between(InfixThread(v, n, ws[i], p, caps)), n, p, i + 1, caps)

RECURSIVE AtSuffixes(_, _, _, _, _)
AtSuffixes(v, n, p, i, caps) ==
    IF v.cut \/ i > Len(nodes[n].wildcards) THEN v
    ELSE AtSuffixes(SuffixThread(v, n, nodes[n].wildcards[i], p, caps), n, p, i + 1, caps)

AtWildcards(v, n, p, i, caps) ==
    Backtracked(AtSuffixes(AtInfixes(v, n, p, i, caps), n, p, 1, caps), n, p, caps)

AtStatic(v, n, p, caps) ==
    LET rest  == Drop(Folded(InputOf(v.mode), DelimOf(v.mode)), p)
        child == nodes[n].statics[rest[1]]
        key   == nodes[child].key
    IN  IF rest[1] \notin DOMAIN nodes[n].statics THEN v
        ELSE IF IsPrefix(key, rest) THEN Spawn(v, "static", child, n, caps, 0)
        ELSE IF v.mode = "path" /\ MissesSlash(key, rest) /\ MatchTrailingSlash(child)
        THEN FoundSlash(v, child, caps)
        ELSE v

SegmentAt(s, delim, p) ==
    LET rest == Drop(s, p)
        i    == FirstOf({k \in DOMAIN rest : rest[k] = delim})
    IN  IF i = 0 THEN rest ELSE SubSeq(rest, 1, i - 1)

ParamThread(v, n, c, p, caps, segment) ==
    IF MatchRegexp(c, segment) THEN Spawn(v, "param", c, n, caps, p) ELSE v

RECURSIVE ParamThreads(_, _, _, _, _, _)
ParamThreads(v, n, p, i, caps, segment) ==
    IF i > Len(nodes[n].params) THEN v
    ELSE ParamThreads(ParamThread(v, n, nodes[n].params[i], p, caps, segment), n, p, i + 1, caps, segment)

\* params, and what stands in its place at a delimiter.
AtParams(v, n, p, caps) ==
    LET segment == SegmentAt(InputOf(v.mode), DelimOf(v.mode), p)
    IN  IF v.cut \/ nodes[n].params = <<>> THEN v
        ELSE IF segment = <<>> THEN Backtracked(v, n, p, caps)
        ELSE ParamThreads(v, n, p, 1, caps, segment)

\* visit and visitHost: start is -1 if nothing is captured.
Visit(v, n, parent, p, caps, start) ==
    LET u    == [v EXCEPT !.seen = @ \cup {<<"visit", n>>}]
        with == IF start < 0 THEN caps ELSE Append(caps, <<start, p>>)
    IN  IF <<"visit", n>> \in v.seen THEN v
        ELSE IF p < Len(InputOf(v.mode))
        THEN AtWildcards(AtParams(AtStatic(u, n, p, with), n, p, with), n, p, 1, with)
        ELSE IF v.mode = "path" THEN AtPathEnd(u, n, parent, with)
        ELSE IF Slash \in DOMAIN nodes[n].statics THEN PathLookup(u, n, with)
        ELSE u

-----------------------------------------------------------------------------
(* A thread consumes the byte at p - 1 *)

\* At the end of a capture that the expression accepts.
AtCaptureEnd(v, t, p) ==
    IF t.kind = "suffixRegexp" THEN MatchSuffix(v, t.node, Append(t.caps, <<t.start, p>>))
    ELSE IF p = Len(InputOf(v.mode)) THEN InfixTsr(v, t.node, t.parent, t.caps, t.start)
    ELSE Visit(v, t.node, t.parent, p, t.caps, t.start)

Captures(v, t, p, pcs) ==
    LET s == InputOf(v.mode)
    IN  /\ p = Len(s) \/ (t.kind = "infixRegexp" /\ s[p + 1] = DelimOf(v.mode))
        /\ Accepted(Prog(nodes[t.node].key), Class(s[p]), pcs)

MarkedBy(v, t) == {pc \in DOMAIN Prog(nodes[t.node].key) : <<t.kind, t.node, pc>> \in v.seen}

\* The states x that follow, if no other thread has all of them.
GoesOn(v, t, x) ==
    LET u == [v EXCEPT !.seen = @ \cup {<<t.kind, t.node, pc>> : pc \in x.seen}]
    IN  IF x.pcs = {} THEN u ELSE Added(u, {}, [t EXCEPT !.pcs = x.pcs, !.wait = 0])

FollowThread(v, t, p, pcs) ==
    LET s == InputOf(v.mode)
    IN  IF v.cut \/ p = Len(s) THEN v
        ELSE GoesOn(v, t, Expanded(Prog(nodes[t.node].key), pcs,
                                   Holding(Class(s[p]), Class(s[p + 1])), MarkedBy(v, t)))

\* A thread of an expression: pcs matched the rune that ends at p.
StepRegexp(v, t, p, pcs) ==
    FollowThread(IF Captures(v, t, p, pcs) THEN AtCaptureEnd(v, t, p) ELSE v, t, p, pcs)

StepStatic(v, t, p) ==
    IF t.start + 1 = Len(nodes[t.node].key) THEN Visit(v, t.node, t.parent, p, t.caps, -1)
    ELSE Added(v, {}, [t EXCEPT !.start = @ + 1])

StepParam(v, t, p) ==
    IF SegmentAt(InputOf(v.mode), DelimOf(v.mode), p) = <<>>
    THEN Visit(v, t.node, t.parent, p, t.caps, t.start)
    ELSE Spawn(v, "param", t.node, t.parent, t.caps, t.start)

SpawnUncut(v, n, parent, caps, start) ==
    IF v.cut THEN v ELSE Spawn(v, "infix", n, parent, caps, start)

StepInfix(v, t, p) ==
    IF p = Len(InputOf(v.mode)) THEN InfixTsr(v, t.node, t.parent, t.caps, t.start)
    ELSE SpawnUncut(IF InputOf(v.mode)[p + 1] # DelimOf(v.mode) THEN v
                    ELSE Visit(v, t.node, t.parent, p, t.caps, t.start),
                    t.node, t.parent, t.caps, t.start)

\* A rune of several bytes is matched at its first and followed at its last.
StepMatched(v, t, p, matched) ==
    LET width == Width(InputOf(v.mode), p - 1)
    IN  IF matched = {} THEN v
        ELSE IF t.wait = 0 /\ width > 1
        THEN Added(v, {}, [t EXCEPT !.wait = width - 1, !.pcs = matched])
        ELSE StepRegexp(v, t, p, matched)

StepRune(v, t, p) ==
    IF t.wait > 1 THEN Added(v, {}, [t EXCEPT !.wait = @ - 1])
    ELSE StepMatched(v, t, p,
                     IF t.wait = 1 THEN t.pcs
                     ELSE Matching(Prog(nodes[t.node].key), t.pcs, RuneAt(InputOf(v.mode), p - 1)))

\* step
StepThread(v, t, p) ==
    CASE t.kind = "static" -> StepStatic(v, t, p)
      [] t.kind = "param"  -> StepParam(v, t, p)
      [] t.kind = "infix"  -> StepInfix(v, t, p)
      [] OTHER             -> StepRune(v, t, p)

\* The body of the loop of run: the threads in their order, up to a cut.
RECURSIVE StepThreads(_, _, _)
StepThreads(v, threads, p) ==
    IF v.cut \/ threads = <<>> THEN v
    ELSE StepThreads(StepThread(v, Head(threads), p), Tail(threads), p)

-----------------------------------------------------------------------------
(* begin: the first threads of the walk from the skip node f *)

HasSuffixRegexp(mode, n) ==
    \E w \in ToSet(nodes[n].wildcards) : ~NoRegexpOn(w) /\ SuffixEdge(mode, w)

\* The captures that end before the current one already failed.
Resumes(mode, f) ==
    NoRegexpOn(nodes[f.node].wildcards[f.wIdx + 1]) /\ ~HasSuffixRegexp(mode, f.node)

BeginsAt(mode, f) == IF Resumes(mode, f) THEN f.pos + f.wOff - 1 ELSE f.pos

\* The capture of the skipped infix wildcard w goes on after those beside it.
ResumeInfix(v, f, w) ==
    IF v.need # Nil THEN v
    ELSE SpawnUncut(Visit([v EXCEPT !.cut = FALSE], w, f.node, BeginsAt(v.mode, f), <<>>, f.pos),
                    w, f.node, <<>>, f.pos)

BeginThreads(v, f) ==
    IF ~Resumes(v.mode, f) THEN AtWildcards(v, f.node, f.pos, f.wIdx + 1, <<>>)
    ELSE ResumeInfix(AtWildcards(v, f.node, f.pos, f.wIdx + 2, <<>>), f,
                     nodes[f.node].wildcards[f.wIdx + 1])
=============================================================================
