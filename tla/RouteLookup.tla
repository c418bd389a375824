----------------------------- MODULE RouteLookup -----------------------------
(***************************************************************************)
(* Routing a request: node.lookup, lookupByHostname and lookupByPath, one   *)
(* action per branch of their Walk loop, on trees that module CowTree       *)
(* builds.  The walk keeps a stack of the alternatives it skipped, and a    *)
(* memo (lookupState) of what is known to fail.  When the memo says that a  *)
(* nested wildcard with an expression would be scanned again, the Pike VM   *)
(* of module PikeVM takes over from the outermost infix wildcard on.        *)
(***************************************************************************)
EXTENDS PikeVM

CONSTANT Scenarios   \* [lists, reqs]: the routes of trees, in the order they
                     \* are added, and the requests

VARIABLES walk,      \* the local variables of the running loop
          caller,    \* those of lookupByHostname while lookupByPath runs
          stack,     \* Context.skipStack
          params,    \* Context.params
          memo,      \* lookupState: failed, nodes whose path failed, exhausted,
                     \* where the scans of an infix wildcard began, and regexps
          vm,        \* the pikeVM of the hostname and that of the path
          result     \* the values returned

vars == <<nodes, top, req, walk, caller, stack, params, memo, vm, result>>

Built(list) ==
    LET o == NewTree([nodes |-> [n \in {} |-> NewRoot], maps |-> [m \in {} |-> Nil]])
    IN  FoldLeft(LAMBDA p, r : TxInsert(p.h, p.tx, r, "insert"),
                 [h |-> o.h, tx |-> Begin(o.tx)], list)

-----------------------------------------------------------------------------
(* The loop variables; pc is walk, suffix (the loop over the catch-alls),   *)
(* back (Backtrack) or vm.  tsr is the candidate an infix wildcard left     *)
(* (the named result n), suffix belongs to the loop over the catch-alls,    *)
(* paramCnt to a call of lookupByPath.                                      *)

Walk(mode, root, base) ==
    [pc |-> "walk", mode |-> mode, root |-> root, matched |-> root, parent |-> Nil, pos |-> 0,
     skipStatic |-> FALSE, pIdx |-> 0, wIdx |-> 0, wOff |-> 0, base |-> base,
     tsr |-> Nil, suffix |-> 0, paramCnt |-> 0]

NoCaller == Walk("none", Nil, 0)
NoSkip   == [node |-> Nil, parent |-> Nil, pos |-> 0, paramCnt |-> 0, pIdx |-> 0, wIdx |-> 0,
             wOff |-> 0]
NoVm     == [f |-> NoSkip, pos |-> -1, threads |-> <<>>, best |-> NoBest, hits |-> [n \in {} |-> Nil]]
Pending  == [node |-> Nil, index |-> 0, tsr |-> FALSE, done |-> FALSE]

Input   == InputOf(walk.mode)
Delim   == DelimOf(walk.mode)
Remaining == Drop(Input, walk.pos)
Matched == nodes[walk.matched]
Running(pc) == ~result.done /\ walk.pc = pc
InPath(pc)  == Running(pc) /\ walk.mode = "path"
InHost(pc)  == Running(pc) /\ walk.mode = "host"

\* Only the lookup root can have hostname params and wildcards: a path lookup
\* skips them.
Braces    == walk.mode = "host" \/ walk.matched # walk.root
ParamsOf  == IF Braces THEN Matched.params ELSE <<>>
Wildcards == IF Braces THEN Matched.wildcards ELSE <<>>

\* Mutant of SkipNode: the capture that follows is counted.
SkipNodeLate(pIdx, wIdx, wOff) ==
    [node |-> walk.matched, parent |-> walk.parent, pos |-> walk.pos,
     paramCnt |-> Len(params) + 1, pIdx |-> pIdx, wIdx |-> wIdx, wOff |-> wOff]

SkipNode(pIdx, wIdx, wOff) ==
    [node |-> walk.matched, parent |-> walk.parent, pos |-> walk.pos,
     paramCnt |-> Len(params), pIdx |-> pIdx, wIdx |-> wIdx, wOff |-> wOff]

Captured(s) == IF req.lazy THEN params ELSE Append(params, s)

PushIf(cond, skip) == stack' = IF cond THEN Append(stack, skip) ELSE stack

Descend(n, len) ==
    [walk EXCEPT !.parent = IF walk.mode = "host" THEN Nil ELSE walk.matched,
                 !.matched = n, !.pos = @ + len]

Backtrack == [walk EXCEPT !.pc = "back"]

-----------------------------------------------------------------------------
(* Returning *)

\* A match, with the memo as it then is.  The path of a hostname VM is one of its
\* hits, and the VM goes on.
ReturnNoting(n, i, tsr, ps, m) ==
    /\ memo' = m
    /\ IF caller.pc = "vm"
       THEN /\ vm' = [vm EXCEPT !.host.hits =
                        (walk.root :> [node |-> n, index |-> i, tsr |-> tsr,
                                       params |-> Drop(ps, caller.paramCnt)]) @@ @]
            /\ params' = SubSeq(ps, 1, caller.paramCnt)
            /\ stack' = SubSeq(stack, 1, walk.base)
            /\ walk' = caller
            /\ caller' = NoCaller
            /\ UNCHANGED <<tree, result>>
       ELSE /\ result' = [node |-> n, index |-> i, tsr |-> tsr, done |-> TRUE]
            /\ params' = ps
            /\ UNCHANGED <<tree, walk, caller, stack, vm>>

Return(n, i, tsr, ps) == ReturnNoting(n, i, tsr, ps, memo)

ReturnEmpty(w, use, tsr) == Return(w, FirstRoute(w, use), tsr, Captured(<<>>))

ReturnSlash(c) ==
    LET x == TrailingSlash(c)
    IN  Return(x.node, x.index, TRUE, IF x.node = c THEN params ELSE Captured(<<>>))

-----------------------------------------------------------------------------
(* Init: node.lookup up to its first call. *)

\* The tree has no route with a hostname.
PathOnly(n) == /\ DOMAIN nodes[n].statics = {Slash}
               /\ nodes[n].params = <<>> /\ nodes[n].wildcards = <<>>

StartMode == IF PathOnly(top) \/ req.host = <<>> \/ Slash \in ToSet(req.host)
             THEN "path" ELSE "host"

Init ==
    \E sc \in Scenarios : \E list \in sc.lists : \E o \in {Built(list)} : \E q \in sc.reqs :
        /\ nodes = o.h.nodes
        /\ top = o.tx.patterns
        /\ req = q
        /\ walk = Walk(StartMode, top, 0)
        /\ caller = NoCaller
        /\ stack = <<>>
        /\ params = <<>>
        /\ memo = [failed |-> {}, exhausted |-> [n \in {} |-> 0], regexps |-> [n \in {} |-> 0]]
        /\ vm = [host |-> NoVm, path |-> NoVm]
        /\ result = Pending

-----------------------------------------------------------------------------
(* Static edges *)

Label == Folded(Remaining, Delim)[1]
HasStatic == /\ walk.pos < Len(Input) /\ ~walk.skipStatic
             /\ Label \in DOMAIN Matched.statics
StaticChild == Matched.statics[Label]
StaticFits  == HasStatic /\ IsPrefix(nodes[StaticChild].key, Folded(Remaining, Delim))

StaticMissesSlash ==
    /\ walk.mode = "path" /\ HasStatic /\ ~StaticFits
    /\ MissesSlash(nodes[StaticChild].key, Remaining)

Alternatives == ParamsOf # <<>> \/ Wildcards # <<>>

WalkStatic ==
    /\ Running("walk")
    /\ StaticFits
    /\ PushIf(Alternatives, SkipNode(0, 0, 0))
    /\ walk' = Descend(StaticChild, Len(nodes[StaticChild].key))
    /\ UNCHANGED <<tree, caller, params, memo, vm, result>>

StaticSlash ==
    /\ Running("walk")
    /\ StaticMissesSlash /\ MatchTrailingSlash(StaticChild)
    /\ ReturnSlash(StaticChild)

\* Neither of the above: the loop goes on with params and wildcards.
PastStatic ==
    /\ Running("walk")
    /\ walk.pos < Len(Input)
    /\ ~StaticFits
    /\ ~(StaticMissesSlash /\ MatchTrailingSlash(StaticChild))

-----------------------------------------------------------------------------
(* Params *)

ParamsLeft == Drop(ParamsOf, walk.pIdx)

Segment == SegmentAt(Input, Delim, walk.pos)

\* The first param left whose expression accepts the segment, 0 if none does.
ParamChild == IF Segment = <<>> THEN 0
              ELSE FirstOf({i \in DOMAIN ParamsLeft : MatchRegexp(ParamsLeft[i], Segment)})

\* A param never matches an empty segment: the wildcards are left for later.
ParamEmpty ==
    /\ PastStatic
    /\ ParamsLeft # <<>> /\ Segment = <<>>
    /\ PushIf(Wildcards # <<>>, SkipNode(Len(Matched.params), 0, 0))
    /\ walk' = Backtrack
    /\ UNCHANGED <<tree, caller, params, memo, vm, result>>

WalkParam ==
    /\ PastStatic
    /\ ParamChild # 0
    /\ PushIf(ParamChild < Len(ParamsLeft) \/ Wildcards # <<>>,
              SkipNode(ParamChild + walk.pIdx, 0, 0))
    /\ params' = Captured(Segment)
    /\ walk' = [Descend(ParamsLeft[ParamChild], Len(Segment))
                   EXCEPT !.skipStatic = FALSE, !.pIdx = 0]
    /\ UNCHANGED <<tree, caller, memo, vm, result>>

PastParams == /\ PastStatic
              /\ ~(ParamsLeft # <<>> /\ Segment = <<>>)
              /\ ParamChild = 0

-----------------------------------------------------------------------------
(* Infix wildcards *)

WildcardsLeft == Drop(Wildcards, walk.wIdx)

InfixIdx == FirstOf({i \in DOMAIN WildcardsLeft : InfixEdge(walk.mode, WildcardsLeft[i])})
Infix    == WildcardsLeft[InfixIdx]

\* lookupState.scanEnd: capture ends past the start of a scan that failed are
\* known to fail.
ScanEnd(w) ==
    IF ~NoRegexpOn(w) \/ w \notin DOMAIN memo.exhausted THEN Len(Input)
    ELSE Max({walk.pos + walk.wOff, Min({Len(Input), memo.exhausted[w] + 1})})

\* lookupState.regexp: what is known of a wildcard with an expression.
RegexpOf(w) == IF w \in DOMAIN memo.regexps THEN memo.regexps[w]
               ELSE [scanned |-> FALSE, suffixed |-> FALSE, listed |-> FALSE, ends |-> NoListing]

Noted(w, rx) == IF NoRegexpOn(w) THEN memo ELSE [memo EXCEPT !.regexps = (w :> rx) @@ @]

\* lookupState.retryScan, for a scan that is not resumed: an earlier one of the
\* same wildcard went past this start.
RetryScan(w) ==
    /\ ~NoRegexpOn(w) /\ nodes[w].nested /\ walk.wOff = 0
    /\ RegexpOf(w).scanned
    /\ ~RegexpOf(w).listed \/ Reached(RegexpOf(w).ends) >= walk.pos

\* The rest of the path starts with the key below the wildcard, or the other
\* way round.
MayContinue(w, e) ==
    LET key  == nodes[nodes[w].statics[Slash]].key
        rest == Drop(Input, e)
    IN  walk.mode = "path" => IsPrefix(key, rest) \/ IsPrefix(rest, key)

\* A regexp that never matches a slash only matches up to the first one.
SingleCapture(w) ==
    /\ walk.mode = "path" /\ ~NoRegexpOn(w) /\ ~nodes[w].nested
    /\ ~Consumes(Prog(nodes[w].key), Slash)

\* lookupState.ends: the scan x goes on with the listing of the capture ends.
Listing(w, x) ==
    [x EXCEPT !.listing = TRUE, !.rx.listed = TRUE,
              !.rx.ends = StartEnds(Prog(nodes[w].key), Input, @, walk.pos)]

DelimsFrom(x) == {e \in x.from .. x.end - 1 : Input[e + 1] = Delim}

\* The loop over the capture ends.  x = [from, end, evaluated, listing, rx, found]:
\* the expression is matched against the first capture, from the second on the
\* ends are listed.
RECURSIVE Scan(_, _)
Scan(w, x) ==
    LET n == NextEnd(Prog(nodes[w].key), Input, Delim, x.rx.ends, x.from)
        e == IF x.listing THEN n.end
             ELSE IF DelimsFrom(x) = {} THEN -1 ELSE Min(DelimsFrom(x))
        y == IF x.listing THEN [x EXCEPT !.rx.ends = n.ends]
             ELSE IF e >= 0 /\ SingleCapture(w) THEN [x EXCEPT !.end = e + 1] ELSE x
    IN  IF e < 0 THEN y
        ELSE IF e = walk.pos THEN Scan(w, [y EXCEPT !.from = @ + 1])
        ELSE IF ~MayContinue(w, e) THEN Scan(w, [y EXCEPT !.from = e + 1])
        ELSE IF NoRegexpOn(w) \/ y.listing THEN [y EXCEPT !.found = e]
        ELSE IF y.evaluated THEN Scan(w, Listing(w, [y EXCEPT !.from = e]))
        ELSE IF MatchRegexp(w, SubSeq(Input, walk.pos + 1, e)) THEN [y EXCEPT !.found = e]
        ELSE Scan(w, [y EXCEPT !.evaluated = TRUE, !.from = e + 1])

\* Where the capture of w ends, found = -1 if nowhere.
Scanned(w) ==
    LET x == [from |-> walk.pos + walk.wOff, end |-> ScanEnd(w), evaluated |-> walk.wOff > 0,
              listing |-> FALSE, rx |-> RegexpOf(w), found |-> -1]
    IN  IF NoRegexpOn(w) THEN Scan(w, x)
        ELSE IF walk.wOff > 0 THEN Scan(w, Listing(w, x))
        ELSE IF nodes[w].nested
        THEN Scan(w, [x EXCEPT !.rx.scanned = TRUE, !.rx.listed = FALSE])
        ELSE Scan(w, x)

\* Mutant of NextOffset: the scan is resumed where it was.
SameOffset(e) == e - walk.pos

\* Mutant of NextOffset: the scan resumes too far.
FarOffset(e) == e - walk.pos + 3

\* Where the scan of an infix wildcard resumes when what follows fails.
NextOffset(e) == e - walk.pos + 1

\* The next infix wildcard is scanned.
AtInfix == PastParams /\ InfixIdx # 0 /\ ~RetryScan(Infix)

WalkInfix ==
    /\ AtInfix
    /\ \E x \in {Scanned(Infix)} :
          /\ x.found >= 0
          /\ stack' = Append(stack, SkipNode(Len(Matched.params), InfixIdx - 1 + walk.wIdx,
                                             NextOffset(x.found)))
          /\ params' = Captured(SubSeq(Input, walk.pos + 1, x.found))
          /\ walk' = [Descend(Infix, x.found - walk.pos)
                         EXCEPT !.skipStatic = FALSE, !.pIdx = 0, !.wIdx = 0, !.wOff = 0]
          /\ memo' = Noted(Infix, x.rx)
    /\ UNCHANGED <<tree, caller, vm, result>>

\* The rest of the path, and a slash, may match the wildcard w.
TriesSlash(w, x) ==
    /\ walk.mode = "path"
    /\ x.end = Len(Input) /\ Last(Input) # Slash
    /\ SlashChild(w) /\ IsLeaf(nodes[nodes[w].statics[Slash]])

InfixMissesSlash(w, x) ==
    /\ TriesSlash(w, x)
    /\ MatchRegexp(w, Remaining)
    /\ FirstRoute(nodes[w].statics[Slash], "slash") # 0

\* lookupState.matchTail: the scan extends to the end of the path.
TailNoted(w, x) ==
    Noted(w, [x.rx EXCEPT !.listed = @ /\ ~(TriesSlash(w, x) /\ nodes[w].nested)])

InfixSlash ==
    /\ AtInfix
    /\ \E x \in {Scanned(Infix)} :
          /\ x.found < 0
          /\ InfixMissesSlash(Infix, x)
          /\ memo' = TailNoted(Infix, x)
    /\ walk' = [walk EXCEPT !.pc = "suffix", !.skipStatic = FALSE,
                            !.tsr = nodes[Infix].statics[Slash]]
    /\ UNCHANGED <<tree, caller, stack, params, vm, result>>

\* lookupState.markExhausted
MarkExhausted(w, x) ==
    IF ~NoRegexpOn(w) THEN TailNoted(w, x)
    ELSE [memo EXCEPT !.exhausted =
             (w :> IF w \in DOMAIN @ THEN Min({@[w], walk.pos}) ELSE walk.pos) @@ @]

InfixExhausted ==
    /\ AtInfix
    /\ \E x \in {Scanned(Infix)} :
          /\ x.found < 0
          /\ ~InfixMissesSlash(Infix, x)
          /\ memo' = MarkExhausted(Infix, x)
    /\ PushIf(InfixIdx < Len(WildcardsLeft),
              SkipNode(Len(Matched.params), InfixIdx + walk.wIdx, 0))
    /\ walk' = [walk EXCEPT !.pc = IF InfixIdx < Len(WildcardsLeft) THEN "back" ELSE "suffix",
                            !.skipStatic = FALSE]
    /\ UNCHANGED <<tree, caller, params, vm, result>>

NoInfix ==
    /\ PastParams
    /\ InfixIdx = 0
    /\ walk' = [walk EXCEPT !.pc = IF WildcardsLeft = <<>> THEN "back" ELSE "suffix",
                            !.skipStatic = FALSE]
    /\ UNCHANGED <<tree, caller, stack, params, memo, vm, result>>

-----------------------------------------------------------------------------
(* Catch-alls, once no infix wildcard is left *)

\* lookupState.retrySuffix
RetrySuffix(w) == ~NoRegexpOn(w) /\ nodes[w].nested /\ RegexpOf(w).suffixed

\* The memo once the wildcards ws were evaluated as catch-alls.
Suffixed(ws) ==
    LET ns == {w \in ws : ~NoRegexpOn(w) /\ nodes[w].nested}
    IN  [memo EXCEPT !.regexps = [w \in ns |-> [RegexpOf(w) EXCEPT !.suffixed = TRUE]] @@ @]

\* lookupByPath: the first catch-all that matches or hands over to the VM.
SuffixServes(w) ==
    /\ SuffixEdge("path", w)
    /\ RetrySuffix(w) \/ (MatchRegexp(w, Remaining) /\ FirstRoute(w, "any") # 0)

SuffixChild == FirstOf({i \in DOMAIN Matched.wildcards : SuffixServes(Matched.wildcards[i])})

SuffixesTried ==
    {w \in ToSet(SubSeq(Matched.wildcards, 1,
                        IF SuffixChild = 0 THEN Len(Matched.wildcards) ELSE SuffixChild)) :
        SuffixEdge("path", w)}

SuffixMatch ==
    /\ InPath("suffix")
    /\ SuffixChild # 0 /\ ~RetrySuffix(Matched.wildcards[SuffixChild])
    /\ LET w == Matched.wildcards[SuffixChild]
       IN  ReturnNoting(w, FirstRoute(w, "any"), FALSE, Captured(Remaining), Suffixed(SuffixesTried))

\* The candidate that InfixSlash recorded.
SuffixSlash ==
    /\ InPath("suffix")
    /\ SuffixChild = 0 /\ walk.tsr # Nil
    /\ ReturnNoting(walk.tsr, FirstRoute(walk.tsr, "slash"), TRUE, Captured(Remaining),
                    Suffixed(SuffixesTried))

SuffixNone ==
    /\ InPath("suffix")
    /\ SuffixChild = 0 /\ walk.tsr = Nil
    /\ memo' = Suffixed(SuffixesTried)
    /\ walk' = Backtrack
    /\ UNCHANGED <<tree, caller, stack, params, vm, result>>

\* lookupByHostname or its VM calls lookupByPath below the node n.
CallPath(n, resume, ps, m) ==
    /\ caller' = [resume EXCEPT !.paramCnt = Len(params)]
    /\ walk' = Walk("path", n, Len(stack))
    /\ params' = ps
    /\ memo' = m
    /\ UNCHANGED <<tree, stack, vm, result>>

\* lookupState.pathFailed
PathFailed(n) == n \in memo.failed

\* The catch-alls of the hostname whose path is not known to fail, and the next
\* that matches or hands over.
HostSuffixes ==
    {i \in walk.suffix + 1 .. Len(Matched.wildcards) :
        SuffixEdge("host", Matched.wildcards[i]) /\ ~PathFailed(Matched.wildcards[i])}

HostSuffixIdx ==
    FirstOf({i \in HostSuffixes : \/ RetrySuffix(Matched.wildcards[i])
                                  \/ MatchRegexp(Matched.wildcards[i], Remaining)})

HostSuffixesTried ==
    {Matched.wildcards[i] : i \in {k \in HostSuffixes : HostSuffixIdx = 0 \/ k <= HostSuffixIdx}}

HostSuffix ==
    /\ InHost("suffix")
    /\ HostSuffixIdx # 0 /\ ~RetrySuffix(Matched.wildcards[HostSuffixIdx])
    /\ CallPath(Matched.wildcards[HostSuffixIdx], [walk EXCEPT !.suffix = HostSuffixIdx],
                Captured(Remaining), Suffixed(HostSuffixesTried))

HostSuffixNone ==
    /\ InHost("suffix")
    /\ HostSuffixIdx = 0
    /\ memo' = Suffixed(HostSuffixesTried)
    /\ walk' = [Backtrack EXCEPT !.suffix = 0]
    /\ UNCHANGED <<tree, caller, stack, params, vm, result>>

-----------------------------------------------------------------------------
(* The input is used up *)

AtEnd(mode) == Running("walk") /\ walk.mode = mode /\ walk.pos = Len(Input)

EndLeaf ==
    /\ AtEnd("path")
    /\ FirstRoute(walk.matched, "any") # 0
    /\ Return(walk.matched, FirstRoute(walk.matched, "any"), FALSE, params)

EndNoLeaf == AtEnd("path") /\ FirstRoute(walk.matched, "any") = 0

EndEmpty ==
    /\ EndNoLeaf
    /\ EmptyCatchAll(walk.matched, "empty") # 0
    /\ ReturnEmpty(Matched.wildcards[EmptyCatchAll(walk.matched, "empty")], "empty", FALSE)

EndNoCatchAll == EndNoLeaf /\ EmptyCatchAll(walk.matched, "empty") = 0

EndSlashAdded ==
    /\ EndNoCatchAll
    /\ EndAddsSlash(walk.matched) /\ MatchTrailingSlash(Matched.statics[Slash])
    /\ ReturnSlash(Matched.statics[Slash])

EndSlashDropped ==
    /\ EndNoCatchAll
    /\ EndDropsSlash(walk.matched, walk.parent)
    /\ Return(walk.parent, FirstRoute(walk.parent, "drop"), TRUE, params)

EndNone ==
    /\ EndNoCatchAll
    /\ ~(EndAddsSlash(walk.matched) /\ MatchTrailingSlash(Matched.statics[Slash]))
    /\ ~EndDropsSlash(walk.matched, walk.parent)
    /\ walk' = Backtrack
    /\ UNCHANGED <<tree, caller, stack, params, memo, vm, result>>

\* The hostname is used up: its path follows, unless it is known to fail.
PathBelow == Slash \in DOMAIN Matched.statics /\ ~PathFailed(walk.matched)

EndHost ==
    /\ AtEnd("host")
    /\ PathBelow
    /\ CallPath(walk.matched, Backtrack, params, memo)

EndHostNone ==
    /\ AtEnd("host")
    /\ ~PathBelow
    /\ walk' = Backtrack
    /\ UNCHANGED <<tree, caller, stack, params, memo, vm, result>>

-----------------------------------------------------------------------------
(* The Pike VM *)

\* The entries of infix wildcards on the stack of this lookup.
InfixEntries == {i \in walk.base + 1 .. Len(stack) : stack[i].wOff > 0}

\* goto VM: outermostInfix gives the walk up from there on.
HandOver(m) ==
    /\ LET f == stack[Min(InfixEntries)]
       IN  /\ vm' = [vm EXCEPT ![walk.mode] = [NoVm EXCEPT !.f = f]]
           /\ params' = SubSeq(params, 1, f.paramCnt)
    /\ stack' = SubSeq(stack, 1, Min(InfixEntries) - 1)
    /\ memo' = m
    /\ walk' = [walk EXCEPT !.pc = "vm", !.suffix = 0, !.tsr = Nil]
    /\ UNCHANGED <<tree, caller, result>>

\* Some wildcard is about to be evaluated again.
ScanRepeats   == PastParams /\ InfixIdx # 0 /\ RetryScan(Infix)
SuffixRepeats == InPath("suffix") /\ SuffixChild # 0 /\ RetrySuffix(Matched.wildcards[SuffixChild])
HostRepeats   == /\ InHost("suffix") /\ HostSuffixIdx # 0
                 /\ RetrySuffix(Matched.wildcards[HostSuffixIdx])

ScanHandsOver ==
    /\ ScanRepeats
    /\ HandOver(Noted(Infix, [RegexpOf(Infix) EXCEPT !.listed = FALSE]))

SuffixHandsOver == SuffixRepeats /\ HandOver(Suffixed(SuffixesTried))

HostHandsOver == HostRepeats /\ HandOver(Suffixed(HostSuffixesTried))

Machine == vm[walk.mode]
Empties == NewList(walk.mode, Machine.best, Machine.hits, memo.failed)

\* Before the first position, and at the position pos.
Starting == Running("vm") /\ Machine.pos < 0
Stepping == /\ Running("vm") /\ Machine.pos \in 0 .. Len(Input) - 1
            /\ Machine.threads # <<>>

\* Mutant of VmList: the threads take the position in the order of a stack.
VmListReversed ==
    IF Starting THEN BeginThreads(Empties, Machine.f)
    ELSE StepThreads(Empties, Reverse(Machine.threads), Machine.pos + 1)

VmList == IF Starting THEN BeginThreads(Empties, Machine.f)
          ELSE StepThreads(Empties, Machine.threads, Machine.pos + 1)

VmStep ==
    /\ Starting \/ Stepping
    /\ \E v \in {VmList} :
          /\ v.need = Nil
          /\ vm' = [vm EXCEPT ![walk.mode] =
                      [@ EXCEPT !.threads = v.threads, !.best = v.best,
                                !.pos = IF Starting THEN BeginsAt(walk.mode, Machine.f) ELSE @ + 1]]
    /\ UNCHANGED <<tree, walk, caller, stack, params, memo, result>>

\* pathLookup: the path below a hostname, looked up once.
VmCallsPath ==
    /\ Starting \/ Stepping
    /\ \E v \in {VmList} : v.need # Nil /\ CallPath(v.need, walk, params, memo)

VmEnds == Running("vm") /\ ~Starting /\ ~Stepping

VmReturns ==
    /\ VmEnds /\ Machine.best.node # Nil
    /\ LET b == Machine.best
           caps == [i \in DOMAIN b.caps |-> SubSeq(Input, b.caps[i][1] + 1, b.caps[i][2])]
       IN  Return(b.node, b.index, b.tsr, IF req.lazy THEN params ELSE params \o caps \o b.tail)

\* The walk resumes below the outermost infix wildcard.
VmFails ==
    /\ VmEnds /\ Machine.best.node = Nil
    /\ walk' = IF walk.mode = "host" THEN Backtrack
               ELSE [Backtrack EXCEPT !.matched = Machine.f.node, !.pos = Machine.f.pos]
    /\ vm' = [vm EXCEPT ![walk.mode] = NoVm]
    /\ UNCHANGED <<tree, caller, stack, params, memo, result>>

-----------------------------------------------------------------------------
(* Backtracking *)

\* A slash is left over at a leaf.
BackDropsSlash == walk.mode = "path" /\ DropsSlash(walk.matched, Remaining)

BackSlash ==
    /\ Running("back")
    /\ BackDropsSlash
    /\ Return(walk.matched, FirstRoute(walk.matched, "drop"), TRUE, params)

Restored(skip) == SubSeq(params, 1, skip.paramCnt)

Pop ==
    /\ Running("back")
    /\ ~BackDropsSlash
    /\ Len(stack) # walk.base
    /\ LET skip == Last(stack)
       IN  /\ params' = Restored(skip)
           /\ walk' = [walk EXCEPT !.pc = "walk", !.matched = skip.node, !.parent = skip.parent,
                                   !.pos = skip.pos, !.skipStatic = TRUE, !.pIdx = skip.pIdx,
                                   !.wIdx = skip.wIdx, !.wOff = skip.wOff]
    /\ stack' = Front(stack)
    /\ UNCHANGED <<tree, caller, memo, vm, result>>

Failing(mode) ==
    Running("back") /\ walk.mode = mode /\ ~BackDropsSlash /\ Len(stack) = walk.base

\* lookupByPath fails and lookupByHostname or its VM resumes.  Only a backtrack,
\* or the VM, can reach the node again.
PathFails ==
    /\ Failing("path") /\ caller # NoCaller
    /\ memo' = IF walk.base = 0 /\ caller.pc # "vm" THEN memo
               ELSE [memo EXCEPT !.failed = @ \cup {walk.root}]
    /\ stack' = SubSeq(stack, 1, walk.base)
    /\ params' = IF caller.pc \in {"suffix", "vm"} THEN SubSeq(params, 1, caller.paramCnt) ELSE params
    /\ walk' = caller
    /\ caller' = NoCaller
    /\ UNCHANGED <<tree, vm, result>>

\* No hostname matches: routes without one are tried.
HostFails ==
    /\ Failing("host")
    /\ walk' = Walk("path", top, 0)
    /\ stack' = <<>>
    /\ params' = <<>>
    /\ UNCHANGED <<tree, caller, memo, vm, result>>

NoMatch == Failing("path") /\ caller = NoCaller /\ Return(Nil, 0, FALSE, params)

Done == result.done /\ UNCHANGED vars

Step ==
    \/ WalkStatic \/ StaticSlash \/ ParamEmpty \/ WalkParam
    \/ WalkInfix \/ InfixSlash \/ InfixExhausted \/ NoInfix
    \/ SuffixMatch \/ SuffixSlash \/ SuffixNone \/ HostSuffix \/ HostSuffixNone
    \/ EndLeaf \/ EndEmpty \/ EndSlashAdded \/ EndSlashDropped \/ EndNone
    \/ EndHost \/ EndHostNone
    \/ ScanHandsOver \/ SuffixHandsOver \/ HostHandsOver
    \/ VmStep \/ VmCallsPath \/ VmReturns \/ VmFails
    \/ BackSlash \/ Pop \/ PathFails \/ HostFails \/ NoMatch

Next == Step \/ Done

Spec == Init /\ [][Next]_vars

-----------------------------------------------------------------------------
(* Properties *)

TypeOK ==
    /\ top \in DOMAIN nodes
    /\ walk.pc \in {"walk", "suffix", "back", "vm"} /\ walk.mode \in {"host", "path"}
    /\ {walk.matched, walk.root} \subseteq DOMAIN nodes
    /\ walk.parent \in DOMAIN nodes \cup {Nil}
    /\ walk.pos \in 0 .. Len(Input) /\ walk.base \in Nat
    /\ memo.failed \cup DOMAIN memo.exhausted \cup DOMAIN memo.regexps \subseteq DOMAIN nodes
    /\ \A m \in {"host", "path"} : vm[m].best.node \in DOMAIN nodes \cup {Nil}
    /\ result.node \in DOMAIN nodes \cup {Nil}

\* What the stack is trusted for, besides well-typed states.  A lookup never pops
\* what its caller pushed; cutting the params back to an entry never brings back
\* values past their end; an entry with params left to try starts the wildcards
\* from the beginning (the comment above skipStack.pop in lookupByPath); and when
\* the Pike VM takes over, an infix wildcard of this very lookup is on the stack
\* (outermostInfix panics otherwise).
StackDiscipline ==
    /\ TypeOK
    /\ walk.base <= Len(stack)
    /\ \A i \in DOMAIN stack :
          /\ stack[i].paramCnt <= Len(params)
          /\ i > 1 => stack[i - 1].paramCnt <= stack[i].paramCnt
          /\ stack[i].pIdx < Len(nodes[stack[i].node].params)
                => stack[i].wIdx = 0 /\ stack[i].wOff = 0
    /\ ScanRepeats \/ SuffixRepeats \/ HostRepeats => InfixEntries # {}

TreeRoutes == UNION {ToSet(nodes[n].routes) : n \in Reach(nodes, top)}
Returned   == nodes[result.node].routes[result.index]
IsReturned(m) == /\ m.route = Returned /\ m.tsr = result.tsr
                 /\ params = IF req.lazy THEN <<>> ELSE m.caps

\* lookup finds no route only if none of the tree matches the request, or its path
\* with the trailing slash added or removed where the route allows it.  The route
\* it returns is the preferred one of those that match, whatever was skipped and
\* retried on the way (hostname before path, static before param before wildcard,
\* an expression before none, at the first token where two matches differ), and
\* the params are what its wildcards capture, nothing left over from an abandoned
\* branch.
LookupPreferred ==
    result.done => LET preferred == Preferred(AllMatches(TreeRoutes, req))
                   IN  IF result.node = Nil THEN preferred = {}
                       ELSE \E m \in preferred : IsReturned(m)

\* The patterns below a node.
StaticToken(key) == [typ |-> "static", value |-> key, regexp |-> NoRegexp, hsplit |-> FALSE,
                     nested |-> FALSE]
BraceToken(typ, key) ==
    [typ |-> typ, value |-> "", hsplit |-> FALSE,
     regexp |-> IF key \in {"?", "*"} THEN NoRegexp ELSE key, nested |-> FALSE]

RECURSIVE Below(_, _)
Below(ns, n) ==
    LET from(tk, c) == {[b EXCEPT !.tokens = <<tk>> \o @] : b \in Below(ns, c)}
    IN  {[tokens |-> <<>>, route |-> r] : r \in ToSet(ns[n].routes)} \cup
        UNION {from(StaticToken(ns[c].key), c) : c \in Range(ns[n].statics)} \cup
        UNION {from(BraceToken("param", ns[c].key), c) : c \in ToSet(ns[n].params)} \cup
        UNION {from(BraceToken("wildcard", ns[c].key), c) : c \in ToSet(ns[n].wildcards)}

\* No route below the slash that follows n matches the path from e on.
FailsFrom(n, e) ==
    \A b \in {x \in Below(nodes, n) : x.tokens # <<>> /\ x.tokens[1].typ = "static"} :
        AllMatches({[b.route EXCEPT !.pattern.tokens = b.tokens, !.pattern.hostLen = 0]},
                   [req EXCEPT !.path = Drop(@, e)]) = {}

\* What the memo prunes really fails: no route below a wildcard of the path that
\* is marked as exhausted matches behind a capture that ends after the start of
\* the scan, and no route below a hostname marked as failed matches the path.
MemoSound ==
    /\ \A n \in memo.failed : FailsFrom(n, 0)
    /\ \A w \in {n \in DOMAIN memo.exhausted : DOMAIN nodes[n].statics = {Slash}} :
          \A e \in memo.exhausted[w] + 1 .. Len(req.path) - 1 :
              req.path[e + 1] = Slash => FailsFrom(w, e)

\* The comment above lookupByPath: a trailing-slash match "keeps the priority of
\* the branch where it was found", so a direct match is never taken when the first
\* step it differs in is one of lower priority.
SlashKeepsPriority ==
    result.node # Nil /\ ~result.tsr =>
        \E m \in AllMatches({Returned}, req) :
            /\ IsReturned(m)
            /\ ~ \E t \in AllMatches(TreeRoutes, req) :
                    /\ t.tsr /\ ~Overrides(m, t)
                    /\ \E i \in DOMAIN t.trace \cap DOMAIN m.trace :
                          /\ SubSeq(t.trace, 1, i - 1) = SubSeq(m.trace, 1, i - 1)
                          /\ StepLess(IF t.trace[i] = SlashStep THEN StaticStep ELSE t.trace[i],
                                      m.trace[i])

\* Every lookup returns: whatever is skipped, retried and handed over to the VM, it
\* takes only finitely many steps (and one that has not returned can take another,
\* or TLC would report a deadlock).
LookupTerminates == <>[][FALSE]_vars
=============================================================================
