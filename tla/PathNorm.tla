------------------------------ MODULE PathNorm ------------------------------
(***************************************************************************)
(* redirectRoutingPath (fox.go) with the loops of MergeSlashes and          *)
(* CollapseDotSegments (path.go), one action per case of a loop.  Both      *)
(* loops write behind their reading position: into nothing while what they  *)
(* write is what the path holds already, else into a buffer that is         *)
(* allocated at the first difference.                                       *)
(*                                                                          *)
(* Positions count from 0 as in the code.                                   *)
(***************************************************************************)
EXTENDS PathRef

CONSTANTS Bytes,       \* the characters of paths and buffers
          Paths        \* the routing paths that arrive

Nul == "0"             \* a byte of a fresh buffer

ASSUME PathsAssumption == {"/", ".", Nul} \subseteq Bytes /\ Paths \subseteq Seq(Bytes)

VARIABLES original,    \* the path as it arrived
          merge,       \* Router.mergeSlash
          collapse,    \* Router.collapseDots
          path,        \* the argument of the pass
          pass,        \* merge, collapse, or where they ended: done, rejected
          stage,       \* scan, loop or segment (the inner loop)
          r, w,        \* positions read and written
          buf,         \* <<>> while not allocated
          redirect     \* a pass in redirect mode changed the path

vars == <<original, merge, collapse, path, pass, stage, r, w, buf, redirect>>

Options == {"exact", "normalize", "redirect"}

At(s, i) == s[i + 1]
n == Len(path)

IsSlash(i) == i < n /\ At(path, i) = "/"
IsDot(i)   == i < n /\ At(path, i) = "."
\* The end of the path or a slash.
Ends(i)    == i = n \/ IsSlash(i)

BufApp(b, s, i, c) ==
    IF b # <<>> THEN [b EXCEPT ![i + 1] = c]
    ELSE IF At(s, i) = c THEN b
    ELSE [k \in 1 .. Len(s) |-> IF k = i + 1 THEN c ELSE IF k <= i THEN s[k] ELSE Nul]

\* Mutant of Output: the buffer is not cut.
OutputWhole == IF buf = <<>> THEN SubSeq(path, 1, w) ELSE buf

\* What the loop has written.
Output == IF buf = <<>> THEN SubSeq(path, 1, w) ELSE SubSeq(buf, 1, w)

Put(c) == buf' = BufApp(buf, path, w, c) /\ w' = w + 1

-----------------------------------------------------------------------------

Init ==
    /\ original \in Paths
    /\ merge \in Options /\ collapse \in Options
    /\ path = original
    /\ pass = "merge" /\ stage = "scan"
    /\ r = 0 /\ w = 0 /\ buf = <<>>
    /\ redirect = FALSE

\* A pass returns: the next one starts on what it returned.
Finish(next, out, changed) ==
    /\ pass' = next /\ stage' = "scan"
    /\ path' = out
    /\ r' = 0 /\ w' = 0 /\ buf' = <<>>
    /\ redirect' = (redirect \/ changed)
    /\ UNCHANGED <<original, merge, collapse>>

Changed(mode) == Len(Output) # Len(path) /\ mode = "redirect"

Go(to) == stage' = to /\ UNCHANGED <<original, merge, collapse, path, pass, redirect>>

-----------------------------------------------------------------------------
(* MergeSlashes *)

DoubleAt(i) == i > 0 /\ IsSlash(i) /\ IsSlash(i - 1)

MergeOff == pass = "merge" /\ merge = "exact" /\ Finish("collapse", path, FALSE)

MergeNone ==
    /\ pass = "merge" /\ stage = "scan" /\ merge # "exact"
    /\ \A i \in 1 .. n - 1 : ~DoubleAt(i)
    /\ Finish("collapse", path, FALSE)

\* Mutant of WriteFrom: one too far.
WriteFromNext(j) == j + 1

WriteFrom(j) == j

\* j is the first slash that follows another one.
MergeStart ==
    /\ pass = "merge" /\ stage = "scan" /\ merge # "exact"
    /\ \E j \in 1 .. n - 1 :
          /\ DoubleAt(j) /\ \A k \in 1 .. j - 1 : ~DoubleAt(k)
          /\ r' = j /\ w' = WriteFrom(j)
    /\ buf' = buf
    /\ Go("loop")

MergeSkip ==
    /\ pass = "merge" /\ stage = "loop" /\ r < n
    /\ DoubleAt(r)
    /\ r' = r + 1
    /\ UNCHANGED <<w, buf>> /\ Go("loop")

MergeCopy ==
    /\ pass = "merge" /\ stage = "loop" /\ r < n
    /\ ~DoubleAt(r)
    /\ Put(At(path, r))
    /\ r' = r + 1
    /\ Go("loop")

MergeEnd ==
    /\ pass = "merge" /\ stage = "loop" /\ r = n
    /\ Finish("collapse", Output, Changed(merge))

-----------------------------------------------------------------------------
(* CollapseDotSegments *)

\* A dot segment starts at i.
DotSegment(i) == IsDot(i) /\ (Ends(i + 1) \/ (IsDot(i + 1) /\ Ends(i + 2)))
DotSegmentAt(i) == (i > 0 => IsSlash(i - 1)) /\ DotSegment(i)

CollapseOff == pass = "collapse" /\ collapse = "exact" /\ Finish("done", path, FALSE)

CollapseNone ==
    /\ pass = "collapse" /\ stage = "scan" /\ collapse # "exact"
    /\ \A i \in 0 .. n - 1 : ~DotSegmentAt(i)
    /\ Finish("done", path, FALSE)

WithSlash(i) == IF i = 0 THEN 0 ELSE i - 1

\* dotSegmentIndex: the position of the first one, its slash included.
CollapseStart ==
    /\ pass = "collapse" /\ stage = "scan" /\ collapse # "exact"
    /\ \E i \in 0 .. n - 1 :
          /\ DotSegmentAt(i) /\ \A k \in 0 .. i - 1 : ~DotSegmentAt(k)
          /\ r' = WithSlash(i) /\ w' = WithSlash(i)
    /\ buf' = buf
    /\ Go("loop")

Collapsing == pass = "collapse" /\ stage = "loop" /\ r < n

\* "." at the end and "./", of a path that is not rooted.
DropDot ==
    /\ Collapsing
    /\ IsDot(r) /\ Ends(r + 1)
    /\ r' = IF r + 1 = n THEN r + 1 ELSE r + 2
    /\ UNCHANGED <<w, buf>> /\ Go("loop")

\* Mutant of AboveRoot: only for a path that is not rooted.
AboveRootFirst == IsDot(r) /\ IsDot(r + 1) /\ Ends(r + 2)

\* ".." in front, or nothing written that "/.." could take away.
AboveRoot ==
    \/ IsDot(r) /\ IsDot(r + 1) /\ Ends(r + 2)
    \/ IsSlash(r) /\ IsDot(r + 1) /\ IsDot(r + 2) /\ Ends(r + 3) /\ w = 0

Reject ==
    /\ Collapsing
    /\ AboveRoot
    /\ pass' = "rejected"
    /\ UNCHANGED <<original, merge, collapse, path, stage, r, w, buf, redirect>>

\* Mutant of SkipDot: "/./" keeps its first slash.
SkipDotKeeps ==
    /\ Collapsing
    /\ IsSlash(r) /\ IsDot(r + 1) /\ Ends(r + 2)
    /\ Put("/")
    /\ r' = r + 2
    /\ Go("loop")

\* "/." and "/./"
SkipDot ==
    /\ Collapsing
    /\ IsSlash(r) /\ IsDot(r + 1) /\ Ends(r + 2)
    /\ IF r + 2 = n THEN Put("/") ELSE UNCHANGED <<w, buf>>
    /\ r' = r + 2
    /\ Go("loop")

\* i is the last slash written, or 0 if there is none.
LastSlash(i) ==
    /\ \A k \in i + 1 .. w - 1 : At(Output, k) # "/"
    /\ i > 0 => At(Output, i) = "/"

\* "/.." and "/../": the last segment, with its slash, is taken away.
Pop ==
    /\ Collapsing
    /\ IsSlash(r) /\ IsDot(r + 1) /\ IsDot(r + 2) /\ Ends(r + 3) /\ ~AboveRoot
    /\ \E i \in 0 .. w :
          /\ i < w \/ w = 0
          /\ LastSlash(i)
          /\ IF r + 3 = n THEN buf' = BufApp(buf, path, i, "/") /\ w' = i + 1
                          ELSE buf' = buf /\ w' = i
    /\ r' = r + 3
    /\ Go("loop")

\* Mutant of Move: the slash is left to the inner loop.
MoveNoSlash ==
    /\ Collapsing
    /\ ~DotSegment(r) /\ ~(IsSlash(r) /\ DotSegment(r + 1))
    /\ UNCHANGED <<r, w, buf>> /\ Go("segment")

\* Any other segment is moved, its slash first.
Move ==
    /\ Collapsing
    /\ ~DotSegment(r) /\ ~(IsSlash(r) /\ DotSegment(r + 1))
    /\ IF IsSlash(r) THEN Put("/") /\ r' = r + 1 ELSE UNCHANGED <<r, w, buf>>
    /\ Go("segment")

MoveByte ==
    /\ stage = "segment" /\ ~Ends(r)
    /\ Put(At(path, r))
    /\ r' = r + 1
    /\ Go("segment")

MoveEnd ==
    /\ stage = "segment" /\ Ends(r)
    /\ UNCHANGED <<r, w, buf>> /\ Go("loop")

CollapseEnd ==
    /\ pass = "collapse" /\ stage = "loop" /\ r = n
    /\ Finish("done", Output, Changed(collapse))

Next ==
    \/ MergeOff \/ MergeNone \/ MergeStart \/ MergeSkip \/ MergeCopy \/ MergeEnd
    \/ CollapseOff \/ CollapseNone \/ CollapseStart
    \/ DropDot \/ Reject \/ SkipDot \/ Pop \/ Move \/ MoveByte \/ MoveEnd \/ CollapseEnd

Spec == Init /\ [][Next]_vars

\* Nothing in the loops waits.
FairSpec == Spec /\ WF_vars(Next)

-----------------------------------------------------------------------------
(* Properties *)

TypeOK ==
    /\ original \in Paths
    /\ merge \in Options /\ collapse \in Options
    /\ path \in Seq(Bytes)
    /\ pass \in {"merge", "collapse", "done", "rejected"}
    /\ stage \in {"scan", "loop", "segment"}
    /\ r \in Nat /\ w \in Nat
    /\ buf \in Seq(Bytes)
    /\ redirect \in BOOLEAN
    /\ stage = "scan" => r = 0 /\ w = 0 /\ buf = <<>>

\* The loops of path.go overwrite no byte they still have to read, stay within
\* the path and the buffer, and do not reach a position again once they left
\* the original bytes.
WritesBehind ==
    /\ w <= r /\ r <= n
    /\ buf # <<>> => Len(buf) = n /\ w < r

\* "Both passes only remove bytes, so a change always shows in the length"
\* (fox.go): the dispatcher compares lengths only.
ChangeShortens ==
    pass = "done" => Len(path) <= Len(original) /\ (Len(path) = Len(original) => path = original)

\* The loops return what RFC 3986 says of dot segments and one slash for
\* several, refuse exactly the paths that climb above the root, and report a
\* redirect exactly if a pass in redirect mode changed the path.
NormalizesAsReference ==
    LET ref == Normalized(merge, collapse, original)
    IN  /\ pass = "done" => ref.ok /\ path = ref.path /\ redirect = ref.redirect
        /\ pass = "rejected" => ~ref.ok

\* A normalised path is not changed again, so that a client that follows a
\* redirect is not redirected once more.
NormalFormIsStable ==
    pass = "done" =>
        LET again == Normalized(merge, collapse, path)
        IN  again.ok /\ again.path = path /\ ~again.redirect

\* The loops come to an end on every path.
Terminates == <>(pass \in {"done", "rejected"})
=============================================================================
