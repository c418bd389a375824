---------------------------- MODULE PathNormProofs ----------------------------
(***************************************************************************)
(* The loops of path.go on paths of any length and any characters: they     *)
(* write behind what they read, a pass that changes a path makes it         *)
(* shorter, which is what redirectRoutingPath (fox.go) relies on, and what  *)
(* they return is what the reference (module PathRef) says.                 *)
(***************************************************************************)
EXTENDS PathNorm, PathRefProofs

\* What holds of the path each pass starts from.
Shorter(p) == Len(p) <= Len(original) /\ (Len(p) = Len(original) => p = original)

PathInv == TypeOK /\ WritesBehind /\ Shorter(path)

-----------------------------------------------------------------------------

\* The buffer keeps its length and a write at i < Len(s) stays inside.
LEMMA BufAppFacts ==
    ASSUME NEW s \in Seq(Bytes), NEW b \in Seq(Bytes), b # <<>> => Len(b) = Len(s),
           NEW i \in Nat, i < Len(s), NEW c \in Bytes
    PROVE  /\ BufApp(b, s, i, c) \in Seq(Bytes)
           /\ BufApp(b, s, i, c) # <<>> => Len(BufApp(b, s, i, c)) = Len(s)
           /\ (b = <<>> /\ s[i + 1] = c) => BufApp(b, s, i, c) = <<>>
<1>1. CASE b # <<>>
  <2>1. BufApp(b, s, i, c) = [b EXCEPT ![i + 1] = c]
    BY <1>1 DEF BufApp
  <2>2. i + 1 \in 1 .. Len(b)
    BY <1>1
  <2>3. [b EXCEPT ![i + 1] = c] \in Seq(Bytes) /\ Len([b EXCEPT ![i + 1] = c]) = Len(b)
    BY <2>2, ExceptSeq
  <2> QED BY <1>1, <2>1, <2>3
<1>2. CASE b = <<>> /\ At(s, i) = c
  BY <1>2 DEF BufApp, At
<1>3. CASE b = <<>> /\ At(s, i) # c
  <2> DEFINE fresh == [k \in 1 .. Len(s) |-> IF k = i + 1 THEN c ELSE IF k <= i THEN s[k] ELSE Nul]
  <2>1. BufApp(b, s, i, c) = fresh
    BY <1>3 DEF BufApp
  <2>2. Len(s) \in Nat /\ s \in [1 .. Len(s) -> Bytes]
    BY LenProperties
  <2>3. fresh \in [1 .. Len(s) -> Bytes]
    BY <2>2, PathsAssumption
  <2>4. fresh \in Seq(Bytes) /\ Len(fresh) = Len(s)
    <3>1. fresh \in Seq(Bytes)
      BY <2>2, <2>3, SeqDef
    <3> QED BY <2>2, <2>3, <3>1, LenProperties
  <2> QED BY <1>3, <2>1, <2>4 DEF At
<1> QED BY <1>1, <1>2, <1>3

\* What a pass returns is shorter, or is the path it was given.
LEMMA OutputFacts ==
    ASSUME TypeOK, WritesBehind
    PROVE  /\ Output \in Seq(Bytes) /\ Len(Output) = w
           /\ w = n => Output = path
<1> USE DEF TypeOK, WritesBehind, n
<1>1. CASE buf = <<>>
  <2>1. Output = SubSeq(path, 1, w)
    BY <1>1 DEF Output
  <2>2. w = Len(path) => SubSeq(path, 1, w) = path
    OBVIOUS
  <2> QED BY <2>1, <2>2
<1>2. CASE buf # <<>>
  <2>1. Output = SubSeq(buf, 1, w)
    BY <1>2 DEF Output
  <2> QED BY <1>2, <2>1
<1> QED BY <1>1, <1>2

LEMMA OutputShorter ==
    ASSUME PathInv PROVE Output \in Seq(Bytes) /\ Shorter(Output)
<1>1. Output \in Seq(Bytes) /\ Len(Output) = w /\ (w = n => Output = path)
  BY OutputFacts DEF PathInv
<1>2. w <= n /\ w \in Nat /\ n \in Nat /\ n = Len(path) /\ Shorter(path)
  BY DEF PathInv, TypeOK, WritesBehind, n
<1>3. Len(original) \in Nat
  BY PathsAssumption DEF PathInv, TypeOK
<1> QED BY <1>1, <1>2, <1>3 DEF Shorter

\* A pass returns p.
LEMMA FinishInv ==
    ASSUME TypeOK, NEW p \in Seq(Bytes), Shorter(p), NEW next \in {"collapse", "done"},
           NEW changed \in BOOLEAN, Finish(next, p, changed)
    PROVE  PathInv'
<1>1. TypeOK'
  BY DEF TypeOK, Finish
<1>2. WritesBehind'
  BY DEF WritesBehind, Finish, n
<1>3. Shorter(path)'
  BY DEF Shorter, Finish
<1> QED BY <1>1, <1>2, <1>3 DEF PathInv

\* A step inside a loop.
LEMMA LoopInv ==
    ASSUME PathInv, NEW to \in {"loop", "segment"}, Go(to),
           r' \in Nat, w' \in Nat, buf' \in Seq(Bytes),
           w' <= r', r' <= n, buf' # <<>> => Len(buf') = n /\ w' < r'
    PROVE  PathInv'
<1>1. TypeOK'
  BY DEF PathInv, TypeOK, Go
<1>2. n' = n
  BY DEF Go, n
<1>3. WritesBehind'
  BY <1>2 DEF WritesBehind
<1>4. Shorter(path)'
  BY DEF PathInv, Shorter, Go
<1> QED BY <1>1, <1>3, <1>4 DEF PathInv

\* A byte that is moved on its place leaves the buffer unallocated.
LEMMA MoveInv ==
    ASSUME PathInv, NEW to \in {"loop", "segment"}, Go(to), r < n, Put(At(path, r)), r' = r + 1
    PROVE  PathInv'
<1>1. r \in Nat /\ w \in Nat /\ n \in Nat /\ w <= r /\ path \in Seq(Bytes) /\ buf \in Seq(Bytes)
      /\ (buf # <<>> => Len(buf) = n /\ w < r)
  BY DEF PathInv, TypeOK, WritesBehind, n
<1>2. At(path, r) \in Bytes
  BY <1>1 DEF At, n
<1>3. /\ buf' \in Seq(Bytes)
      /\ buf' # <<>> => Len(buf') = n
      /\ (buf = <<>> /\ path[w + 1] = At(path, r)) => buf' = <<>>
  <2>1. buf' = BufApp(buf, path, w, At(path, r)) /\ w < Len(path)
    BY <1>1 DEF Put, n
  <2>2. buf # <<>> => Len(buf) = Len(path)
    BY <1>1 DEF n
  <2> DEFINE b == BufApp(buf, path, w, At(path, r))
  <2>3. /\ b \in Seq(Bytes)
        /\ b # <<>> => Len(b) = Len(path)
        /\ (buf = <<>> /\ path[w + 1] = At(path, r)) => b = <<>>
    BY <1>1, <1>2, <2>1, <2>2, BufAppFacts
  <2> QED BY <2>1, <2>3 DEF n
<1>4. buf' # <<>> => w < r
  BY <1>1, <1>3 DEF At
<1>5. w' = w + 1
  BY DEF Put
<1> QED BY <1>1, <1>3, <1>4, <1>5, LoopInv

-----------------------------------------------------------------------------

LEMMA InitInv == Init => PathInv
<1> SUFFICES ASSUME Init PROVE PathInv
  OBVIOUS
<1>1. path \in Seq(Bytes) /\ n \in Nat
  BY PathsAssumption DEF Init, n
<1>2. <<>> \in Seq(Bytes)
  OBVIOUS
<1>3. TypeOK
  BY <1>1, <1>2 DEF Init, TypeOK
<1>4. WritesBehind /\ Shorter(path)
  BY <1>1 DEF Init, WritesBehind, Shorter, n
<1> QED BY <1>3, <1>4 DEF PathInv

LEMMA MergeInv ==
    ASSUME PathInv,
           MergeOff \/ MergeNone \/ MergeStart \/ MergeSkip \/ MergeCopy \/ MergeEnd
    PROVE  PathInv'
<1>1. path \in Seq(Bytes) /\ n \in Nat /\ r \in Nat /\ w \in Nat /\ buf \in Seq(Bytes)
      /\ w <= r /\ r <= n
  BY DEF PathInv, TypeOK, WritesBehind, n
<1>2. CASE MergeOff
  BY <1>1, <1>2, FinishInv DEF MergeOff, PathInv
<1>3. CASE MergeNone
  BY <1>1, <1>3, FinishInv DEF MergeNone, PathInv
<1>4. CASE MergeStart
  <2>1. PICK j \in 1 .. n - 1 : r' = j /\ w' = j
    BY <1>4 DEF MergeStart, WriteFrom
  <2>2. buf' = <<>>
    BY <1>4 DEF MergeStart, PathInv, TypeOK
  <2> QED BY <1>1, <1>4, <2>1, <2>2, LoopInv DEF MergeStart
<1>5. CASE MergeSkip
  BY <1>1, <1>5, LoopInv DEF MergeSkip, PathInv, WritesBehind
<1>6. CASE MergeCopy
  BY <1>6, MoveInv DEF MergeCopy
<1>7. CASE MergeEnd
  <2>1. Shorter(Output) /\ Output \in Seq(Bytes)
    BY OutputShorter
  <2>2. Changed(merge) \in BOOLEAN
    BY DEF Changed
  <2> QED BY <1>7, <2>1, <2>2, FinishInv DEF MergeEnd, PathInv
<1> QED BY <1>2, <1>3, <1>4, <1>5, <1>6, <1>7

\* The steps that write a slash over a dot segment leave more behind.
LEMMA SlashInv ==
    ASSUME PathInv, Go("loop"), NEW i \in 0 .. w, i < n, buf' = BufApp(buf, path, i, "/"),
           w' = i + 1, r' \in Nat, w + 1 < r', r' <= n
    PROVE  PathInv'
<1>1. w \in Nat /\ n \in Nat /\ path \in Seq(Bytes) /\ buf \in Seq(Bytes)
  BY DEF PathInv, TypeOK, n
<1>2. (buf # <<>> => Len(buf) = Len(path)) /\ n = Len(path) /\ i < Len(path)
  BY DEF PathInv, WritesBehind, n
<1>3. "/" \in Bytes
  BY PathsAssumption
<1> DEFINE b == BufApp(buf, path, i, "/")
<1>4. b \in Seq(Bytes) /\ (b # <<>> => Len(b) = Len(path))
  <2>1. i \in Nat
    BY <1>1
  <2>2. \A c \in Bytes : /\ BufApp(buf, path, i, c) \in Seq(Bytes)
                         /\ BufApp(buf, path, i, c) # <<>> =>
                               Len(BufApp(buf, path, i, c)) = Len(path)
    <3> TAKE c \in Bytes
    <3> HIDE DEF b
    <3>1. i < Len(path) /\ (buf # <<>> => Len(buf) = Len(path))
      BY <1>2
    <3> QED BY <1>1, <2>1, <3>1, BufAppFacts, SMTT(30)
  <2> QED BY <1>3, <2>2, Zenon
<1>5. buf' \in Seq(Bytes) /\ (buf' # <<>> => Len(buf') = n)
  BY <1>2, <1>4
<1> QED BY <1>1, <1>5, LoopInv

LEMMA CollapseInv ==
    ASSUME PathInv,
           \/ CollapseOff \/ CollapseNone \/ CollapseStart \/ DropDot \/ Reject \/ SkipDot
           \/ Pop \/ Move \/ MoveByte \/ MoveEnd \/ CollapseEnd
    PROVE  PathInv'
<1>1. path \in Seq(Bytes) /\ n \in Nat /\ r \in Nat /\ w \in Nat /\ buf \in Seq(Bytes)
      /\ w <= r /\ r <= n /\ (buf # <<>> => Len(buf) = n /\ w < r)
  BY DEF PathInv, TypeOK, WritesBehind, n
<1>2. CASE CollapseOff
  BY <1>1, <1>2, FinishInv DEF CollapseOff, PathInv
<1>3. CASE CollapseNone
  BY <1>1, <1>3, FinishInv DEF CollapseNone, PathInv
<1>4. CASE CollapseStart
  <2>1. PICK i \in 0 .. n - 1 : r' = WithSlash(i) /\ w' = WithSlash(i)
    BY <1>4 DEF CollapseStart
  <2>2. WithSlash(i) \in Nat /\ WithSlash(i) <= n
    BY <1>1 DEF WithSlash
  <2>3. buf' = <<>>
    BY <1>4 DEF CollapseStart, PathInv, TypeOK
  <2> QED BY <1>1, <1>4, <2>1, <2>2, <2>3, LoopInv DEF CollapseStart
<1>5. CASE DropDot
  <2>1. r' \in Nat /\ r < r' /\ r' <= n
    BY <1>1, <1>5 DEF DropDot, Collapsing, IsDot, Ends, IsSlash
  <2> QED BY <1>1, <1>5, <2>1, LoopInv DEF DropDot
<1>6. CASE Reject
  BY <1>6 DEF Reject, PathInv, TypeOK, WritesBehind, Shorter, n
<1>7. CASE SkipDot
  <2>1. r' = r + 2 /\ r' <= n /\ Go("loop")
    BY <1>1, <1>7 DEF SkipDot, IsSlash, IsDot, Ends
  <2>2. CASE r + 2 = n
    <3>1. buf' = BufApp(buf, path, w, "/") /\ w' = w + 1
      BY <1>7, <2>2 DEF SkipDot, Put
    <3> QED BY <1>1, <2>1, <3>1, SlashInv
  <2>3. CASE r + 2 # n
    BY <1>1, <1>7, <2>1, <2>3, LoopInv DEF SkipDot
  <2> QED BY <2>2, <2>3
<1>8. CASE Pop
  <2>1. r' = r + 3 /\ r' <= n /\ Go("loop")
    BY <1>1, <1>8 DEF Pop, IsSlash, IsDot, Ends
  <2>2. PICK i \in 0 .. w :
            IF r + 3 = n THEN buf' = BufApp(buf, path, i, "/") /\ w' = i + 1
                         ELSE buf' = buf /\ w' = i
    BY <1>8 DEF Pop
  <2>3. CASE r + 3 = n
    BY <1>1, <2>1, <2>2, <2>3, SlashInv
  <2>4. CASE r + 3 # n
    BY <1>1, <2>1, <2>2, <2>4, LoopInv
  <2> QED BY <2>3, <2>4
<1>9. CASE Move
  <2>1. CASE IsSlash(r)
    <3>1. Put(At(path, r)) /\ r' = r + 1 /\ r < n /\ Go("segment")
      BY <1>9, <2>1 DEF Move, IsSlash
    <3> QED BY <3>1, MoveInv
  <2>2. CASE ~IsSlash(r)
    BY <1>1, <1>9, <2>2, LoopInv DEF Move
  <2> QED BY <2>1, <2>2
<1>10. CASE MoveByte
  <2>1. r < n
    BY <1>1, <1>10 DEF MoveByte, Ends
  <2> QED BY <1>10, <2>1, MoveInv DEF MoveByte
<1>11. CASE MoveEnd
  BY <1>1, <1>11, LoopInv DEF MoveEnd
<1>12. CASE CollapseEnd
  <2>1. Shorter(Output) /\ Output \in Seq(Bytes)
    BY OutputShorter
  <2>2. Changed(collapse) \in BOOLEAN
    BY DEF Changed
  <2> QED BY <1>12, <2>1, <2>2, FinishInv DEF CollapseEnd, PathInv
<1> QED BY <1>2, <1>3, <1>4, <1>5, <1>6, <1>7, <1>8, <1>9, <1>10, <1>11, <1>12

\* The inductive invariant, for paths of any length.
THEOREM PathInvariant == Spec => []PathInv
<1>1. Init => PathInv
  BY InitInv
<1>2. PathInv /\ [Next]_vars => PathInv'
  <2> SUFFICES ASSUME PathInv, [Next]_vars PROVE PathInv'
    OBVIOUS
  <2>1. CASE Next
    BY <2>1, MergeInv, CollapseInv DEF Next
  <2>2. CASE UNCHANGED vars
    BY <2>2 DEF vars, PathInv, TypeOK, WritesBehind, Shorter, n
  <2> QED BY <2>1, <2>2
<1> QED BY <1>1, <1>2, PTL DEF Spec

\* The variables of the loops keep their type.
THEOREM PathTypeOK == Spec => []TypeOK
<1>1. PathInv => TypeOK
  BY DEF PathInv
<1> QED BY <1>1, PathInvariant, PTL

\* MergeSlashes and CollapseDotSegments never overwrite what they still read.
THEOREM LoopsWriteBehind == Spec => []WritesBehind
<1>1. PathInv => WritesBehind
  BY DEF PathInv
<1> QED BY <1>1, PathInvariant, PTL

\* redirectRoutingPath may compare lengths instead of paths.
THEOREM LengthTellsChange == Spec => []ChangeShortens
<1>1. PathInv => ChangeShortens
  BY DEF PathInv, Shorter, ChangeShortens
<1> QED BY <1>1, PathInvariant, PTL
-----------------------------------------------------------------------------
(* What the loops write *)

\* The byte the output has at k.
Written(b, s, k) == IF b = <<>> THEN s[k] ELSE b[k]

LEMMA OutputBytes ==
    ASSUME NEW s \in Seq(Bytes), NEW b \in Seq(Bytes), b # <<>> => Len(b) = Len(s),
           NEW v \in 0 .. Len(s)
    PROVE  LET out == IF b = <<>> THEN SubSeq(s, 1, v) ELSE SubSeq(b, 1, v)
           IN  out \in Seq(Bytes) /\ Len(out) = v /\ \A k \in 1 .. v : out[k] = Written(b, s, k)
<1>1. CASE b = <<>>
  BY <1>1 DEF Written
<1>2. CASE b # <<>>
  <2>1. v \in 0 .. Len(b)
    BY <1>2
  <2> QED BY <1>2, <2>1 DEF Written
<1> QED BY <1>1, <1>2

LEMMA BufAppWrites ==
    ASSUME NEW s \in Seq(Bytes), NEW b \in Seq(Bytes), b # <<>> => Len(b) = Len(s),
           NEW i \in Nat, i < Len(s), NEW c \in Bytes
    PROVE  \A k \in 1 .. i + 1 :
              Written(BufApp(b, s, i, c), s, k) = IF k = i + 1 THEN c ELSE Written(b, s, k)
<1> SUFFICES ASSUME NEW k \in 1 .. i + 1
             PROVE  Written(BufApp(b, s, i, c), s, k) = IF k = i + 1 THEN c ELSE Written(b, s, k)
  OBVIOUS
<1>1. CASE b # <<>>
  <2>1. BufApp(b, s, i, c) = [b EXCEPT ![i + 1] = c]
    BY <1>1 DEF BufApp
  <2>2. i + 1 \in 1 .. Len(b) /\ k \in 1 .. Len(b)
    BY <1>1
  <2>3. [b EXCEPT ![i + 1] = c] \in Seq(Bytes) /\ Len([b EXCEPT ![i + 1] = c]) = Len(b)
        /\ [b EXCEPT ![i + 1] = c][k] = IF k = i + 1 THEN c ELSE b[k]
    BY <2>2, ExceptSeq
  <2>4. [b EXCEPT ![i + 1] = c] # <<>>
    BY <2>2, <2>3
  <2> HIDE DEF BufApp
  <2> QED BY <1>1, <2>1, <2>3, <2>4 DEF Written
<1>2. CASE b = <<>> /\ At(s, i) = c
  <2>1. BufApp(b, s, i, c) = <<>>
    BY <1>2 DEF BufApp
  <2> QED BY <1>2, <2>1 DEF Written, At
<1>3. CASE b = <<>> /\ At(s, i) # c
  <2> DEFINE fresh == [h \in 1 .. Len(s) |-> IF h = i + 1 THEN c ELSE IF h <= i THEN s[h] ELSE Nul]
  <2>1. BufApp(b, s, i, c) = fresh
    BY <1>3 DEF BufApp
  <2>2. k \in 1 .. Len(s)
    OBVIOUS
  <2>3. fresh[k] = IF k = i + 1 THEN c ELSE s[k]
    BY <2>2
  <2>4. fresh # <<>>
    <3>1. fresh = <<>> => DOMAIN fresh = {}
      BY EmptySeq
    <3>2. DOMAIN fresh = 1 .. Len(s)
      OBVIOUS
    <3> QED BY <2>2, <3>1, <3>2
  <2> HIDE DEF fresh
  <2> QED BY <1>3, <2>1, <2>3, <2>4 DEF Written
<1> QED BY <1>1, <1>2, <1>3

\* A byte that is written at i comes behind the first i.
LEMMA OutputWritten ==
    ASSUME PathInv, NEW i \in 0 .. w, i < n, NEW c \in Bytes,
           buf' = BufApp(buf, path, i, c), w' = i + 1, path' = path
    PROVE  SubSeq(Output, 1, i) \in Seq(Bytes) /\ Output' = Append(SubSeq(Output, 1, i), c)
<1>1. /\ path \in Seq(Bytes) /\ buf \in Seq(Bytes) /\ w \in 0 .. Len(path) /\ i \in Nat
      /\ i < Len(path) /\ (buf # <<>> => Len(buf) = Len(path)) /\ i \in 0 .. w
      /\ Len(path) \in Nat
  BY DEF PathInv, TypeOK, WritesBehind, n
<1> DEFINE out == Output
           new == Output'
           b == BufApp(buf, path, i, c)
<1>2. out \in Seq(Bytes) /\ Len(out) = w /\ \A k \in 1 .. w : out[k] = Written(buf, path, k)
  BY <1>1, OutputBytes DEF Output
<1>3. b \in Seq(Bytes) /\ (b # <<>> => Len(b) = Len(path))
  <2>1. path \in Seq(Bytes) /\ buf \in Seq(Bytes) /\ (buf # <<>> => Len(buf) = Len(path))
        /\ i \in Nat /\ i < Len(path)
    BY <1>1
  <2>2. /\ BufApp(buf, path, i, c) \in Seq(Bytes)
        /\ BufApp(buf, path, i, c) # <<>> => Len(BufApp(buf, path, i, c)) = Len(path)
    BY <2>1, BufAppFacts
  <2> QED BY <2>2
<1>4. \A k \in 1 .. i + 1 : Written(b, path, k) = IF k = i + 1 THEN c ELSE Written(buf, path, k)
  BY <1>1, BufAppWrites
<1>5. new = IF b = <<>> THEN SubSeq(path, 1, i + 1) ELSE SubSeq(b, 1, i + 1)
  BY DEF Output
<1> HIDE DEF out, new, b
<1>6. new \in Seq(Bytes) /\ Len(new) = i + 1 /\ \A k \in 1 .. i + 1 : new[k] = Written(b, path, k)
  <2>1. i + 1 \in 0 .. Len(path)
    BY <1>1
  <2> QED BY <1>1, <1>3, <1>5, <2>1, OutputBytes
<1> DEFINE cut == SubSeq(out, 1, i)
           app == Append(cut, c)
<1>7. cut \in Seq(Bytes) /\ Len(cut) = i /\ \A k \in 1 .. i : cut[k] = out[k]
  BY <1>1, <1>2
<1> HIDE DEF cut
<1>8. app \in Seq(Bytes) /\ Len(app) = i + 1 /\ \A k \in 1 .. i + 1 :
            app[k] = IF k = i + 1 THEN c ELSE cut[k]
  BY <1>1, <1>7
<1> HIDE DEF app
<1>9. \A k \in 1 .. Len(new) : new[k] = app[k]
  BY <1>1, <1>2, <1>4, <1>6, <1>7, <1>8
<1>10. new = app
  BY <1>6, <1>8, <1>9, SeqEqual
<1> QED BY <1>7, <1>10 DEF new, app, cut, out

LEMMA PutOutput ==
    ASSUME PathInv, NEW c \in Bytes, w < n, Put(c), path' = path
    PROVE  Output' = Append(Output, c)
<1>1. w \in 0 .. w /\ Output \in Seq(Bytes) /\ Len(Output) = w
  BY OutputFacts DEF PathInv, TypeOK
<1>2. SubSeq(Output, 1, w) = Output
  BY <1>1
<1>3. Output' = Append(SubSeq(Output, 1, w), c)
  BY <1>1, OutputWritten DEF Put
<1> QED BY <1>2, <1>3

LEMMA OutputStays ==
    ASSUME UNCHANGED <<path, w, buf>> PROVE Output' = Output
BY DEF Output

\* Lengths tell whether a pass in redirect mode changed the path.
LEMMA ChangedMeans ==
    ASSUME PathInv, NEW mode PROVE Changed(mode) = (mode = "redirect" /\ Output # path)
<1>1. Output \in Seq(Bytes) /\ Len(Output) = w /\ (w = n => Output = path) /\ n = Len(path)
  BY OutputFacts DEF PathInv, n
<1> QED BY <1>1 DEF Changed

-----------------------------------------------------------------------------
(* The inductive invariant: what a loop has written is what the reference   *)
(* keeps of what it has read.                                               *)

MergedOnce == IF merge = "exact" THEN original ELSE Merged(original)

\* The loop of MergeSlashes has read the first m bytes.
MergedUpTo(p, m, out) == Picks(out, p, MergeKeeps(p, m))

\* Between two elements, out is kept of the first m bytes; at the end of the path a
\* slash comes behind a dot segment.
CollapsedUpTo(p, m, out) ==
    /\ Boundary(p, m)
    /\ IF m = Len(p) /\ EndsInDots(p)
       THEN \E x \in Seq(Bytes) : Picks(x, p, KeptUpTo(p, m)) /\ out = Append(x, Slash)
       ELSE Picks(out, p, KeptUpTo(p, m))

\* The same inside an element.
MovedUpTo(p, m, out) == InElement(p, m) /\ Picks(out, p, KeptUpTo(p, m))

Merging ==
    pass = "merge" =>
        /\ path = original /\ redirect = FALSE /\ stage \in {"scan", "loop"}
        /\ stage = "loop" => merge # "exact" /\ MergedUpTo(path, r, Output)

CollapsingInv ==
    pass = "collapse" =>
        /\ path = MergedOnce /\ redirect = (merge = "redirect" /\ MergedOnce # original)
        /\ stage # "scan" => collapse # "exact" /\ NotClimbed(path, r)
        /\ stage = "loop" => CollapsedUpTo(path, r, Output)
        /\ stage = "segment" => MovedUpTo(path, r, Output)

NormInv ==
    /\ PathInv /\ Merging /\ CollapsingInv /\ NormalizesAsReference
    /\ pass \in {"done", "rejected"} => stage # "segment"

-----------------------------------------------------------------------------

\* MergeSlashes returns what the reference merges.
LEMMA MergePassed ==
    ASSUME NormInv, PathInv', NEW out, NEW changed, Finish("collapse", out, changed),
           pass = "merge", out = MergedOnce, changed = (merge = "redirect" /\ MergedOnce # original)
    PROVE  NormInv'
<1>1. /\ pass' = "collapse" /\ stage' = "scan" /\ path' = out
      /\ redirect' = (redirect \/ changed) /\ UNCHANGED <<original, merge, collapse>>
  BY DEF Finish
<1>2. redirect = FALSE
  BY DEF NormInv, Merging
<1>3. MergedOnce' = MergedOnce
  BY <1>1 DEF MergedOnce
<1>4. redirect' = (merge = "redirect" /\ MergedOnce # original)
  <2> DEFINE x == merge = "redirect" /\ MergedOnce # original
  <2>1. redirect' = (FALSE \/ x)
    BY <1>1, <1>2
  <2> HIDE DEF x
  <2>2. x \in BOOLEAN
    BY DEF x
  <2> QED BY <2>1, <2>2 DEF x
<1>5. CollapsingInv'
  <2>1. (MergedOnce # original)' <=> MergedOnce # original
    BY <1>1, <1>3
  <2> QED BY <1>1, <1>3, <1>4, <2>1 DEF CollapsingInv
<1>6. Merging' /\ NormalizesAsReference' /\ (pass \in {"done", "rejected"} => stage # "segment")'
  BY <1>1 DEF Merging, NormalizesAsReference
<1> QED BY <1>5, <1>6 DEF NormInv

\* CollapseDotSegments returns what the reference collapses.
LEMMA CollapsePassed ==
    ASSUME NormInv, PathInv', NEW out, NEW changed, Finish("done", out, changed),
           pass = "collapse",
           (IF collapse = "exact" THEN [ok |-> TRUE, out |-> path] ELSE Collapsed(path))
               = [ok |-> TRUE, out |-> out],
           changed = (collapse = "redirect" /\ out # path)
    PROVE  NormInv'
<1>1. /\ pass' = "done" /\ stage' = "scan" /\ path' = out
      /\ redirect' = (redirect \/ changed) /\ UNCHANGED <<original, merge, collapse>>
  BY DEF Finish
<1>2. path = MergedOnce /\ redirect = (merge = "redirect" /\ MergedOnce # original)
  BY DEF NormInv, CollapsingInv
<1> DEFINE c == IF collapse = "exact" THEN [ok |-> TRUE, out |-> MergedOnce]
                ELSE Collapsed(MergedOnce)
           x == merge = "redirect" /\ MergedOnce # original
           y == collapse = "redirect" /\ out # MergedOnce
           ref == Normalized(merge, collapse, original)
<1>3. ref = [ok       |-> c.ok,
             path     |-> c.out,
             redirect |-> c.ok /\ \/ merge = "redirect" /\ MergedOnce # original
                                  \/ collapse = "redirect" /\ c.out # MergedOnce]
  BY DEF Normalized, MergedOnce
<1>4. c.ok = TRUE /\ c.out = out
  BY <1>2
<1> HIDE DEF c, ref
<1>5. ref.ok = TRUE /\ ref.path = out /\ ref.redirect = (x \/ y)
  <2>1. ref = [ok |-> TRUE, path |-> out, redirect |-> TRUE /\ (x \/ y)]
    BY <1>3, <1>4
  <2> HIDE DEF x, y
  <2>2. ref.ok = TRUE /\ ref.path = out /\ ref.redirect = (TRUE /\ (x \/ y))
    BY <2>1
  <2> QED BY <2>2
<1>6. redirect' = (x \/ y)
  BY <1>1, <1>2
<1>7. NormalizesAsReference'
  <2>1. Normalized(merge, collapse, original)' = ref
    BY <1>1 DEF ref
  <2> HIDE DEF x, y
  <2> QED BY <1>1, <1>5, <1>6, <2>1 DEF NormalizesAsReference
<1>8. Merging' /\ CollapsingInv' /\ (pass \in {"done", "rejected"} => stage # "segment")'
  BY <1>1 DEF Merging, CollapsingInv
<1> QED BY <1>7, <1>8 DEF NormInv

\* A step of the loop of MergeSlashes.
LEMMA MergeStepped ==
    ASSUME NormInv, PathInv', Go("loop"), pass = "merge", merge # "exact",
           MergedUpTo(path, r', Output')
    PROVE  NormInv'
<1>1. stage' = "loop" /\ UNCHANGED <<original, merge, collapse, path, pass, redirect>>
  BY DEF Go
<1>2. Merging'
  <2>1. path = original /\ redirect = FALSE
    BY DEF NormInv, Merging
  <2> QED BY <1>1, <2>1 DEF Merging
<1>3. CollapsingInv' /\ NormalizesAsReference' /\ (pass \in {"done", "rejected"} => stage # "segment")'
  BY <1>1 DEF CollapsingInv, NormalizesAsReference
<1> QED BY <1>2, <1>3 DEF NormInv

\* A step of the loops of CollapseDotSegments.
LEMMA CollapseStepped ==
    ASSUME NormInv, PathInv', NEW to \in {"loop", "segment"}, Go(to), pass = "collapse",
           collapse # "exact", NotClimbed(path, r'),
           to = "loop" => CollapsedUpTo(path, r', Output'),
           to = "segment" => MovedUpTo(path, r', Output')
    PROVE  NormInv'
<1>1. stage' = to /\ UNCHANGED <<original, merge, collapse, path, pass, redirect>>
  BY DEF Go
<1>2. CollapsingInv'
  <2>1. path = MergedOnce /\ redirect = (merge = "redirect" /\ MergedOnce # original)
    BY DEF NormInv, CollapsingInv
  <2>2. MergedOnce' = MergedOnce
    BY <1>1 DEF MergedOnce
  <2> QED BY <1>1, <2>1, <2>2 DEF CollapsingInv
<1>3. Merging' /\ NormalizesAsReference' /\ (pass \in {"done", "rejected"} => stage # "segment")'
  BY <1>1 DEF Merging, NormalizesAsReference
<1> QED BY <1>2, <1>3 DEF NormInv

-----------------------------------------------------------------------------

LEMMA StateFacts ==
    ASSUME PathInv
    PROVE  /\ path \in Seq(Bytes) /\ original \in Seq(Bytes) /\ n = Len(path) /\ n \in Nat
           /\ r \in 0 .. Len(path) /\ r \in Nat /\ w \in Nat /\ w <= r
           /\ Output \in Seq(Bytes) /\ Len(Output) = w
           /\ Slash = "/" /\ Dot = "." /\ Slash \in Bytes
<1>1. /\ path \in Seq(Bytes) /\ original \in Seq(Bytes) /\ n = Len(path) /\ n \in Nat
      /\ r \in Nat /\ w \in Nat /\ w <= r /\ r <= n
  BY PathsAssumption DEF PathInv, TypeOK, WritesBehind, n
<1>2. Output \in Seq(Bytes) /\ Len(Output) = w
  BY OutputFacts DEF PathInv
<1>3. Slash = "/" /\ Dot = "." /\ Slash \in Bytes
  BY PathsAssumption DEF Slash, Dot
<1> QED BY <1>1, <1>2, <1>3

LEMMA NormMerge ==
    ASSUME NormInv, PathInv',
           MergeOff \/ MergeNone \/ MergeStart \/ MergeSkip \/ MergeCopy \/ MergeEnd
    PROVE  NormInv'
<1>1. PathInv /\ (pass = "merge" => path = original /\ redirect = FALSE /\
                     (stage = "loop" => merge # "exact" /\ MergedUpTo(path, r, Output)))
  BY DEF NormInv, Merging
<1>2. /\ path \in Seq(Bytes) /\ original \in Seq(Bytes) /\ n = Len(path) /\ n \in Nat
      /\ r \in 0 .. Len(path) /\ r \in Nat /\ w \in Nat /\ w <= r
      /\ Output \in Seq(Bytes) /\ Len(Output) = w
      /\ Slash = "/" /\ Slash \in Bytes
  BY <1>1, StateFacts
<1>3. CASE MergeOff
  <2>1. pass = "merge" /\ Finish("collapse", path, FALSE) /\ path = MergedOnce
        /\ MergedOnce = original
    BY <1>1, <1>3 DEF MergeOff, MergedOnce
  <2>2. FALSE = (merge = "redirect" /\ MergedOnce # original)
    BY <2>1
  <2> QED BY <2>1, <2>2, MergePassed
<1>4. CASE MergeNone
  <2>1. pass = "merge" /\ merge # "exact" /\ path = original /\ Finish("collapse", path, FALSE)
        /\ \A i \in 1 .. n - 1 : ~DoubleAt(i)
    BY <1>1, <1>4 DEF MergeNone
  <2>2. ASSUME NEW i \in 2 .. Len(path), path[i] = Slash, path[i - 1] = Slash PROVE FALSE
    <3>1. i - 1 \in 1 .. n - 1 /\ i - 1 - 1 + 1 = i - 1 /\ i - 1 + 1 = i
      BY <1>2
    <3>2. DoubleAt(i - 1)
      BY <1>2, <2>2, <3>1 DEF DoubleAt, IsSlash, At
    <3> QED BY <2>1, <3>1, <3>2
  <2>3. MergedOnce = original
    <3>1. ~HasDoubleSlash(path)
      BY <2>2 DEF HasDoubleSlash
    <3>2. Merged(path) = path
      BY <1>2, <3>1, MergeLeavesSingle
    <3> QED BY <2>1, <3>2 DEF MergedOnce
  <2>4. FALSE = (merge = "redirect" /\ MergedOnce # original)
    BY <2>3
  <2> QED BY <2>1, <2>3, <2>4, MergePassed
<1>5. CASE MergeStart
  <2>1. pass = "merge" /\ merge # "exact" /\ stage = "scan" /\ buf' = buf /\ Go("loop")
    BY <1>5 DEF MergeStart
  <2>2. PICK j \in 1 .. n - 1 : /\ \A k \in 1 .. j - 1 : ~DoubleAt(k)
                                /\ r' = j /\ w' = j
    BY <1>5 DEF MergeStart, WriteFrom
  <2>3. Output' = SubSeq(path, 1, j)
    <3>1. buf' = <<>> /\ path' = path
      BY <1>1, <2>1 DEF PathInv, TypeOK, Go
    <3> QED BY <2>2, <3>1 DEF Output
  <2>4. MergeKeeps(path, j) = 1 .. j
    <3>1. ASSUME NEW i \in 1 .. j, i > 1, path[i] = Slash, path[i - 1] = Slash PROVE FALSE
      <4>1. i - 1 \in 1 .. j - 1 /\ i - 1 - 1 + 1 = i - 1 /\ i - 1 + 1 = i
            /\ i - 1 < n /\ i - 1 - 1 < n
        BY <1>2, <3>1
      <4>2. DoubleAt(i - 1)
        BY <1>2, <3>1, <4>1 DEF DoubleAt, IsSlash, At
      <4> QED BY <2>2, <4>1, <4>2
    <3> QED BY <3>1 DEF MergeKeeps
  <2>5. MergedUpTo(path, r', Output')
    <3>1. j \in 0 .. Len(path)
      BY <1>2
    <3>2. Picks(SubSeq(path, 1, j), path, 1 .. j)
      BY <1>2, <3>1, PicksPrefix
    <3> QED BY <2>2, <2>3, <2>4, <3>2 DEF MergedUpTo
  <2> QED BY <2>1, <2>5, MergeStepped
<1>6. CASE MergeSkip
  <2>1. pass = "merge" /\ stage = "loop" /\ r' = r + 1 /\ Go("loop") /\ DoubleAt(r) /\ r < n
        /\ UNCHANGED <<path, w, buf>>
    BY <1>6 DEF MergeSkip, Go
  <2>2. r > 0 /\ path[r + 1] = Slash /\ path[r] = Slash
    BY <1>2, <2>1 DEF DoubleAt, IsSlash, At
  <2>3. MergedUpTo(path, r', Output')
    <3>1. MergeKeeps(path, r + 1) = MergeKeeps(path, r)
      BY <1>2, <2>2, MergeStep
    <3> QED BY <1>1, <2>1, <3>1, OutputStays DEF MergedUpTo
  <2> QED BY <1>1, <2>1, <2>3, MergeStepped
<1>7. CASE MergeCopy
  <2>1. pass = "merge" /\ stage = "loop" /\ r' = r + 1 /\ Go("loop") /\ ~DoubleAt(r) /\ r < n
        /\ Put(path[r + 1]) /\ path' = path
    BY <1>7 DEF MergeCopy, Go, At
  <2>2. ~(r > 0 /\ path[r + 1] = Slash /\ path[r] = Slash)
    <3>1. r > 0 => r - 1 < n /\ r - 1 + 1 = r
      BY <1>2, <2>1
    <3> QED BY <1>2, <2>1, <3>1 DEF DoubleAt, IsSlash, At
  <2>3. MergeKeeps(path, r + 1) = MergeKeeps(path, r) \cup {r + 1}
    BY <1>2, <2>2, MergeStep
  <2>4. r + 1 \in 1 .. Len(path) /\ path[r + 1] \in Bytes /\ w < n
    BY <1>2, <2>1
  <2>5. Output' = Append(Output, path[r + 1])
    BY <1>1, <2>1, <2>4, PutOutput
  <2>6. Picks(Append(Output, path[r + 1]), path, MergeKeeps(path, r) \cup {r + 1})
    <3>1. \A k \in MergeKeeps(path, r) : k < r + 1
      BY <1>2 DEF MergeKeeps
    <3>2. Picks(Output, path, MergeKeeps(path, r))
      BY <1>1, <2>1 DEF MergedUpTo
    <3> QED BY <1>2, <2>4, <3>1, <3>2, PicksAppend
  <2>7. MergedUpTo(path, r', Output')
    BY <2>1, <2>3, <2>5, <2>6 DEF MergedUpTo
  <2> QED BY <1>1, <2>1, <2>7, MergeStepped
<1>8. CASE MergeEnd
  <2>1. pass = "merge" /\ stage = "loop" /\ r = n /\ Finish("collapse", Output, Changed(merge))
    BY <1>8 DEF MergeEnd
  <2>2. Output = MergedOnce
    <3>1. Picks(Output, path, MergeKeeps(path, Len(path))) /\ merge # "exact" /\ path = original
      BY <1>1, <1>2, <2>1 DEF MergedUpTo
    <3>2. Merged(path) = Output
      BY <1>2, <3>1, PicksIsPicked, MergedIsPicked
    <3> QED BY <3>1, <3>2 DEF MergedOnce
  <2>3. Changed(merge) = (merge = "redirect" /\ MergedOnce # original)
    BY <1>1, <2>1, <2>2, ChangedMeans
  <2> QED BY <2>1, <2>2, <2>3, MergePassed
<1> QED BY <1>3, <1>4, <1>5, <1>6, <1>7, <1>8

-----------------------------------------------------------------------------

\* The guards of the loops, on the path as a sequence.
LEMMA Guards ==
    ASSUME PathInv, NEW i \in Nat
    PROVE  /\ IsSlash(i) <=> i < Len(path) /\ path[i + 1] = Slash
           /\ IsDot(i) <=> i < Len(path) /\ path[i + 1] = Dot
           /\ Ends(i) <=> i = Len(path) \/ (i < Len(path) /\ path[i + 1] = Slash)
           /\ IsDot(i) /\ Ends(i + 1) <=> OneDot(path, i)
           /\ IsDot(i) /\ IsDot(i + 1) /\ Ends(i + 2) <=> TwoDots(path, i)
           /\ DotSegment(i) <=> OneDot(path, i) \/ TwoDots(path, i)
<1>1. Slash = "/" /\ Dot = "." /\ n = Len(path) /\ Len(path) \in Nat
  BY StateFacts
<1>2. \A k \in Nat : /\ IsSlash(k) <=> k < Len(path) /\ path[k + 1] = Slash
                     /\ IsDot(k) <=> k < Len(path) /\ path[k + 1] = Dot
                     /\ Ends(k) <=> k = Len(path) \/ (k < Len(path) /\ path[k + 1] = Slash)
  BY <1>1 DEF IsSlash, IsDot, Ends, At
<1>3. i + 1 \in Nat /\ i + 2 \in Nat /\ i + 1 + 1 = i + 2 /\ i + 2 + 1 = i + 3
  OBVIOUS
<1>4. IsDot(i) /\ Ends(i + 1) <=> OneDot(path, i)
  BY <1>1, <1>2, <1>3 DEF OneDot
<1>5. IsDot(i) /\ IsDot(i + 1) /\ Ends(i + 2) <=> TwoDots(path, i)
  BY <1>1, <1>2, <1>3 DEF TwoDots
<1> QED BY <1>2, <1>4, <1>5 DEF DotSegment

LEMMA NormFinish ==
    ASSUME NormInv, PathInv', CollapseOff \/ CollapseNone \/ CollapseEnd
    PROVE  NormInv'
<1>1. PathInv /\ CollapsingInv
  BY DEF NormInv
<1>2. /\ path \in Seq(Bytes) /\ n = Len(path) /\ n \in Nat
      /\ r \in 0 .. Len(path) /\ Output \in Seq(Bytes) /\ Len(Output) = w /\ Slash \in Bytes
  BY <1>1, StateFacts
<1>3. CASE CollapseOff
  <2>1. pass = "collapse" /\ collapse = "exact" /\ Finish("done", path, FALSE)
    BY <1>3 DEF CollapseOff
  <2>2. FALSE = (collapse = "redirect" /\ path # path)
    OBVIOUS
  <2> QED BY <2>1, <2>2, CollapsePassed
<1>4. CASE CollapseNone
  <2>1. pass = "collapse" /\ collapse # "exact" /\ Finish("done", path, FALSE)
        /\ \A i \in 0 .. n - 1 : ~DotSegmentAt(i)
    BY <1>4 DEF CollapseNone
  <2>2. ASSUME NEW i \in 0 .. Len(path), i = 0 \/ path[i] = Slash,
               OneDot(path, i) \/ TwoDots(path, i)
        PROVE  FALSE
    <3>1. i \in 0 .. n - 1 /\ i \in Nat
      BY <1>2, <2>2 DEF OneDot, TwoDots
    <3>2. i > 0 => IsSlash(i - 1)
      <4>1. i > 0 => i - 1 \in Nat /\ i - 1 < Len(path) /\ i - 1 + 1 = i
        BY <1>2, <3>1
      <4> QED BY <1>1, <2>2, <3>1, <4>1, Guards
    <3>3. DotSegment(i)
      BY <1>1, <2>2, <3>1, Guards
    <3> QED BY <2>1, <3>1, <3>2, <3>3 DEF DotSegmentAt
  <2>3. Collapsed(path) = [ok |-> TRUE, out |-> path]
    <3>1. ~HasDotSegment(path)
      BY <1>2, <2>2, DotSegmentsAt
    <3> QED BY <1>2, <3>1, CollapseLeavesPlain
  <2>4. FALSE = (collapse = "redirect" /\ path # path)
    OBVIOUS
  <2> QED BY <2>1, <2>3, <2>4, CollapsePassed
<1>5. CASE CollapseEnd
  <2>1. pass = "collapse" /\ stage = "loop" /\ r = n /\ Finish("done", Output, Changed(collapse))
    BY <1>5 DEF CollapseEnd
  <2>2. collapse # "exact" /\ NotClimbed(path, Len(path)) /\ CollapsedUpTo(path, Len(path), Output)
    BY <1>1, <1>2, <2>1 DEF CollapsingInv
  <2>3. KeptUpTo(path, Len(path)) = Rest(path) /\ ~Climbs(path)
    BY <1>2, <2>2, KeptAtEnd
  <2>4. Collapsed(path) = [ok |-> TRUE, out |-> Picked(path, Rest(path)) \o Slashed(path)]
    BY <2>3 DEF Collapsed, Rest, Slashed
  <2>5. Picked(path, Rest(path)) \o Slashed(path) = Output
    <3>1. CASE EndsInDots(path)
      <4>1. PICK x \in Seq(Bytes) : Picks(x, path, Rest(path)) /\ Output = Append(x, Slash)
        BY <2>2, <2>3, <3>1 DEF CollapsedUpTo
      <4>2. Picked(path, Rest(path)) = x
        BY <1>2, <4>1, PicksIsPicked
      <4>3. x \o <<Slash>> = Append(x, Slash)
        BY <1>2
      <4> QED BY <3>1, <4>1, <4>2, <4>3 DEF Slashed
    <3>2. CASE ~EndsInDots(path)
      <4>1. Picks(Output, path, Rest(path))
        BY <2>2, <2>3, <3>2 DEF CollapsedUpTo
      <4>2. Picked(path, Rest(path)) = Output
        BY <1>2, <4>1, PicksIsPicked
      <4>3. Output \o <<>> = Output
        BY <1>2
      <4> QED BY <3>2, <4>2, <4>3 DEF Slashed
    <3> QED BY <3>1, <3>2
  <2>6. Changed(collapse) = (collapse = "redirect" /\ Output # path)
    BY <1>1, ChangedMeans
  <2>7. (IF collapse = "exact" THEN [ok |-> TRUE, out |-> path] ELSE Collapsed(path))
          = [ok |-> TRUE, out |-> Output]
    BY <2>2, <2>4, <2>5
  <2> QED BY <2>1, <2>6, <2>7, CollapsePassed
<1> QED BY <1>3, <1>4, <1>5

\* What the cases of the outer loop start from.
LEMMA AtElement ==
    ASSUME NormInv, Collapsing
    PROVE  /\ pass = "collapse" /\ collapse # "exact" /\ r < Len(path)
           /\ NotClimbed(path, r) /\ Boundary(path, r)
           /\ Picks(Output, path, KeptUpTo(path, r))
<1>1. PathInv /\ CollapsingInv /\ pass = "collapse" /\ stage = "loop" /\ r < n
  BY DEF NormInv, Collapsing
<1>2. n = Len(path) /\ r \in Nat /\ n \in Nat
  BY <1>1, StateFacts
<1>3. collapse # "exact" /\ NotClimbed(path, r) /\ CollapsedUpTo(path, r, Output)
  BY <1>1 DEF CollapsingInv
<1> QED BY <1>1, <1>2, <1>3 DEF CollapsedUpTo

\* A list that a slash comes behind, at the end of the path.
LEMMA SlashBehind ==
    ASSUME NEW m, NEW x \in Seq(Bytes), NEW out, Boundary(path, m),
           Picks(x, path, KeptUpTo(path, m)),
           m = Len(path) => EndsInDots(path) /\ out = Append(x, Slash),
           m # Len(path) => out = x
    PROVE  CollapsedUpTo(path, m, out)
BY DEF CollapsedUpTo

LEMMA NormStart == ASSUME NormInv, PathInv', CollapseStart PROVE NormInv'
<1>1. PathInv /\ pass = "collapse" /\ stage = "scan" /\ collapse # "exact" /\ buf' = buf
      /\ Go("loop")
  BY DEF NormInv, CollapseStart
<1>2. /\ path \in Seq(Bytes) /\ n = Len(path) /\ n \in Nat /\ Slash = "/"
  BY <1>1, StateFacts
<1>3. PICK i \in 0 .. n - 1 : /\ DotSegmentAt(i) /\ \A k \in 0 .. i - 1 : ~DotSegmentAt(k)
                              /\ r' = WithSlash(i) /\ w' = WithSlash(i)
  BY DEF CollapseStart
<1> DEFINE m == IF i = 0 THEN 0 ELSE i - 1
<1>4. i \in 0 .. Len(path) /\ i < Len(path) /\ i \in Nat
  BY <1>2
<1>5. \A k \in 0 .. i : (k > 0 => IsSlash(k - 1)) <=> (k = 0 \/ path[k] = Slash)
  <2> TAKE k \in 0 .. i
  <2>1. k > 0 => k - 1 \in Nat /\ k - 1 < Len(path) /\ k - 1 + 1 = k
    BY <1>4
  <2>2. k \in Nat
    BY <1>4
  <2> QED BY <1>1, <2>1, <2>2, Guards
<1>6. i = 0 \/ path[i] = Slash
  BY <1>3, <1>4, <1>5 DEF DotSegmentAt
<1>7. \A k \in 0 .. i - 1 : k = 0 \/ path[k] = Slash => ~OneDot(path, k) /\ ~TwoDots(path, k)
  <2> SUFFICES ASSUME NEW k \in 0 .. i - 1, k = 0 \/ path[k] = Slash
               PROVE  ~OneDot(path, k) /\ ~TwoDots(path, k)
    OBVIOUS
  <2>1. k \in 0 .. i /\ k \in Nat
    BY <1>4
  <2>2. ~DotSegment(k)
    BY <1>3, <1>5, <2>1 DEF DotSegmentAt
  <2> QED BY <1>1, <2>1, <2>2, Guards
<1>8. /\ m \in 0 .. Len(path) /\ m < Len(path) /\ Boundary(path, m) /\ NotClimbed(path, m)
      /\ KeptUpTo(path, m) = 1 .. m
  BY <1>2, <1>4, <1>6, <1>7, WalkStart
<1>9. r' = m /\ w' = m
  BY <1>3 DEF WithSlash
<1> HIDE DEF m
<1>10. Output' = SubSeq(path, 1, m)
  <2>1. buf' = <<>> /\ path' = path
    BY <1>1 DEF PathInv, TypeOK, Go
  <2> QED BY <1>9, <2>1 DEF Output
<1>11. Picks(Output', path, KeptUpTo(path, m))
  BY <1>2, <1>8, <1>10, PicksPrefix
<1>12. CollapsedUpTo(path, m, Output')
  <2>1. m # Len(path)
    BY <1>2, <1>8
  <2> QED BY <1>8, <1>11, <2>1 DEF CollapsedUpTo
<1> QED BY <1>1, <1>8, <1>9, <1>12, CollapseStepped

LEMMA NormDropDot == ASSUME NormInv, PathInv', DropDot PROVE NormInv'
<1>1. PathInv /\ Collapsing /\ IsDot(r) /\ Ends(r + 1) /\ Go("loop") /\ UNCHANGED <<path, w, buf>>
      /\ r' = IF r + 1 = n THEN r + 1 ELSE r + 2
  BY DEF NormInv, DropDot, Go
<1>2. path \in Seq(Bytes) /\ n = Len(path) /\ r \in 0 .. Len(path) /\ r \in Nat
  BY <1>1, StateFacts
<1>3. /\ pass = "collapse" /\ collapse # "exact" /\ r < Len(path)
      /\ NotClimbed(path, r) /\ Boundary(path, r)
      /\ Picks(Output, path, KeptUpTo(path, r))
  BY <1>1, AtElement
<1>4. OneDot(path, r)
  BY <1>1, <1>2, Guards
<1> DEFINE t == IF r + 1 = Len(path) THEN r + 1 ELSE r + 2
<1>5. /\ t \in 0 .. Len(path) /\ Boundary(path, t) /\ NotClimbed(path, t)
      /\ KeptUpTo(path, r) = {} /\ KeptUpTo(path, t) = {}
      /\ t = Len(path) => ~EndsInDots(path)
  BY <1>2, <1>3, <1>4, WalkDot
<1>6. r' = t
  BY <1>1, <1>2
<1> HIDE DEF t
<1>7. Output' = Output
  BY <1>1, OutputStays
<1>8. CollapsedUpTo(path, r', Output')
  BY <1>3, <1>5, <1>6, <1>7 DEF CollapsedUpTo
<1> QED BY <1>1, <1>3, <1>5, <1>6, <1>8, CollapseStepped

LEMMA NormReject == ASSUME NormInv, PathInv', Reject PROVE NormInv'
<1>1. PathInv /\ CollapsingInv /\ Collapsing /\ AboveRoot /\ pass' = "rejected" /\ stage = "loop"
      /\ UNCHANGED <<original, merge, collapse, path, stage, r, w, buf, redirect>>
  BY DEF NormInv, Reject, Collapsing
<1>2. path \in Seq(Bytes) /\ n = Len(path) /\ r \in 0 .. Len(path) /\ r \in Nat /\ r + 1 \in Nat
      /\ r + 1 + 1 = r + 2 /\ r + 1 + 2 = r + 3 /\ Output \in Seq(Bytes) /\ Len(Output) = w
  BY <1>1, StateFacts
<1>3. /\ pass = "collapse" /\ collapse # "exact" /\ r < Len(path)
      /\ NotClimbed(path, r) /\ Boundary(path, r)
      /\ Picks(Output, path, KeptUpTo(path, r))
  BY <1>1, AtElement
<1>4. TwoDots(path, r) \/ (path[r + 1] = Slash /\ TwoDots(path, r + 1) /\ w = 0)
  <2>1. CASE IsDot(r) /\ IsDot(r + 1) /\ Ends(r + 2)
    BY <1>1, <1>2, <2>1, Guards
  <2>2. CASE IsSlash(r) /\ IsDot(r + 1) /\ IsDot(r + 2) /\ Ends(r + 3) /\ w = 0
    <3>1. path[r + 1] = Slash
      BY <1>1, <1>2, <2>2, Guards
    <3>2. TwoDots(path, r + 1)
      <4>1. IsDot(r + 1) /\ IsDot(r + 1 + 1) /\ Ends(r + 1 + 2)
        BY <1>2, <2>2
      <4> QED BY <1>1, <1>2, <4>1, Guards
    <3> QED BY <2>2, <3>1, <3>2
  <2> QED BY <1>1, <2>1, <2>2 DEF AboveRoot
<1>5. w = 0 => KeptUpTo(path, r) = {}
  <2> SUFFICES ASSUME w = 0 PROVE KeptUpTo(path, r) = {}
    OBVIOUS
  <2>1. PICK s \in [1 .. Len(Output) -> Nat] : PickedBy(s, Output, path, KeptUpTo(path, r))
    BY <1>3 DEF Picks
  <2>2. 1 .. Len(Output) = {}
    BY <1>2
  <2> QED BY <2>1, <2>2 DEF PickedBy, Lists
<1>6. Climbs(path)
  BY <1>2, <1>3, <1>4, <1>5, WalkClimb
<1>7. path = MergedOnce
  BY <1>1, <1>3 DEF CollapsingInv
<1>8. ~Normalized(merge, collapse, original).ok
  <2> DEFINE c == IF collapse = "exact" THEN [ok |-> TRUE, out |-> MergedOnce]
                  ELSE Collapsed(MergedOnce)
  <2>1. Normalized(merge, collapse, original) =
            [ok |-> c.ok, path |-> c.out,
             redirect |-> c.ok /\ \/ merge = "redirect" /\ MergedOnce # original
                                  \/ collapse = "redirect" /\ c.out # MergedOnce]
    BY DEF Normalized, MergedOnce
  <2>2. c.ok = FALSE
    BY <1>3, <1>6, <1>7 DEF Collapsed, Rejected
  <2> HIDE DEF c
  <2>3. Normalized(merge, collapse, original).ok = c.ok
    BY <2>1
  <2> QED BY <2>2, <2>3
<1>9. NormalizesAsReference'
  <2>1. Normalized(merge, collapse, original)' = Normalized(merge, collapse, original)
    BY <1>1
  <2> QED BY <1>1, <1>8, <2>1 DEF NormalizesAsReference
<1>10. Merging' /\ CollapsingInv' /\ (pass \in {"done", "rejected"} => stage # "segment")'
  BY <1>1 DEF Merging, CollapsingInv
<1> QED BY <1>9, <1>10 DEF NormInv

LEMMA NormSkipDot == ASSUME NormInv, PathInv', SkipDot PROVE NormInv'
<1>1. PathInv /\ Collapsing /\ IsSlash(r) /\ IsDot(r + 1) /\ Ends(r + 2) /\ Go("loop")
      /\ path' = path /\ r' = r + 2
      /\ IF r + 2 = n THEN Put("/") ELSE UNCHANGED <<w, buf>>
  BY DEF NormInv, SkipDot, Go
<1>2. /\ path \in Seq(Bytes) /\ n = Len(path) /\ n \in Nat /\ r \in 0 .. Len(path) /\ r \in Nat
      /\ r + 1 \in Nat /\ r + 1 + 1 = r + 2 /\ Output \in Seq(Bytes) /\ w \in Nat /\ w <= r
      /\ Slash = "/" /\ Slash \in Bytes
  BY <1>1, StateFacts
<1>3. /\ pass = "collapse" /\ collapse # "exact" /\ r < Len(path)
      /\ NotClimbed(path, r) /\ Boundary(path, r)
      /\ Picks(Output, path, KeptUpTo(path, r))
  BY <1>1, AtElement
<1>4. path[r + 1] = Slash /\ OneDot(path, r + 1)
  <2>1. IsDot(r + 1) /\ Ends(r + 1 + 1)
    BY <1>1, <1>2
  <2> QED BY <1>1, <1>2, <2>1, Guards
<1>5. /\ r + 2 \in 0 .. Len(path) /\ Boundary(path, r + 2) /\ NotClimbed(path, r + 2)
      /\ KeptUpTo(path, r + 2) = KeptUpTo(path, r)
      /\ r + 2 = Len(path) => EndsInDots(path)
  BY <1>2, <1>3, <1>4, WalkSkip
<1>6. r + 2 = Len(path) => Output' = Append(Output, Slash)
  <2>1. w < n
    BY <1>2, <1>3
  <2> QED BY <1>1, <1>2, <2>1, PutOutput
<1>7. r + 2 # Len(path) => Output' = Output
  BY <1>1, <1>2, OutputStays
<1>8. CollapsedUpTo(path, r + 2, Output')
  <2>1. Picks(Output, path, KeptUpTo(path, r + 2))
    BY <1>3, <1>5
  <2> QED BY <1>2, <1>5, <1>6, <1>7, <2>1, SlashBehind
<1> QED BY <1>1, <1>3, <1>5, <1>8, CollapseStepped

LEMMA NormPop == ASSUME NormInv, PathInv', Pop PROVE NormInv'
<1>1. PathInv /\ Collapsing /\ IsSlash(r) /\ IsDot(r + 1) /\ IsDot(r + 2) /\ Ends(r + 3)
      /\ ~AboveRoot /\ Go("loop") /\ path' = path /\ r' = r + 3
  BY DEF NormInv, Pop, Go
<1>2. /\ path \in Seq(Bytes) /\ n = Len(path) /\ n \in Nat /\ r \in 0 .. Len(path) /\ r \in Nat
      /\ r + 1 \in Nat /\ r + 1 + 1 = r + 2 /\ r + 1 + 2 = r + 3
      /\ Output \in Seq(Bytes) /\ Len(Output) = w /\ w \in Nat /\ w <= r
      /\ Slash = "/" /\ Slash \in Bytes
  BY <1>1, StateFacts
<1>3. /\ pass = "collapse" /\ collapse # "exact" /\ r < Len(path)
      /\ NotClimbed(path, r) /\ Boundary(path, r)
      /\ Picks(Output, path, KeptUpTo(path, r))
  BY <1>1, AtElement
<1>4. path[r + 1] = Slash /\ TwoDots(path, r + 1)
  <2>1. IsDot(r + 1) /\ IsDot(r + 1 + 1) /\ Ends(r + 1 + 2)
    BY <1>1, <1>2
  <2> QED BY <1>1, <1>2, <2>1, Guards
<1>5. w # 0
  BY <1>1 DEF AboveRoot
<1>6. KeptUpTo(path, r) # {}
  <2>1. PICK s \in [1 .. Len(Output) -> Nat] : PickedBy(s, Output, path, KeptUpTo(path, r))
    BY <1>3 DEF Picks
  <2>2. 1 \in 1 .. Len(Output)
    BY <1>2, <1>5
  <2> QED BY <2>1, <2>2 DEF PickedBy, Lists
<1>7. PICK i \in 0 .. w :
          /\ i < w
          /\ LastSlash(i)
          /\ IF r + 3 = n THEN buf' = BufApp(buf, path, i, "/") /\ w' = i + 1
                          ELSE buf' = buf /\ w' = i
  BY <1>5 DEF Pop
<1> DEFINE cut == SubSeq(Output, 1, i)
           t == r + 3
<1>8. /\ t \in 0 .. Len(path) /\ Boundary(path, t) /\ NotClimbed(path, t)
      /\ t = Len(path) => EndsInDots(path)
      /\ \E b \in KeptUpTo(path, r) :
            /\ KeptUpTo(path, t) = {k \in KeptUpTo(path, r) : k < b}
            /\ \A k \in KeptUpTo(path, r) : b < k => path[k] # Slash
            /\ path[b] = Slash \/ \A k \in KeptUpTo(path, r) : b <= k
  BY <1>2, <1>3, <1>4, <1>6, WalkPop
<1>9. PICK b \in KeptUpTo(path, r) :
            /\ KeptUpTo(path, t) = {k \in KeptUpTo(path, r) : k < b}
            /\ \A k \in KeptUpTo(path, r) : b < k => path[k] # Slash
            /\ path[b] = Slash \/ \A k \in KeptUpTo(path, r) : b <= k
  BY <1>8
<1>10. /\ i \in 0 .. Len(Output) /\ i < Len(Output)
       /\ \A k \in i + 2 .. Len(Output) : Output[k] # Slash
       /\ i > 0 => Output[i + 1] = Slash
  <2>1. /\ \A k \in i + 1 .. w - 1 : Output[k + 1] # Slash
        /\ i > 0 => Output[i + 1] = Slash
    BY <1>2, <1>7 DEF LastSlash, At
  <2>2. ASSUME NEW k \in i + 2 .. Len(Output) PROVE Output[k] # Slash
    <3>1. k - 1 \in i + 1 .. w - 1 /\ k - 1 + 1 = k
      BY <1>2
    <3> QED BY <2>1, <3>1
  <2> QED BY <1>2, <1>7, <2>1, <2>2
<1>11. Picks(cut, path, KeptUpTo(path, t))
  <2>1. Picks(cut, path, {k \in KeptUpTo(path, r) : k < b})
    BY <1>2, <1>3, <1>9, <1>10, PicksPop
  <2> QED BY <1>9, <2>1
<1>12. cut \in Seq(Bytes)
  BY <1>2, <1>7
<1>13. t = Len(path) => Output' = Append(cut, Slash)
  <2> SUFFICES ASSUME t = Len(path) PROVE Output' = Append(cut, Slash)
    OBVIOUS
  <2>1. buf' = BufApp(buf, path, i, Slash) /\ w' = i + 1 /\ i < n
    BY <1>2, <1>3, <1>7
  <2> QED BY <1>1, <1>2, <2>1, OutputWritten
<1>14. t # Len(path) => Output' = cut
  <2> SUFFICES ASSUME t # Len(path) PROVE Output' = cut
    OBVIOUS
  <2>1. buf' = buf /\ w' = i /\ path' = path
    BY <1>1, <1>2, <1>7
  <2>2. i \in 0 .. w /\ w \in 0 .. Len(path) /\ (buf # <<>> => Len(buf) = Len(path))
        /\ buf \in Seq(Bytes)
    BY <1>1, <1>2 DEF PathInv, TypeOK, WritesBehind
  <2>3. Output' = IF buf = <<>> THEN SubSeq(path, 1, i) ELSE SubSeq(buf, 1, i)
    BY <2>1 DEF Output
  <2>4. \A s \in Seq(Bytes) : w \in 0 .. Len(s) => SubSeq(SubSeq(s, 1, w), 1, i) = SubSeq(s, 1, i)
    <3> SUFFICES ASSUME NEW s \in Seq(Bytes), w \in 0 .. Len(s)
                 PROVE  SubSeq(SubSeq(s, 1, w), 1, i) = SubSeq(s, 1, i)
      OBVIOUS
    <3> DEFINE x == SubSeq(s, 1, w)
               y == SubSeq(x, 1, i)
               z == SubSeq(s, 1, i)
    <3>1. x \in Seq(Bytes) /\ Len(x) = w /\ \A k \in 1 .. w : x[k] = s[k]
      OBVIOUS
    <3>2. z \in Seq(Bytes) /\ Len(z) = i /\ \A k \in 1 .. i : z[k] = s[k]
      OBVIOUS
    <3> HIDE DEF x, z
    <3>3. y \in Seq(Bytes) /\ Len(y) = i /\ \A k \in 1 .. i : y[k] = x[k]
      BY <2>2, <3>1
    <3> HIDE DEF y
    <3>4. \A k \in 1 .. Len(y) : y[k] = z[k]
      <4>1. \A k \in 1 .. i : k \in 1 .. w
        BY <1>2, <2>2
      <4> QED BY <3>1, <3>2, <3>3, <4>1
    <3>5. y = z
      BY <3>2, <3>3, <3>4, SeqEqual
    <3> QED BY <3>5 DEF x, y, z
  <2>5. cut = IF buf = <<>> THEN SubSeq(path, 1, i) ELSE SubSeq(buf, 1, i)
    BY <1>2, <2>2, <2>4 DEF Output
  <2> QED BY <2>3, <2>5
<1> HIDE DEF cut, t
<1>15. CollapsedUpTo(path, t, Output')
  BY <1>8, <1>11, <1>12, <1>13, <1>14, SlashBehind
<1>16. r' = t
  BY <1>1 DEF t
<1> QED BY <1>1, <1>3, <1>8, <1>15, <1>16, CollapseStepped

\* A byte that is moved is kept.
LEMMA Moved ==
    ASSUME PathInv, NEW K, Picks(Output, path, K), \A k \in K : k <= r, r < n,
           Put(path[r + 1]), path' = path
    PROVE  Picks(Output', path, K \cup {r + 1})
<1>1. /\ path \in Seq(Bytes) /\ n = Len(path) /\ n \in Nat /\ r \in Nat
      /\ Output \in Seq(Bytes) /\ w \in Nat /\ w <= r
  BY StateFacts
<1>2. r + 1 \in 1 .. Len(path) /\ path[r + 1] \in Bytes /\ w < n
  BY <1>1
<1>3. Output' = Append(Output, path[r + 1])
  BY <1>2, PutOutput
<1>4. \A k \in K : k < r + 1
  <2>1. \A k \in K : k \in Nat
    <3>1. PICK s \in [1 .. Len(Output) -> Nat] : PickedBy(s, Output, path, K)
      BY DEF Picks
    <3> QED BY <3>1 DEF PickedBy, Lists
  <2> QED BY <1>1, <2>1
<1> QED BY <1>1, <1>2, <1>3, <1>4, PicksAppend

LEMMA KeptBefore == ASSUME NEW p, NEW m, NEW k \in KeptUpTo(p, m) PROVE k <= m
BY DEF KeptUpTo

LEMMA NormMove == ASSUME NormInv, PathInv', Move PROVE NormInv'
<1>1. PathInv /\ Collapsing /\ ~DotSegment(r) /\ ~(IsSlash(r) /\ DotSegment(r + 1))
      /\ Go("segment") /\ path' = path
      /\ IF IsSlash(r) THEN Put("/") /\ r' = r + 1 ELSE UNCHANGED <<r, w, buf>>
  BY DEF NormInv, Move, Go
<1>2. /\ path \in Seq(Bytes) /\ n = Len(path) /\ r \in 0 .. Len(path) /\ r \in Nat
      /\ r + 1 \in Nat /\ Slash = "/"
  BY <1>1, StateFacts
<1>3. /\ pass = "collapse" /\ collapse # "exact" /\ r < Len(path)
      /\ NotClimbed(path, r) /\ Boundary(path, r)
      /\ Picks(Output, path, KeptUpTo(path, r))
  BY <1>1, AtElement
<1>4. /\ IsSlash(r) <=> path[r + 1] = Slash
      /\ ~OneDot(path, r) /\ ~TwoDots(path, r)
      /\ path[r + 1] = Slash => ~OneDot(path, r + 1) /\ ~TwoDots(path, r + 1)
  BY <1>1, <1>2, <1>3, Guards
<1>5. IF path[r + 1] = Slash
      THEN InElement(path, r + 1) /\ NotClimbed(path, r + 1)
           /\ KeptUpTo(path, r + 1) = KeptUpTo(path, r) \cup {r + 1}
      ELSE InElement(path, r)
  BY <1>2, <1>3, <1>4, WalkMove
<1>6. CASE path[r + 1] = Slash
  <2>1. Put(path[r + 1]) /\ r' = r + 1 /\ r < n
    BY <1>1, <1>2, <1>3, <1>4, <1>6
  <2>2. Picks(Output', path, KeptUpTo(path, r + 1))
    <3>1. Picks(Output', path, KeptUpTo(path, r) \cup {r + 1})
      BY <1>1, <1>3, <2>1, KeptBefore, Moved
    <3> QED BY <1>5, <1>6, <3>1
  <2>3. MovedUpTo(path, r', Output') /\ NotClimbed(path, r')
    BY <1>5, <1>6, <2>1, <2>2 DEF MovedUpTo
  <2> QED BY <1>1, <1>3, <2>3, CollapseStepped
<1>7. CASE path[r + 1] # Slash
  <2>1. UNCHANGED <<path, r, w, buf>>
    BY <1>1, <1>4, <1>7
  <2>2. Output' = Output
    BY <2>1, OutputStays
  <2>3. MovedUpTo(path, r', Output') /\ NotClimbed(path, r')
    BY <1>3, <1>5, <1>7, <2>1, <2>2 DEF MovedUpTo
  <2> QED BY <1>1, <1>3, <2>3, CollapseStepped
<1> QED BY <1>6, <1>7

\* What the inner loop starts from.
LEMMA InSegment ==
    ASSUME NormInv, stage = "segment"
    PROVE  /\ pass = "collapse" /\ collapse # "exact" /\ NotClimbed(path, r)
           /\ InElement(path, r) /\ Picks(Output, path, KeptUpTo(path, r))
<1>1. pass \in {"merge", "collapse", "done", "rejected"}
  BY DEF NormInv, PathInv, TypeOK
<1>2. pass = "collapse"
  BY <1>1 DEF NormInv, Merging
<1> QED BY <1>2 DEF NormInv, CollapsingInv, MovedUpTo

LEMMA NormMoveByte == ASSUME NormInv, PathInv', MoveByte PROVE NormInv'
<1>1. PathInv /\ stage = "segment" /\ ~Ends(r) /\ Put(path[r + 1]) /\ r' = r + 1
      /\ Go("segment") /\ path' = path
  BY DEF NormInv, MoveByte, Go, At
<1>2. path \in Seq(Bytes) /\ n = Len(path) /\ n \in Nat /\ r \in 0 .. Len(path) /\ r \in Nat
  BY <1>1, StateFacts
<1>3. /\ pass = "collapse" /\ collapse # "exact" /\ NotClimbed(path, r)
      /\ InElement(path, r) /\ Picks(Output, path, KeptUpTo(path, r))
  BY <1>1, InSegment
<1>4. r < Len(path) /\ path[r + 1] # Slash
  BY <1>1, <1>2, Guards
<1>5. /\ InElement(path, r + 1) /\ NotClimbed(path, r + 1)
      /\ KeptUpTo(path, r + 1) = KeptUpTo(path, r) \cup {r + 1}
  BY <1>2, <1>3, <1>4, WalkByte
<1>6. Picks(Output', path, KeptUpTo(path, r) \cup {r + 1})
  BY <1>1, <1>2, <1>3, <1>4, KeptBefore, Moved
<1>7. MovedUpTo(path, r', Output') /\ NotClimbed(path, r')
  BY <1>1, <1>5, <1>6 DEF MovedUpTo
<1> QED BY <1>1, <1>3, <1>7, CollapseStepped

LEMMA NormMoveEnd == ASSUME NormInv, PathInv', MoveEnd PROVE NormInv'
<1>1. PathInv /\ stage = "segment" /\ Ends(r) /\ UNCHANGED <<path, r, w, buf>> /\ Go("loop")
  BY DEF NormInv, MoveEnd, Go
<1>2. path \in Seq(Bytes) /\ r \in 0 .. Len(path) /\ r \in Nat
  BY <1>1, StateFacts
<1>3. /\ pass = "collapse" /\ collapse # "exact" /\ NotClimbed(path, r)
      /\ InElement(path, r) /\ Picks(Output, path, KeptUpTo(path, r))
  BY <1>1, InSegment
<1>4. r = Len(path) \/ path[r + 1] = Slash
  BY <1>1, <1>2, Guards
<1>5. Boundary(path, r) /\ (r = Len(path) => ~EndsInDots(path))
  BY <1>2, <1>3, <1>4, WalkEnd
<1>6. Output' = Output
  BY <1>1, OutputStays
<1>7. CollapsedUpTo(path, r', Output') /\ NotClimbed(path, r')
  BY <1>1, <1>3, <1>5, <1>6 DEF CollapsedUpTo
<1> QED BY <1>1, <1>3, <1>7, CollapseStepped

-----------------------------------------------------------------------------

\* The loops write what the reference keeps, for paths of any length.
THEOREM NormInvariant == Spec => []NormInv
<1>1. Init => NormInv
  <2> SUFFICES ASSUME Init PROVE NormInv
    OBVIOUS
  <2>1. PathInv
    BY InitInv
  <2>2. Merging /\ CollapsingInv /\ NormalizesAsReference
        /\ (pass \in {"done", "rejected"} => stage # "segment")
    BY DEF Init, Merging, CollapsingInv, NormalizesAsReference
  <2> QED BY <2>1, <2>2 DEF NormInv
<1>2. NormInv /\ [Next]_vars => NormInv'
  <2> SUFFICES ASSUME NormInv, [Next]_vars PROVE NormInv'
    OBVIOUS
  <2>1. CASE Next
    <3>1. PathInv'
      BY <2>1, MergeInv, CollapseInv DEF Next, NormInv
    <3>2. CASE MergeOff \/ MergeNone \/ MergeStart \/ MergeSkip \/ MergeCopy \/ MergeEnd
      BY <3>1, <3>2, NormMerge
    <3>3. CASE CollapseOff \/ CollapseNone \/ CollapseEnd
      BY <3>1, <3>3, NormFinish
    <3>4. CASE CollapseStart
      BY <3>1, <3>4, NormStart
    <3>5. CASE DropDot
      BY <3>1, <3>5, NormDropDot
    <3>6. CASE Reject
      BY <3>1, <3>6, NormReject
    <3>7. CASE SkipDot
      BY <3>1, <3>7, NormSkipDot
    <3>8. CASE Pop
      BY <3>1, <3>8, NormPop
    <3>9. CASE Move
      BY <3>1, <3>9, NormMove
    <3>10. CASE MoveByte
      BY <3>1, <3>10, NormMoveByte
    <3>11. CASE MoveEnd
      BY <3>1, <3>11, NormMoveEnd
    <3> QED BY <2>1, <3>2, <3>3, <3>4, <3>5, <3>6, <3>7, <3>8, <3>9, <3>10, <3>11 DEF Next
  <2>2. CASE UNCHANGED vars
    <3>1. PathInv'
      BY <2>2 DEF NormInv, vars, PathInv, TypeOK, WritesBehind, Shorter, n
    <3>2. Merging' /\ CollapsingInv'
      BY <2>2 DEF NormInv, vars, Merging, CollapsingInv, MergedOnce, Output
    <3>3. NormalizesAsReference' /\ (pass \in {"done", "rejected"} => stage # "segment")'
      BY <2>2 DEF NormInv, vars, NormalizesAsReference
    <3> QED BY <3>1, <3>2, <3>3 DEF NormInv
  <2> QED BY <2>1, <2>2
<1> QED BY <1>1, <1>2, PTL DEF Spec

\* MergeSlashes and CollapseDotSegments return what RFC 3986 says, and refuse exactly
\* the paths that climb above the root.
THEOREM LoopsNormalize == Spec => []NormalizesAsReference
<1>1. NormInv => NormalizesAsReference
  BY DEF NormInv
<1> QED BY <1>1, NormInvariant, PTL

\* The path redirectRoutingPath returns is not changed again.
THEOREM NormalFormStays == Spec => []NormalFormIsStable
<1>1. NormInv => NormalFormIsStable
  <2> SUFFICES ASSUME NormInv, pass = "done"
               PROVE  LET again == Normalized(merge, collapse, path)
                      IN  again.ok /\ again.path = path /\ ~again.redirect
    BY DEF NormalFormIsStable
  <2>1. original \in Seq(Bytes) /\ Slash \in Bytes
    BY StateFacts DEF NormInv
  <2>2. Normalized(merge, collapse, original).ok /\ path = Normalized(merge, collapse, original).path
    BY DEF NormInv, NormalizesAsReference
  <2>3. Normalized(merge, collapse, path) = [ok |-> TRUE, path |-> path, redirect |-> FALSE]
    BY <2>1, <2>2, NormalizedIsStable
  <2> QED BY <2>3
<1> QED BY <1>1, NormInvariant, PTL
=============================================================================
