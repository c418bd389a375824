----------------------------- MODULE RegprogEnds -----------------------------
(***************************************************************************)
(* The listing of the prefixes that match (regprog.Ends), as the lookup     *)
(* uses it: started at some position, asked for the next end from any       *)
(* position, forwards or backwards, and abandoned for another start.        *)
(***************************************************************************)
EXTENDS Regprog

CONSTANTS Programs, Texts,
          Delim               \* the delimiter: a slash, or a dot for a hostname

ASSUME RegprogEndsAssumption ==
    /\ \A program \in Programs : WellFormed(program)
    /\ \A s \in Texts : s \in Seq({s[i] : i \in DOMAIN s})
    /\ Delim \notin {"<", ">"}

VARIABLES prog, text,
          ends,               \* the Ends
          asked               \* the last question and its answer

vars == <<prog, text, ends, asked>>

Unasked == [from |-> -1, end |-> -1]

Init ==
    /\ prog \in Programs
    /\ text \in Texts
    /\ ends = NoListing
    /\ asked = Unasked

Start(start) ==
    /\ ends' = StartEnds(prog, text, ends, start)
    /\ asked' = Unasked
    /\ UNCHANGED <<prog, text>>

Next(from) ==
    /\ ends.start >= 0 /\ from >= ends.start
    /\ LET x == NextEnd(prog, text, Delim, ends, from)
       IN  ends' = x.ends /\ asked' = [from |-> from, end |-> x.end]
    /\ UNCHANGED <<prog, text>>

\* Reset: the Ends goes to another lookup, here of the same program and text.
Reset ==
    /\ ends' = [ends EXCEPT !.start = -1]
    /\ asked' = Unasked
    /\ UNCHANGED <<prog, text>>

Steps == (\E p \in 0 .. Len(text) : Start(p) \/ Next(p)) \/ Reset

Spec == Init /\ [][Steps]_vars

-----------------------------------------------------------------------------
(* Properties *)

TypeOK ==
    /\ prog \in Programs /\ text \in Texts
    /\ ends.start \in -1 .. Len(text) /\ ends.pos \in 0 .. Len(text)
    /\ ends.reach \in 0 .. Len(text)
    /\ ends.cur \subseteq RuneInsts(prog) /\ ends.accepted \in BOOLEAN

\* The ends of the prefixes from start, before a delimiter, that match.
EndsFrom(start) ==
    {e \in start + 1 .. Len(text) - 1 :
        text[e + 1] = Delim /\ Matches(prog, SubSeq(text, start + 1, e))}

\* Whatever was asked before, an answer of Ends.Next is the first position at or
\* after the one asked that ends a matching prefix, as matching the prefix afresh
\* would find it, and a listing kept from an earlier start answers nothing.
EndsAreMatches ==
    /\ TypeOK
    /\ asked.from >= 0 =>
          LET es == {e \in EndsFrom(ends.start) : e >= asked.from}
          IN  asked.end = IF es = {} THEN -1 ELSE Min(es)

\* While a listing is in progress Ends.Reach never falls, although the listing
\* may start over: lookupState.retryScan reads from it how much of the text was
\* scanned, to decide that the next scan repeats work.
ReachNeverFalls ==
    [][ends'.start = ends.start /\ ends.start >= 0 => Reached(ends') >= Reached(ends)]_vars
=============================================================================
