---------------------------- MODULE RecorderProofs ----------------------------
(***************************************************************************)
(* The properties of module Recorder, for any set of status codes, any size *)
(* of the copy buffer and any length of body.                               *)
(*                                                                          *)
(* Agree(r, s) is what every call of the recorder preserves: the recorder r *)
(* tells the truth about the server's writer s.  The rest of the inductive  *)
(* invariant ties the phases of a request to the panic and the error text.  *)
(***************************************************************************)
EXTENDS Recorder, TLAPS

Recorders == [size : Nat \cup {NotWritten}, status : Codes, hijacked : BOOLEAN]
Servers   == [status : Codes \cup {None}, bytes : Nat, hijacked : BOOLEAN, misused : BOOLEAN]

Agree(r, s) ==
    /\ r \in Recorders /\ s \in Servers
    /\ s.misused = FALSE
    /\ r.hijacked = s.hijacked
    /\ r.hijacked => r.size # NotWritten
    /\ ~Informational(r.status)
    /\ ~r.hijacked => /\ r.size # NotWritten <=> s.status # None
                      /\ r.size # NotWritten => r.status = s.status /\ r.size = s.bytes
                      /\ r.size = NotWritten => s.bytes = 0

Underway(p) == Agree(p.rec, p.server) /\ p.rec.size # NotWritten /\ ~p.rec.hijacked

\* Before the reply is complete nothing but the handler has written.
Phases ==
    /\ phase \in {"running", "panicking"} => errorBody = NotWritten /\ Agree(rec, server)
    /\ phase = "running" => panicked = "no"
    /\ phase = "panicking" => panicked # "no"

RecorderInv ==
    TypeOK /\ RecorderAgrees /\ ServerNotMisused /\ NoMixedReply /\ PanicIsReported /\ Phases

-----------------------------------------------------------------------------
(* The calls of the recorder preserve Agree. *)

\* Zero is no status code, and 200 is not informational.
LEMMA CodeFacts == None \notin Codes /\ 200 \in Codes /\ 500 \in Codes
                   /\ ~Informational(200) /\ ~Informational(500) /\ BodyAllowed(500)
BY CodesAssumption DEF None, Informational, BodyAllowed

\* The first final header.
LEMMA HeaderAgrees ==
    ASSUME NEW r, NEW s, Agree(r, s), ~r.hijacked, r.size = NotWritten,
           NEW code \in Codes, ~Informational(code)
    PROVE  Agree([r EXCEPT !.size = 0, !.status = code], [s EXCEPT !.status = code])
<1> DEFINE r2 == [r EXCEPT !.size = 0, !.status = code]
           s2 == [s EXCEPT !.status = code]
<1>1. r \in Recorders /\ s \in Servers /\ s.misused = FALSE /\ s.hijacked = r.hijacked
      /\ s.bytes = 0
  BY DEF Agree
<1>2. r2 \in Recorders /\ r2.size = 0 /\ r2.status = code /\ r2.hijacked = r.hijacked
  BY <1>1 DEF Recorders
<1>3. s2 \in Servers /\ s2.status = code /\ s2.hijacked = s.hijacked /\ s2.bytes = 0
      /\ s2.misused = FALSE
  BY <1>1 DEF Servers
<1>4. code # None /\ 0 # NotWritten
  BY CodeFacts DEF NotWritten
<1> HIDE DEF r2, s2
<1>5. Agree(r2, s2)
  BY <1>1, <1>2, <1>3, <1>4 DEF Agree
<1> QED BY <1>5 DEF r2, s2

\* WriteHeader: an informational header leaves both alone.
LEMMA WriteHeaderAgrees ==
    ASSUME NEW r, NEW s, Agree(r, s), NEW code \in Codes
    PROVE  Agree(WriteHeaderOn(r, s, code).rec, WriteHeaderOn(r, s, code).server)
<1>1. CASE r.hijacked \/ r.size # NotWritten
  BY <1>1 DEF WriteHeaderOn, Pair
<1>2. CASE ~(r.hijacked \/ r.size # NotWritten) /\ Informational(code)
  <2>1. s.status = None /\ ~s.hijacked
    BY <1>2 DEF Agree
  <2>2. ServerWriteHeader(s, code) = s
    BY <1>2, <2>1 DEF ServerWriteHeader
  <2> QED BY <1>2, <2>2 DEF WriteHeaderOn, Pair
<1>3. CASE ~(r.hijacked \/ r.size # NotWritten) /\ ~Informational(code)
  <2>1. s.status = None /\ ~s.hijacked /\ s.bytes = 0
    BY <1>3 DEF Agree
  <2>2. ServerWriteHeader(s, code) = [s EXCEPT !.status = code]
    BY <1>3, <2>1 DEF ServerWriteHeader
  <2>3. Agree([r EXCEPT !.size = 0, !.status = code], [s EXCEPT !.status = code])
    BY <1>3, <2>1, HeaderAgrees
  <2> QED BY <1>3, <2>2, <2>3 DEF WriteHeaderOn, Pair
<1> QED BY <1>1, <1>2, <1>3

\* The first Write sends the recorded status.
LEMMA StartedAgrees ==
    ASSUME NEW r, NEW s, Agree(r, s), ~r.hijacked
    PROVE  Underway(Started(r, s))
<1>1. CASE r.size # NotWritten
  BY <1>1 DEF Started, Underway, Pair
<1>2. CASE r.size = NotWritten
  <2>1. s.status = None /\ ~s.hijacked /\ s.bytes = 0 /\ ~Informational(r.status)
        /\ r.status \in Codes
    BY <1>2 DEF Agree, Recorders
  <2>2. ServerWriteHeader(s, r.status) = [s EXCEPT !.status = r.status]
    BY <2>1 DEF ServerWriteHeader
  <2>3. [r EXCEPT !.size = 0] = [r EXCEPT !.size = 0, !.status = r.status]
    BY DEF Agree, Recorders
  <2>4. Agree([r EXCEPT !.size = 0], [s EXCEPT !.status = r.status])
    BY <1>2, <2>1, <2>3, HeaderAgrees
  <2>5. [r EXCEPT !.size = 0].size # NotWritten /\ ~[r EXCEPT !.size = 0].hijacked
    BY DEF Agree, Recorders, NotWritten
  <2>6. Started(r, s).rec = [r EXCEPT !.size = 0]
        /\ Started(r, s).server = [s EXCEPT !.status = r.status]
    BY <1>2, <2>2 DEF Started, Pair
  <2> QED BY <2>4, <2>5, <2>6 DEF Underway
<1> QED BY <1>1, <1>2

\* Bytes are counted as the server accepts them.
LEMMA SentAgrees ==
    ASSUME NEW p, Underway(p), NEW k \in Nat
    PROVE  Underway(Sent(p, k))
<1> DEFINE a == Accepted(p.server, k)
           r == [p.rec EXCEPT !.size = @ + a]
           s == [p.server EXCEPT !.bytes = @ + a]
<1>1. a \in Nat
  BY DEF Accepted
<1>2. p.server.status # None /\ ~p.server.hijacked
  BY DEF Underway, Agree
<1>3. ServerWrite(p.server, k) = s
  BY <1>2 DEF ServerWrite
<1>4. Agree(r, s) /\ r.size # NotWritten /\ ~r.hijacked
  <2> HIDE DEF a
  <2> QED BY <1>1 DEF Underway, Agree, Recorders, Servers, NotWritten
<1> QED BY <1>3, <1>4 DEF Sent, Underway, Pair

\* Write and WriteString.
LEMMA WriteAgrees ==
    ASSUME NEW r, NEW s, Agree(r, s), NEW k \in Nat
    PROVE  /\ Agree(WriteOn(r, s, k).rec, WriteOn(r, s, k).server)
           /\ ~r.hijacked => Underway(WriteOn(r, s, k))
<1>1. CASE r.hijacked
  BY <1>1 DEF WriteOn, Pair
<1>2. CASE ~r.hijacked
  BY <1>2, StartedAgrees, SentAgrees DEF WriteOn, Underway
<1> QED BY <1>1, <1>2

\* ReadFrom, whichever way it copies.
LEMMA ReadFromAgrees ==
    ASSUME NEW r, NEW s, Agree(r, s), NEW n \in Nat, NEW k \in Nat
    PROVE  Agree(ReadFromOn(r, s, n, k).rec, ReadFromOn(r, s, n, k).server)
<1>1. CASE r.hijacked \/ n = 0
  BY <1>1 DEF ReadFromOn, Pair
<1>2. CASE ~(r.hijacked \/ n = 0) /\ (~writer.readerFrom \/ (r.size = NotWritten /\ k < CopyBuf))
  <2>1. ReadFromOn(r, s, n, k) = WriteOn(r, s, k)
    BY <1>2 DEF ReadFromOn
  <2> QED BY <2>1, WriteAgrees
<1>3. CASE ~(r.hijacked \/ n = 0) /\ writer.readerFrom /\ r.size # NotWritten
  <2>1. ReadFromOn(r, s, n, k) = Sent(Pair(r, s), k)
    BY <1>3 DEF ReadFromOn
  <2>2. Underway(Pair(r, s))
    BY <1>3 DEF Underway, Pair
  <2> QED BY <2>1, <2>2, SentAgrees DEF Underway
<1>4. CASE ~(r.hijacked \/ n = 0) /\ writer.readerFrom /\ r.size = NotWritten /\ ~(k < CopyBuf)
  <2>1. ReadFromOn(r, s, n, k) = Sent(WriteOn(r, s, CopyBuf), k - CopyBuf)
    BY <1>4 DEF ReadFromOn
  <2>2. k - CopyBuf \in Nat /\ CopyBuf \in Nat
    BY <1>4, SizesAssumption
  <2>3. Underway(WriteOn(r, s, CopyBuf))
    BY <1>4, <2>2, WriteAgrees
  <2> QED BY <2>1, <2>2, <2>3, SentAgrees DEF Underway
<1> QED BY <1>1, <1>2, <1>3, <1>4

-----------------------------------------------------------------------------
(* The steps *)

\* What a step of the handler has to show: the fields that say how the request
\* ends are not set while its reply is open.
LEMMA OpenInv ==
    ASSUME Agree(rec, server)', writer \in Writers, UNCHANGED writer,
           phase' \in {"running", "panicking"}, errorBody' = NotWritten,
           panicked' \in {"no", "abort", "broken", "value"},
           phase' = "running" => panicked' = "no",
           phase' = "panicking" => panicked' # "no"
    PROVE  RecorderInv'
<1>1. TypeOK'
  BY DEF TypeOK, Agree, Recorders, Servers
<1>2. RecorderAgrees' /\ ServerNotMisused'
  BY DEF RecorderAgrees, ServerNotMisused, Agree, Written
<1>3. NoMixedReply' /\ PanicIsReported' /\ Phases'
  BY DEF NoMixedReply, PanicIsReported, Phases
<1> QED BY <1>1, <1>2, <1>3 DEF RecorderInv

\* While the handler runs the recorder agrees with the server.
LEMMA RunningFacts ==
    ASSUME RecorderInv, phase = "running"
    PROVE  /\ Agree(rec, server) /\ writer \in Writers /\ errorBody = NotWritten
           /\ panicked = "no"
BY DEF RecorderInv, Phases, TypeOK

LEMMA InitInv == Init => RecorderInv
<1> SUFFICES ASSUME Init PROVE RecorderInv
  OBVIOUS
<1>1. TypeOK
  BY CodeFacts DEF Init, TypeOK, Fresh, NewServer
<1>2. Agree(rec, server)
  BY CodeFacts DEF Init, Agree, Fresh, NewServer, Recorders, Servers, NotWritten
<1>3. RecorderAgrees /\ ServerNotMisused
  BY <1>2 DEF RecorderAgrees, ServerNotMisused, Agree, Written
<1>4. NoMixedReply /\ PanicIsReported /\ Phases
  BY <1>2 DEF Init, NoMixedReply, PanicIsReported, Phases
<1> QED BY <1>1, <1>3, <1>4 DEF RecorderInv

\* The calls that write: whichever pair of states they lead to.
LEMMA CallInv ==
    ASSUME RecorderInv, phase = "running", NEW p, Agree(p.rec, p.server), Set(p),
           UNCHANGED <<writer, phase, panicked, errorBody>>
    PROVE  RecorderInv'
<1>1. Agree(rec, server)'
  BY DEF Set
<1> QED BY <1>1, RunningFacts, OpenInv

LEMMA FlushInv == RecorderInv /\ FlushError => RecorderInv'
<1> SUFFICES ASSUME RecorderInv, FlushError PROVE RecorderInv'
  OBVIOUS
<1> DEFINE p == IF Written THEN Pair(rec, server) ELSE WriteHeaderOn(rec, server, rec.status)
<1>1. Agree(rec, server) /\ phase = "running"
  BY RunningFacts DEF FlushError
<1>2. rec.status \in Codes /\ ~Informational(rec.status)
  BY <1>1 DEF Agree, Recorders
<1>3. Agree(p.rec, p.server) /\ p.rec.size # NotWritten
  <2>1. CASE Written
    BY <1>1, <2>1 DEF Pair, Written
  <2>2. CASE ~Written
    <3>1. ~rec.hijacked /\ rec.size = NotWritten
      BY <1>1, <2>2 DEF Written, Agree
    <3>2. p = WriteHeaderOn(rec, server, rec.status)
      BY <2>2
    <3>3. p.rec = [rec EXCEPT !.size = 0, !.status = rec.status]
      BY <1>2, <3>1, <3>2 DEF WriteHeaderOn, Pair
    <3>4. p.rec.size # NotWritten
      <4> HIDE DEF p
      <4>1. p.rec.size = 0
        BY <1>1, <3>3 DEF Agree, Recorders
      <4> QED BY <4>1 DEF NotWritten
    <3> QED BY <1>1, <1>2, <3>2, <3>4, WriteHeaderAgrees
  <2> QED BY <2>1, <2>2
<1>4. ServerCommit(p.server) = p.server
  <2> HIDE DEF p
  <2> QED BY <1>3 DEF Agree, ServerCommit
<1>5. rec' = p.rec /\ server' = p.server
  BY <1>4 DEF FlushError, Set, Pair
<1>6. Agree(rec, server)'
  BY <1>3, <1>5
<1> QED BY <1>1, <1>6, RunningFacts, OpenInv DEF FlushError

LEMMA HijackInv == RecorderInv /\ Hijack => RecorderInv'
<1> SUFFICES ASSUME RecorderInv, Hijack PROVE RecorderInv'
  OBVIOUS
<1>1. Agree(rec, server) /\ phase = "running"
  BY RunningFacts DEF Hijack
<1>2. /\ rec' \in Recorders /\ rec'.hijacked = TRUE /\ rec'.size = 0
      /\ rec'.status = rec.status
  BY <1>1 DEF Hijack, Agree, Recorders
<1>3. /\ server' \in Servers /\ server'.hijacked = TRUE /\ server'.misused = FALSE
  BY <1>1 DEF Hijack, Agree, Servers
<1>4. ~Informational(rec'.status) /\ rec'.size # NotWritten
  BY <1>1, <1>2 DEF Agree, NotWritten
<1>5. Agree(rec, server)'
  BY <1>2, <1>3, <1>4 DEF Agree
<1> QED BY <1>1, <1>5, RunningFacts, OpenInv DEF Hijack

\* The server commits a header by itself when no reply was started.
LEMMA CommitFacts ==
    ASSUME NEW r, NEW s, Agree(r, s)
    PROVE  /\ ServerCommit(s) \in Servers /\ ServerCommit(s).misused = FALSE
           /\ ServerCommit(s).hijacked = r.hijacked
BY CodeFacts DEF Agree, ServerCommit, Servers

\* Return, and GiveUp after the panic of a broken connection.
LEMMA EndInv ==
    ASSUME RecorderInv, phase \in {"running", "panicking"}, panicked # "value",
           server' = ServerCommit(server), phase' = "done",
           UNCHANGED <<rec, writer, panicked, errorBody>>
    PROVE  RecorderInv'
<1>1. Agree(rec, server) /\ errorBody = NotWritten
  BY DEF RecorderInv, Phases
<1>2. server' \in Servers /\ server'.misused = FALSE /\ server'.hijacked = rec.hijacked
  BY <1>1, CommitFacts
<1>3. TypeOK'
  BY <1>2 DEF RecorderInv, TypeOK, Servers
<1>4. RecorderAgrees' /\ ServerNotMisused'
  BY <1>2 DEF RecorderAgrees, ServerNotMisused
<1>5. NoMixedReply' /\ PanicIsReported' /\ Phases'
  BY <1>1 DEF NoMixedReply, PanicIsReported, Phases
<1> QED BY <1>3, <1>4, <1>5 DEF RecorderInv

LEMMA AbortInv == RecorderInv /\ Abort => RecorderInv'
<1> SUFFICES ASSUME RecorderInv, Abort PROVE RecorderInv'
  OBVIOUS
<1>1. TypeOK' /\ ServerNotMisused'
  BY DEF RecorderInv, Abort, TypeOK, ServerNotMisused
<1>2. RecorderAgrees' /\ NoMixedReply'
  BY DEF RecorderInv, Abort, RecorderAgrees, NoMixedReply, Written
<1>3. PanicIsReported' /\ Phases'
  BY DEF Abort, PanicIsReported, Phases
<1> QED BY <1>1, <1>2, <1>3 DEF RecorderInv

\* The 500 is the first thing that goes out, and the text is all of its body.
LEMMA ReplyInv == ASSUME RecorderInv, NEW k \in Sizes, Reply(k) PROVE RecorderInv'
<1> DEFINE r1 == [rec EXCEPT !.size = 0, !.status = 500]
           s1 == [server EXCEPT !.status = 500]
<1>1. Agree(rec, server) /\ phase = "panicking" /\ rec.size = NotWritten
  BY DEF RecorderInv, Reply, Phases, MayReply, Written
<1>2. ~rec.hijacked /\ server.status = None /\ ~server.hijacked /\ server.bytes = 0
  BY <1>1 DEF Agree
<1>3. ServerWriteHeader(server, 500) = s1
  BY <1>2, CodeFacts DEF ServerWriteHeader
<1>4. WriteHeaderOn(rec, server, 500).rec = r1 /\ WriteHeaderOn(rec, server, 500).server = s1
  BY <1>1, <1>2, <1>3, CodeFacts DEF WriteHeaderOn, Pair
<1>5. rec' = WriteOn(r1, s1, k).rec /\ server' = WriteOn(r1, s1, k).server
  BY <1>4 DEF Reply, Set
<1>6. r1.size = 0 /\ ~r1.hijacked /\ s1.status = 500 /\ s1.bytes = 0 /\ ~s1.hijacked
      /\ 0 # NotWritten
  BY <1>1, <1>2 DEF Agree, Recorders, Servers, NotWritten
<1>7. Agree(r1, s1)
  <2>1. 500 \in Codes /\ ~Informational(500)
    BY CodeFacts
  <2>2. \A code \in Codes : ~Informational(code) =>
            Agree([rec EXCEPT !.size = 0, !.status = code], [server EXCEPT !.status = code])
    BY <1>1, <1>2, HeaderAgrees
  <2> QED BY <2>1, <2>2, Zenon
<1>8. k \in Nat
  BY SizesAssumption DEF Sizes
<1> HIDE DEF r1, s1
<1>9. Agree(rec, server)'
  BY <1>5, <1>7, <1>8, WriteAgrees
<1>10. server' = [s1 EXCEPT !.bytes = @ + k]
  <2>1. WriteOn(r1, s1, k).server = ServerWrite(s1, k)
    BY <1>6 DEF WriteOn, Started, Sent, Pair
  <2>2. Accepted(s1, k) = k /\ s1.status # None
    BY <1>6, CodeFacts DEF Accepted
  <2> QED BY <1>5, <1>6, <2>1, <2>2 DEF ServerWrite
<1>11. server'.status = 500 /\ server'.bytes = k /\ ~server'.hijacked
  BY <1>6, <1>7, <1>8, <1>10 DEF Agree, Servers
<1>12. TypeOK'
  BY <1>8, <1>9 DEF RecorderInv, TypeOK, Reply, Agree, Recorders, Servers
<1>13. RecorderAgrees' /\ ServerNotMisused'
  BY <1>9 DEF RecorderAgrees, ServerNotMisused, Agree, Reply
<1>14. NoMixedReply' /\ PanicIsReported' /\ Phases'
  BY <1>11 DEF NoMixedReply, PanicIsReported, Phases, Reply
<1> QED BY <1>12, <1>13, <1>14 DEF RecorderInv

LEMMA NextRequestInv == NextRequest => RecorderInv'
<1> SUFFICES ASSUME NextRequest PROVE RecorderInv'
  OBVIOUS
<1>1. Agree(rec, server)'
  BY CodeFacts DEF NextRequest, Reset, Agree, Fresh, NewServer, Recorders, Servers, NotWritten
<1>2. TypeOK'
  BY <1>1 DEF NextRequest, TypeOK, Agree, Recorders, Servers
<1>3. RecorderAgrees' /\ ServerNotMisused'
  BY <1>1 DEF RecorderAgrees, ServerNotMisused, Agree, Written
<1>4. NoMixedReply' /\ PanicIsReported' /\ Phases'
  BY <1>1 DEF NextRequest, NoMixedReply, PanicIsReported, Phases
<1> QED BY <1>2, <1>3, <1>4 DEF RecorderInv

LEMMA NextInv == RecorderInv /\ [Next]_vars => RecorderInv'
<1> SUFFICES ASSUME RecorderInv, [Next]_vars PROVE RecorderInv'
  OBVIOUS
<1>1. ASSUME NEW code \in Codes, WriteHeader(code) PROVE RecorderInv'
  <2>1. Agree(WriteHeaderOn(rec, server, code).rec, WriteHeaderOn(rec, server, code).server)
    BY <1>1, RunningFacts, WriteHeaderAgrees DEF WriteHeader
  <2> QED BY <1>1, <2>1, CallInv DEF WriteHeader
<1>2. CASE WriteInvalidHeader
  BY <1>2, RunningFacts, OpenInv DEF WriteInvalidHeader
<1>3. ASSUME NEW k \in Sizes, Write(k) PROVE RecorderInv'
  <2>1. k \in Nat
    BY SizesAssumption DEF Sizes
  <2>2. Agree(WriteOn(rec, server, k).rec, WriteOn(rec, server, k).server)
    BY <1>3, <2>1, RunningFacts, WriteAgrees DEF Write
  <2> QED BY <1>3, <2>2, CallInv DEF Write
<1>4. ASSUME NEW n \in Sizes, NEW k \in Sizes, ReadFrom(n, k) PROVE RecorderInv'
  <2>1. n \in Nat /\ k \in Nat
    BY SizesAssumption DEF Sizes
  <2>2. Agree(ReadFromOn(rec, server, n, k).rec, ReadFromOn(rec, server, n, k).server)
    BY <1>4, <2>1, RunningFacts, ReadFromAgrees DEF ReadFrom
  <2> QED BY <1>4, <2>2, CallInv DEF ReadFrom
<1>5. CASE FlushError
  BY <1>5, FlushInv
<1>6. CASE Hijack
  BY <1>6, HijackInv
<1>7. ASSUME NEW v \in {"abort", "broken", "value"}, Panic(v) PROVE RecorderInv'
  BY <1>7, RunningFacts, OpenInv DEF Panic
<1>8. CASE Return
  BY <1>8, RunningFacts, EndInv DEF Return
<1>9. CASE Abort
  BY <1>9, AbortInv
<1>10. CASE GiveUp
  BY <1>10, EndInv DEF GiveUp, ConnIsBroken
<1>11. CASE NextRequest
  BY <1>11, NextRequestInv
<1>12. ASSUME NEW k \in Sizes, Reply(k) PROVE RecorderInv'
  BY <1>12, ReplyInv
<1>13. CASE UNCHANGED vars
  BY <1>13 DEF vars, RecorderInv, TypeOK, RecorderAgrees, ServerNotMisused, NoMixedReply,
               PanicIsReported, Phases, Agree, Written
<1> QED BY <1>1, <1>2, <1>3, <1>4, <1>5, <1>6, <1>7, <1>8, <1>9, <1>10, <1>11, <1>12, <1>13
        DEF Next

\* The inductive invariant holds for every set of codes, buffer and body.
THEOREM RecorderInvariant == Spec => []RecorderInv
<1>1. Init => RecorderInv
  BY InitInv
<1>2. RecorderInv /\ [Next]_vars => RecorderInv'
  BY NextInv
<1> QED BY <1>1, <1>2, PTL DEF Spec

\* The recorder keeps its type.
THEOREM RecorderTypeOK == Spec => []TypeOK
<1>1. RecorderInv => TypeOK
  BY DEF RecorderInv
<1> QED BY <1>1, RecorderInvariant, PTL

\* Status, Written and Size (response_writer.go) tell what the server sent.
THEOREM RecorderTellsTheTruth == Spec => []RecorderAgrees
<1>1. RecorderInv => RecorderAgrees
  BY DEF RecorderInv
<1> QED BY <1>1, RecorderInvariant, PTL

\* The guards on hijacked and size keep the server from a second header and
\* from writes on a connection that was taken over.
THEOREM ServerNeverMisused == Spec => []ServerNotMisused
<1>1. RecorderInv => ServerNotMisused
  BY DEF RecorderInv
<1> QED BY <1>1, RecorderInvariant, PTL

\* The recovery (recovery.go) never adds its error text to a reply.
THEOREM RecoveryNeverMixes == Spec => []NoMixedReply
<1>1. RecorderInv => NoMixedReply
  BY DEF RecorderInv
<1> QED BY <1>1, RecorderInvariant, PTL

\* The recovery answers a panic with 500 or an aborted connection.
THEOREM RecoveryReportsPanics == Spec => []PanicIsReported
<1>1. RecorderInv => PanicIsReported
  BY DEF RecorderInv
<1> QED BY <1>1, RecorderInvariant, PTL
=============================================================================
