------------------------------ MODULE Recorder ------------------------------
(***************************************************************************)
(* The response recorder of a context (response_writer.go) between a        *)
(* handler and the server's writer, and the recovery middleware that asks   *)
(* it whether a reply can still be sent (recovery.go).  One action per call *)
(* of the handler.  The recorder is pooled with its context, so a new       *)
(* request finds the recorder of an earlier one and resets it.              *)
(*                                                                          *)
(* The server's writer is net/http's, modelled by how the recorder uses it: *)
(*   status   the final status sent, None before                            *)
(*   bytes    the body bytes it accepted                                    *)
(*   hijacked the connection was taken over                                 *)
(*   misused  it was called in a way it only logs and ignores               *)
(***************************************************************************)
EXTENDS Integers

CONSTANTS Codes,       \* the valid status codes a handler sends
          CopyBuf,     \* copyBufPoolSize
          MaxBody      \* bound on the bytes a handler sends

ASSUME CodesAssumption == Codes \subseteq 100 .. 999 /\ 200 \in Codes /\ 500 \in Codes
ASSUME SizesAssumption == CopyBuf \in Nat \ {0} /\ MaxBody \in Nat

VARIABLES rec,        \* the recorder: size, status, hijacked
          server,     \* the server's writer
          writer,     \* the interfaces it implements: readerFrom, flusher, hijacker
          phase,      \* running, panicking, done or aborted
          panicked,   \* what the handler panicked with, "no" if it did not
          errorBody   \* bytes of error text the recovery sent, NotWritten if none

vars == <<rec, server, writer, phase, panicked, errorBody>>

NotWritten == -1
None == 0

Fresh     == [size |-> NotWritten, status |-> 200, hijacked |-> FALSE]
NewServer == [status |-> None, bytes |-> 0, hijacked |-> FALSE, misused |-> FALSE]
Writers   == [readerFrom : BOOLEAN, flusher : BOOLEAN, hijacker : BOOLEAN]

Written == rec.size # NotWritten

Informational(code) == code \in 100 .. 199 /\ code # 101
BodyAllowed(code)   == code \notin 100 .. 199 \cup {204, 304}

-----------------------------------------------------------------------------
(* The server's writer *)

ServerWriteHeader(s, code) ==
    IF s.hijacked \/ s.status # None THEN [s EXCEPT !.misused = TRUE]
    ELSE IF Informational(code) THEN s
    ELSE [s EXCEPT !.status = code]

\* Body bytes that go out of k: none behind a status that has no body.
Accepted(s, k) == IF BodyAllowed(s.status) THEN k ELSE 0

\* The first k bytes are accepted, after a header if there was none.
ServerWrite(s, k) ==
    IF s.hijacked THEN [s EXCEPT !.misused = TRUE]
    ELSE IF s.status = None THEN [s EXCEPT !.status = 200, !.bytes = @ + k]
    ELSE [s EXCEPT !.bytes = @ + Accepted(s, k)]

\* A flush, and the end of the handler, send the header.
ServerCommit(s) == IF s.status = None /\ ~s.hijacked THEN [s EXCEPT !.status = 200] ELSE s

-----------------------------------------------------------------------------
(* The recorder *)

\* The state of both after a call: [rec, server].
Pair(r, s) == [rec |-> r, server |-> s]

WriteHeaderOn(r, s, code) ==
    IF r.hijacked \/ r.size # NotWritten THEN Pair(r, s)
    ELSE IF Informational(code) THEN Pair(r, ServerWriteHeader(s, code))
    ELSE Pair([r EXCEPT !.size = 0, !.status = code], ServerWriteHeader(s, code))

\* The header of a Write that comes first.
Started(r, s) ==
    IF r.size # NotWritten THEN Pair(r, s)
    ELSE Pair([r EXCEPT !.size = 0], ServerWriteHeader(s, r.status))

Sent(p, k) ==
    Pair([p.rec EXCEPT !.size = @ + Accepted(p.server, k)], ServerWrite(p.server, k))

\* Mutant of WriteOn: a hijacked connection is written to.
WriteOnHijacked(r, s, k) == Sent(Started(r, s), k)

\* Write and WriteString: k bytes are accepted.
WriteOn(r, s, k) == IF r.hijacked THEN Pair(r, s) ELSE Sent(Started(r, s), k)

\* ReadFrom of a source with n bytes, k of them accepted: the first ones go
\* through Write, so that a source without data sends no header; the server
\* copies the rest if it can and the buffer was full.
ReadFromOn(r, s, n, k) ==
    IF r.hijacked \/ n = 0 THEN Pair(r, s)
    ELSE IF ~writer.readerFrom THEN WriteOn(r, s, k)
    ELSE IF r.size # NotWritten THEN Sent(Pair(r, s), k)
    ELSE IF k < CopyBuf THEN WriteOn(r, s, k)
    ELSE Sent(WriteOn(r, s, CopyBuf), k - CopyBuf)

Set(p) == rec' = p.rec /\ server' = p.server

-----------------------------------------------------------------------------
(* The calls of a handler *)

Init ==
    /\ rec = Fresh
    /\ server = NewServer
    /\ writer \in Writers
    /\ phase = "running"
    /\ panicked = "no"
    /\ errorBody = NotWritten

WriteHeader(code) ==
    /\ phase = "running"
    /\ Set(WriteHeaderOn(rec, server, code))
    /\ UNCHANGED <<writer, phase, panicked, errorBody>>

\* The server panics on a code it does not know, before anything is recorded.
WriteInvalidHeader ==
    /\ phase = "running"
    /\ ~rec.hijacked /\ ~Written
    /\ phase' = "panicking"
    /\ panicked' = "value"
    /\ UNCHANGED <<rec, server, writer, errorBody>>

Write(k) ==
    /\ phase = "running"
    /\ server.bytes + k <= MaxBody
    /\ Set(WriteOn(rec, server, k))
    /\ UNCHANGED <<writer, phase, panicked, errorBody>>

ReadFrom(n, k) ==
    /\ phase = "running"
    /\ k <= n /\ server.bytes + n <= MaxBody
    /\ Set(ReadFromOn(rec, server, n, k))
    /\ UNCHANGED <<writer, phase, panicked, errorBody>>

\* Mutant of FlushError: the header the server sends is not recorded.
FlushUnrecorded ==
    /\ phase = "running"
    /\ writer.flusher
    /\ server' = ServerCommit(server)
    /\ UNCHANGED <<rec, writer, phase, panicked, errorBody>>

\* The header is sent first; without a flusher nothing happens.
FlushError ==
    /\ phase = "running"
    /\ writer.flusher
    /\ LET p == IF Written THEN Pair(rec, server) ELSE WriteHeaderOn(rec, server, rec.status)
       IN  Set(Pair(p.rec, ServerCommit(p.server)))
    /\ UNCHANGED <<writer, phase, panicked, errorBody>>

\* Fails on a writer that cannot be hijacked, or was.
Hijack ==
    /\ phase = "running"
    /\ writer.hijacker /\ ~server.hijacked
    /\ rec' = [rec EXCEPT !.hijacked = TRUE, !.size = 0]
    /\ server' = [server EXCEPT !.hijacked = TRUE]
    /\ UNCHANGED <<writer, phase, panicked, errorBody>>

\* The handler panics: with http.ErrAbortHandler, with the error of a broken
\* connection, or with anything else.
Panic(v) ==
    /\ phase = "running"
    /\ phase' = "panicking"
    /\ panicked' = v
    /\ UNCHANGED <<rec, server, writer, errorBody>>

Return ==
    /\ phase = "running"
    /\ server' = ServerCommit(server)
    /\ phase' = "done"
    /\ UNCHANGED <<rec, writer, panicked, errorBody>>

-----------------------------------------------------------------------------
(* recovery *)

\* ErrAbortHandler goes through; when a reply was started the connection is
\* aborted, so that the client does not take it for a complete one.
Abort ==
    /\ phase = "panicking"
    /\ panicked = "abort" \/ Written
    /\ phase' = "aborted"
    /\ UNCHANGED <<rec, server, writer, panicked, errorBody>>

\* Mutant of MayReply: the recorder is not asked.
MayReplyAlways == panicked # "abort"

\* Mutant of ConnIsBroken: any error counts.
AnyError(v) == v # "abort"

ConnIsBroken(v) == v = "broken"

MayReply == panicked # "abort" /\ ~Written

\* DefaultRecoveryFunc: http.Error sends 500 and k bytes of text.
Reply(k) ==
    /\ phase = "panicking"
    /\ MayReply /\ ~ConnIsBroken(panicked)
    /\ LET p == WriteHeaderOn(rec, server, 500) IN Set(WriteOn(p.rec, p.server, k))
    /\ phase' = "done"
    /\ errorBody' = k
    /\ UNCHANGED <<writer, panicked>>

GiveUp ==
    /\ phase = "panicking"
    /\ MayReply /\ ConnIsBroken(panicked)
    /\ server' = ServerCommit(server)
    /\ phase' = "done"
    /\ UNCHANGED <<rec, writer, panicked, errorBody>>

-----------------------------------------------------------------------------
(* The context goes back to the pool and serves another request. *)

Reset == Fresh

NextRequest ==
    /\ phase \in {"done", "aborted"}
    /\ rec' = Reset
    /\ server' = NewServer
    /\ writer' \in Writers
    /\ phase' = "running"
    /\ panicked' = "no"
    /\ errorBody' = NotWritten

Sizes == 0 .. MaxBody

Next ==
    \/ \E code \in Codes : WriteHeader(code)
    \/ WriteInvalidHeader
    \/ \E k \in Sizes : Write(k)
    \/ \E n, k \in Sizes : ReadFrom(n, k)
    \/ FlushError \/ Hijack
    \/ \E v \in {"abort", "broken", "value"} : Panic(v)
    \/ Return \/ Abort \/ GiveUp \/ NextRequest
    \/ \E k \in Sizes : Reply(k)

Spec == Init /\ [][Next]_vars

-----------------------------------------------------------------------------
(* Properties *)

TypeOK ==
    /\ rec \in [size : Nat \cup {NotWritten}, status : Codes, hijacked : BOOLEAN]
    /\ server \in [status : Codes \cup {None}, bytes : Nat, hijacked : BOOLEAN,
                   misused : BOOLEAN]
    /\ writer \in Writers
    /\ phase \in {"running", "panicking", "done", "aborted"}
    /\ panicked \in {"no", "abort", "broken", "value"}
    /\ errorBody \in Nat \cup {NotWritten}

\* What Written, Status and Size tell is what went out, at every moment between
\* two calls of the handler: the recovery and the logger decide on it.
RecorderAgrees ==
    /\ rec.hijacked = server.hijacked
    /\ phase \in {"running", "panicking"} /\ ~rec.hijacked =>
          /\ Written <=> server.status # None
          /\ Written => rec.status = server.status /\ rec.size = server.bytes

\* The server is never asked for a second header, nor for anything but a flush
\* on a connection that was taken over.
ServerNotMisused == ~server.misused

\* The error text of the recovery is never appended to a reply that a handler
\* started, nor sent on a hijacked connection, and its status is 500.
NoMixedReply ==
    errorBody # NotWritten =>
        server.status = 500 /\ server.bytes = errorBody /\ ~server.hijacked

\* A request whose handler panicked with a value is not answered as a success:
\* the client gets the 500 or sees the connection abort.
PanicIsReported == phase = "done" /\ panicked = "value" => server.status = 500
=============================================================================
