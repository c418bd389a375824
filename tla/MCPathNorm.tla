----------------------------- MODULE MCPathNorm -----------------------------
(* Small instances of PathNorm. *)
EXTENDS PathNorm

CONSTANTS MaxLen,      \* length of the longest path of arbitrary characters
          MaxElements  \* elements of the longest path of segments

MCPaths ==
    UNION {[1 .. k -> {"/", ".", "a"}] : k \in 0 .. MaxLen} \cup
    {FlattenSeq(es) : es \in UNION {[1 .. k -> {<<"/">>, <<"/", "a">>, <<"/", ".", ".">>}] :
                                       k \in 1 .. MaxElements}}
=============================================================================
