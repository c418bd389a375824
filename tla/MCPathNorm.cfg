\* Every path of up to six characters or five segments, and every pair of options.
CONSTANTS
    Bytes = {"/", ".", "a", "0"}
    Paths <- MCPaths
    MaxLen = 6
    MaxElements = 5
SPECIFICATION FairSpec
INVARIANTS WritesBehind ChangeShortens NormalizesAsReference NormalFormIsStable
PROPERTIES Terminates
CHECK_DEADLOCK FALSE
