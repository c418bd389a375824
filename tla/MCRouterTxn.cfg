\* Two writers racing for the lock and one reader, over routes that conflict,
\* shadow each other and compete for names.
CONSTANTS
    Routes <- MCRoutes
    MaxUint = 9
    Writers = {w1, w2}
    Readers = {r}
SPECIFICATION FairSpec
INVARIANTS WriterExclusion TablesConsistent
PROPERTIES NoLostUpdate WriterProgress
