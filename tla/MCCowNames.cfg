\* Names that share prefixes: one writer, one reader or snapshot beside it.  A cache
\* of two nodes overflows.
CONSTANTS
    Routes <- NameRoutes
    Families <- NameFamilies
    MaxUint = 99
    CacheSize = 2
    Writers = {w}
    Readers = {r}
SPECIFICATION Spec
INVARIANTS WritableIsPrivate SearchFinds
PROPERTIES ImplementsRouterTxn
