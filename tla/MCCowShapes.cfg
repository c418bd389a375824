\* One writer over four families of routes: splits and merges, params, hostnames,
\* and leaves of several routes.  A cache of two nodes overflows.
CONSTANTS
    Routes <- ShapeUnion
    Families <- ShapeFamilies
    MaxUint = 99
    CacheSize = 2
    Writers = {w}
    Readers = {}
SPECIFICATION Spec
INVARIANTS RadixShape LeafOrdered SearchFinds
PROPERTIES ImplementsRouterTxn
