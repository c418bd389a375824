\* All trees of up to three of the routes with a path only, of those with a hostname and
\* of those with nested wildcards in the hostname; up to two with nested wildcards in the path.
CONSTANTS
    Routes <- MCRoutes
    MaxUint = 99
    CacheSize = 64
    MaxClosure = 3
    Accepts <- MCAccepts
    Prog <- MCProg
    Scenarios <- MCScenarios
SPECIFICATION Spec
INVARIANTS StackDiscipline LookupPreferred MemoSound
PROPERTIES LookupTerminates
