\* Params and wildcards in the middle of a segment, next to a static leaf.
CONSTANTS
    Routes <- GluedRoutes
    MaxUint = 99
    CacheSize = 64
    MaxClosure = 3
    Accepts <- MCAccepts
    Prog <- MCProg
    Scenarios <- GluedScenarios
SPECIFICATION Spec
INVARIANTS SlashKeepsPriority
