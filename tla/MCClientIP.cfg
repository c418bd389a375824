\* Two clients, up to two proxies, and values of up to three pieces before them.
CONSTANTS
    Addresses <- MCAddresses
    Unspecified = {"o"}
    IPv6 = {"d", "q"}
    Clients = {"c", "d"}
    Proxies = {"q"}
    Unknown = "unknown"
    Headers <- MCHeaders
    Written <- MCWritten
    Resolvers <- MCResolvers
    TrustedRanges = {"p"}
    MaxProxies = 2
SPECIFICATION ClientIPSpec
INVARIANTS AnswerIsClient AnswerIsAPeer
CHECK_DEADLOCK FALSE
