\* Hostnames of up to four pieces, paths of up to five, and rarer text between two.
CONSTANTS
    Raws <- MCRaws
    MaxParams = 3
    MaxParamKeyBytes = 2
    MaxLabel = 2
    MaxHost = 4
    Routers <- MCRouters
    Refused <- MCRefused
SPECIFICATION Spec
INVARIANTS TokensFit PathReaches
CHECK_DEADLOCK FALSE
