\* Redirects in every pair of normalisation modes; 405 and OPTIONS over routes that share paths.
CONSTANTS
    Accepts <- NoAccepts
    Scenarios <- MCScenarios
    Methods <- MCMethods
    MaxTries = 2
SPECIFICATION Spec
INVARIANTS ContextFits CallerRequestKept HandlerSeesMatchedPath RedirectsLead AllowedIsHandled OthersAreNotServed
CHECK_DEADLOCK FALSE
