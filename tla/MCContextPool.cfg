\* Three contexts, two requests, a tree published in between.
CONSTANTS
    Ctxs = {c1, c2, c3}
    Reqs = {r1, r2}
    Routes = {a}
    MaxTree = 1
    MaxSteps = 5
    Nil = Nil
SYMMETRY Symmetry
SPECIFICATION Spec
INVARIANTS OneOwner ContextIsMine QueriesFit WritesToOwnResponse
CHECK_DEADLOCK FALSE
