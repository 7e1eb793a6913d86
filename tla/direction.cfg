SPECIFICATION Spec
CONSTANTS
    d1 = d1
    d2 = d2
    d3 = d3
    r1 = r1
    r2 = r2
    Ids = {d1, d2, d3}
    Requests = {r1, r2}
    Hours = {1, 2}
INVARIANTS TypeOK ChainLinear FirstClaimsFit ClaimsKeepOrigin
PROPERTIES PlanAppendOnly ClaimsLandOnActive
SYMMETRY Symmetry
CHECK_DEADLOCK FALSE
