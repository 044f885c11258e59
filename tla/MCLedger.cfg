SPECIFICATION Spec
CONSTANTS
    j1 = j1
    j2 = j2
    Lots = {1, 2, 3, 4, 5, 6}
    LotKind <- Kinds
    Size <- Sizes
    Opens <- Starts
    Closes <- Early
    Jobs = {j1, j2}
    Need <- Needs
    Capped = {j2}
    Stoppable = {j2}
    Comp <- Comps
    Requests = {pack}
    Funds <- Funding
    Upgrades = {}
    MaxTime = 2
    MaxCost = 3
    MaxTopUp = 1
INVARIANTS Conserved ChargedAsConfirmed NothingReserved
CHECK_DEADLOCK FALSE
