SPECIFICATION FairSpec
CONSTANTS
    j1 = j1
    j2 = j2
    Lots = {1, 2, 3, 5}
    LotKind <- Kinds
    Size <- Sizes
    Opens <- Starts
    Closes <- Ends
    Jobs = {j2}
    Need <- Needs
    Capped = {}
    Stoppable = {}
    Comp <- Comps
    Requests = {pack}
    Funds <- Funding
    Upgrades = {}
    MaxTime = 2
    MaxCost = 3
    MaxTopUp = 0
PROPERTIES RevokedStaysVoid
CHECK_DEADLOCK FALSE
