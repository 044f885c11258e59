SPECIFICATION RefundSpec
CONSTANTS
    Lots = {1, 5, 6}
    LotKind <- Kinds
    Size <- Sizes
    Opens <- Starts
    Closes <- Ends
    Jobs = {j2}
    Need <- Needs
    Capped = {}
    Stoppable = {}
    Comp <- Comps
    Requests = {first, again}
    Funds <- Funding
    Upgrades = {first, again}
    MaxTime = 2
    MaxCost = 0
    MaxTopUp = 1
    Ops = {o1, o2}
    Price = 2
INVARIANTS RefundTypeOK RefundedOnce CompletedOnOwnCancel MoneyFreezesCredits
PROPERTIES FrozenStill KeepsPromise
SYMMETRY AnyOp
CHECK_DEADLOCK FALSE
