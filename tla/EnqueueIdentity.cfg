SPECIFICATION IdSpec
CONSTANTS
    Ids = {a, b}
    Procs = {p1, p2}
    NoId = NoId
    MaxCrashes = 1
    MaxFaults = 1
INVARIANTS IdTypeOK ReservedWhileActive AbandonedHoldsNothing
PROPERTIES IdentityImplementsLifecycle
CHECK_DEADLOCK FALSE
