SPECIFICATION Spec
CONSTANTS
    Runs = {r1, r2}
    Segments = 2
    MaxBoots = 2
INVARIANTS TypeOK PaidOnce DoneIsComplete
PROPERTIES BootClosesCalls
CHECK_DEADLOCK FALSE
