SPECIFICATION Spec
CONSTANTS
    Cands = {c1, c2}
    MaxAttempts = 2
    Requests = {d1}
    MaxMishaps = 1
SYMMETRY CandSymmetry
INVARIANTS TypeOK SettledIsFinal ReviewIsComplete NoOrphanRun
PROPERTIES ClosedStaysClosed BootSettles
CHECK_DEADLOCK FALSE
