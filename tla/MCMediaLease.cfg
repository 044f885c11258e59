SPECIFICATION Spec
CONSTANTS
    Stages = {1, 2}
    Renders = {1, 2}
    Workers = {w1, w2}
    Active = 1
    Limit <- Tries
    Stoppable = {1}
    TTL = 2
    Wait = 1
    Deadline = 3
    Retry = 1
    MaxTime = 3
    MaxMishaps = 1
INVARIANTS TypeOK ExecutorHoldsLease
PROPERTIES ImplementsHandoff DeadlineTells
SYMMETRY AnyWorker
