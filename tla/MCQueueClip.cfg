SPECIFICATION Spec
CONSTANTS
    clip = clip
    other = other
    Jobs = {clip}
    Workers = {w1}
    Keys = {k1, k2}
    Kind <- ClipAndPlain
    Subject <- Apart
    NoJob = NoJob
    MaxBoots = 2
    MaxFaults = 1
INVARIANTS TypeOK StopDecides SettledAsEnded SoleOwner StopReachesHandler
PROPERTIES HandoffSurvives ImplementsLifecycle
CHECK_DEADLOCK FALSE
