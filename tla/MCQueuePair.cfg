SPECIFICATION Spec
CONSTANTS
    clip = clip
    other = other
    Jobs = {clip, other}
    Workers = {w1, w2}
    Keys = {k1}
    Kind <- ClipAndTest
    Subject <- Together
    NoJob = NoJob
    MaxBoots = 1
    MaxFaults = 1
INVARIANTS NoStrandedHold HeldWhileActive
PROPERTIES BootClosesHolds
CHECK_DEADLOCK FALSE
