SPECIFICATION FairSpec
CONSTANTS
    clip = clip
    other = other
    Jobs = {clip, other}
    Workers = {w1}
    Keys = {k1, k2}
    Kind <- ClipAndPlain
    Subject <- Apart
    NoJob = NoJob
    MaxBoots = 1
    MaxFaults = 0
PROPERTIES StopHonoured DispatchedEnds HoldsClosed
CHECK_DEADLOCK FALSE
