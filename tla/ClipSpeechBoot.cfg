SPECIFICATION FairSpec
CONSTANTS
    Runs = {r1}
    Segments = 1
    MaxBoots = 1
PROPERTIES UnactivatedEndsAtBoot
CHECK_DEADLOCK FALSE
