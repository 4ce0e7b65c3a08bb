SPECIFICATION FairSpec
CONSTANTS
    w1 = w1  r1 = r1  r2 = r2
    NoCommand = NoCommand
    Commands = {w1, r1, r2}
    Writes = {w1}
    Dl <- Lengths
    NTags = 2
    RetryDepth = 3
    JailDepth = 4
    FailCodes = {2, 4, 14}
    MaxFaults = 2
INVARIANTS TagsConserved OwnCommand InStep OwnAnswer
PROPERTIES MemoryImplemented AnsweredUnlessJailed
CHECK_DEADLOCK FALSE
