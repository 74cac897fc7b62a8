CONSTANTS
    LockedProjects = {"p", "q"}
    ConcurrentWriters = 1
    MaxFaults = 2
SPECIFICATION FairSpec
INVARIANTS TypeOK AllOrNothing OriginalsSurvive TreeIsAllOrNothing ErrorIsTheCause
PROPERTIES WriteEnds
