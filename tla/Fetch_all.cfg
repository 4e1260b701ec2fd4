CONSTANTS
    NPages = 3
    MaxResumes = 3
    NearPct = 60
    EmptyPct = 30
    Answers <- EveryAnswer
    Declared = {0, 2, 3, 4}
SPECIFICATION FetchFairSpec
INVARIANTS WholeOrNothing RateLimitsAreWaitedOut SilentRefusalNotAskedTwice OutageIsNotARefusal BlockIsReported
PROPERTIES Terminates
