SPECIFICATION Spec
CONSTANTS
    Series = {"a1"}
    Sources = {"A"}
    SourceOf <- MCSourceOf
    Installed = {"A"}
    ChaptersOf <- TwoChapters
    MaxNew = 2
    SweepMax = 2
    RetryCap = 2
    CheckMax = 1
    Publishes = FALSE
    Hideable = {"a1"}
    Filled = {"a1"}
    DbFails = TRUE
    Restarts = 1
INVARIANTS CappedLeftAlone SweepShelvesItsChapters
