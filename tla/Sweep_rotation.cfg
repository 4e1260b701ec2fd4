SPECIFICATION FairSpec
CONSTANTS
    Series = {"a1", "a2", "b1", "c1"}
    Sources = {"A", "B", "C"}
    SourceOf <- MCSourceOf
    Installed = {"A", "B"}
    ChaptersOf <- TwoChapters
    MaxNew = 2
    SweepMax = 2
    RetryCap = 1
    CheckMax = 0
    Publishes = TRUE
    Hideable = {}
    Filled = {}
    DbFails = FALSE
    Restarts = 0
INVARIANTS TypeOK BudgetHeld NoKnockAfterRefusal OnlyParkedLeftOut SweepShelvesItsChapters
PROPERTIES SweepEnds EverySeriesGetsItsTurn
