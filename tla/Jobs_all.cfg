SPECIFICATION FairSpec
CONSTANTS
    Requests = {"r1", "r2", "r3"}
    MayBe <- MCMayBe
    Folders = {"f"}
    Chapters = {1, 2}
    Libraries <- MCLibraries
    Lists <- MCLists
INVARIANTS CardsTellTheTruth FillIsRepair
PROPERTIES BusyIsRespected JobsEnd
CHECK_DEADLOCK FALSE
