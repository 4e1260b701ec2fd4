SPECIFICATION FairSpec
CONSTANTS
    Refreshers = {"tab1", "tab2"}
    MaxTokens = 3
    Grace = 3
    Latency = 1
INVARIANTS DeviceStaysSignedIn EndMeansEnd
PROPERTIES EndIsNoticed
