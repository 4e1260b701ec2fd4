SPECIFICATION Spec
CONSTANTS
    Long = Long
    Short = Short
    Series = {Long, Short}
    NoSeries = NoSeries
    Top <- MCTop
    Pushes = {x, y}
    MaxUpsets = 2
SYMMETRY AnyPush
INVARIANTS SilenceMeansSynced LaneIsSound FloorWasTaken
