CONSTANTS
    Loops = {sweep, fill}
    MaxWrites = 2
    MaxCrashes = 2
SPECIFICATION FileFairSpec
INVARIANTS EntirelyThereOrNot
PROPERTIES ChapterStays HalfWritesAreReaped
