\* The downloader's lane: two slots.
CONSTANTS
    Callers = {c1, c2, c3, c4}
    Concurrency = 2
    MinGap = 2
SPECIFICATION GateFairSpec
PROPERTIES EveryCallStarts ImplementsSlots
