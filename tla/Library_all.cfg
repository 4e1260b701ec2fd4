CONSTANTS
    lib = lib  dl = dl  f1 = f1  f2 = f2  f3 = f3  c1 = c1  s1 = s1  s2 = s2
    Folders = {f1, f2, f3}
    Roots = {lib, dl}
    DlRoot = dl
    Chapters = {c1}
    Scanners = {s1, s2}
    InitialFiles <- OneEach
    Reading <- OneChapter
    MaxChanges = 2
SPECIFICATION Spec
INVARIANTS TypeOK ScanShelvesEverything ReadStaysWithItsSeries
PROPERTY RenamesKnownRootsOrNone
SYMMETRY ScansAlike
