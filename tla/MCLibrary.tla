----------------------------- MODULE MCLibrary -----------------------------
(* The library for TLC: one chapter to a folder.                           *)
EXTENDS Library, TLC

CONSTANTS lib, dl, f1, f2, f3, c1, s1, s2

\* A series in each root.
OneEach == {<<lib, f1, c1>>, <<dl, f2, c1>>}

\* The chapter whose progress is followed.
OneChapter == {<<lib, f1, c1>>}

\* Two scans are alike.
ScansAlike == Permutations(Scanners)
=============================================================================
