-------------------------------- MODULE MCJobs --------------------------------
EXTENDS Jobs

\* Every library and every list over chapters 1, 2, 2.5, 3, 4; and a long
\* library with a hole, against lists that lack one of its chapters, where
\* nine in ten still match.
Short == SUBSET {2, 4, 5, 6, 8}
To13 == {2 * n : n \in 1 .. 13}
MCLibraries == Short \cup {To13 \ {2 * n, 26} : n \in 5 .. 7}
MCLists == Short \cup {To13 \ {2 * n} : n \in 1 .. 13}

\* An add of either kind, and two fills.
MCMayBe == [r \in Requests |-> IF r = "r1" THEN {"add", "addAwaited"} ELSE {"fill"}]
=============================================================================
