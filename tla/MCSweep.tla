------------------------------- MODULE MCSweep -------------------------------
EXTENDS Sweep

MCSourceOf ==
    [s \in Series |-> CASE s \in {"a1", "a2"} -> "A" [] s = "b1" -> "B" [] s = "c1" -> "C"]

\* The first series is two chapters behind, the others one.
TwoChapters == [s \in Series |-> IF s = "a1" THEN {1, 2} ELSE {1}]
=============================================================================
