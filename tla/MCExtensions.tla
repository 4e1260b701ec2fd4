------------------------------ MODULE MCExtensions ------------------------------
EXTENDS Extensions

\* The first repository has the extensions and the other has none; the first
\* one's URL has the second for its other form.
MCOffers == [r \in Repos |-> IF r = "r1" THEN Pkgs ELSE {}]
MCForms == [r \in Repos |-> "r2"]
=============================================================================
