-------------------------------- MODULE Fill --------------------------------
(***************************************************************************)
(* bff/src/lib/fill.ts: the pure decisions behind filling the holes of a   *)
(* series from some source.  A chapter number is a whole number of halves, *)
(* so 25 is chapter 12.5, which is as much of a fraction as the decisions  *)
(* tell apart; a set of numbers is a library's or a source's list.         *)
(***************************************************************************)
EXTENDS Naturals, FiniteSets

CONSTANTS Libraries, Lists    \* the ones the decisions are checked for

MIN_HAVE == 3           \* and MIN_COVERAGE is 0.9

Whole(numbers) == {n \div 2 : n \in numbers}
Fraction(n) == n % 2 = 1

\* The holes between two neighbours of a list of whole numbers.
Holes(whole) ==
    {[lo |-> ab[1] + 1, hi |-> ab[2] - 1] :
        ab \in {p \in whole \X whole : p[1] + 1 < p[2] /\ whole \cap (p[1] + 1 .. p[2] - 1) = {}}}

\* Mutant: a fraction breaks the run, and the chapter it stands for looks missing.
gapsOfUnfloored(have) == Holes(Whole({n \in have : ~Fraction(n)}))

\* gapsOf: whole numbers only.
gapsOf(have) == Holes(Whole(have))

\* assess: how much of what is held the source also lists, what it could put
\* into the holes whose two brackets it has, and what it has beyond them.
assess(have, theirs) ==
    LET ours == Whole(have)
        them == Whole(theirs)
        sound == {g \in gapsOf(have) : g.lo - 1 \in them /\ g.hi + 1 \in them}
    IN  [held |-> Cardinality(ours),
         matched |-> Cardinality(ours \cap them),
         fillable |-> UNION {(g.lo .. g.hi) \cap them : g \in sound},
         newer |-> {n \in them : \A m \in have : m < 2 * n}]

\* verdict, and the route's refusal of a library too small to judge by.
verdict(have, theirs) ==
    LET a == assess(have, theirs) IN
    CASE Cardinality(have) < MIN_HAVE -> "too_few"
      [] theirs = {} -> "no_chapters"
      [] 10 * a.matched < 9 * a.held -> "numbering_mismatch"
      [] a.fillable = {} -> "nothing_to_fill"
      [] OTHER -> "ok"

Offered(have, theirs) == LET a == assess(have, theirs) IN a.fillable \cup a.newer

\* authorise: the chapters of the plan a request for these numbers may fetch;
\* none when it is refused.
authorise(have, theirs, numbers) ==
    IF verdict(have, theirs) = "ok" /\ numbers \subseteq Offered(have, theirs)
    THEN {c \in theirs : \E n \in numbers : c = 2 * n}
    ELSE {}

-----------------------------------------------------------------------------
\* fill.ts:8-12 and :85-87: a chapter fetched from the wrong series "lands
\* exactly where the right one should be".  A chapter that is authorised has
\* a number the library lacks, and lies beyond it or between the two held
\* chapters next to the hole, both of which the source lists as well.
Repairs(have, theirs) ==
    LET ours == Whole(have)
        both == ours \cap Whole(theirs)
    IN  \A n \in Whole(theirs) : \A c \in authorise(have, theirs, {n}) :
            /\ c = 2 * n /\ n \notin ours
            /\ \/ \A m \in have : m < c
               \/ \E a \in both, b \in both : a < n /\ n < b /\ ours \cap (a + 1 .. b - 1) = {}

\* fill.ts:130-131, "a fill can only ever do what a person was shown": and
\* what was shown can be done, from a source that numbers its chapters with
\* whole numbers.
Keeps(have, theirs) ==
    verdict(have, theirs) = "ok" /\ ~(\E c \in theirs : Fraction(c)) =>
        \A n \in Offered(have, theirs) : authorise(have, theirs, {n}) = {2 * n}

\* Both, for every library and every list.
DecisionsAreSound == \A have \in Libraries, theirs \in Lists : Repairs(have, theirs) /\ Keeps(have, theirs)
=============================================================================
