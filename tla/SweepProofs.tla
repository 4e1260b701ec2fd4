----------------------------- MODULE SweepProofs -----------------------------
(***************************************************************************)
(* For any library, any sources and any limits, with a series check        *)
(* running beside the sweep: a sweep's attempts stay within its budget, a  *)
(* chapter is not attempted for ever, a source that has refused the sweep  *)
(* is left alone while it cools down, only the series of parked sources    *)
(* are left out, and what was downloaded ends up as books.                 *)
(***************************************************************************)
EXTENDS Sweep, FiniteSetTheorems, WellFoundedInduction, TLAPS

\* The fields of the two calls and of the sweep's locals.
Fields(r) == [step |-> r.step, series |-> r.series, max |-> r.max, todo |-> r.todo, blind |-> r.blind, added |-> r.added,
              failed |-> r.failed, outcome |-> r.outcome, full |-> r.full]

CallShape == worker = [w \in Workers |-> Fields(worker[w])]

Locals(r) == [phase |-> r.phase, rows |-> r.rows, keys |-> r.keys, queue |-> r.queue, pass |-> r.pass, parked |-> r.parked,
              progressed |-> r.progressed, spent |-> r.spent, added |-> r.added, stopped |-> r.stopped]

SweepShape == sweep = Locals(sweep)

Counts ==
    /\ \A w \in Workers : worker[w].max \in Nat /\ worker[w].added \in Nat /\ worker[w].failed \in Nat
    /\ sweep.spent \in Nat

\* A ledger gives every chapter a number.
IsLedger(L) ==
    /\ L = [s \in Series |-> [n \in ChaptersOf[s] |-> L[s][n]]]
    /\ \A s \in Series : \A n \in ChaptersOf[s] : L[s][n] \in Nat

LedgerType == IsLedger(attempts) /\ IsLedger(retried)

Asking(w) == worker[w].step \in {"list", "loop", "fetch"}
Working(w) == worker[w].step \in {"loop", "fetch"}

\* A call that asks its source for anything is about a series of the library
\* and of an installed source, and works on chapters of that series.
CallsAreRouted ==
    \A w \in Workers :
        /\ Asking(w) => worker[w].series \in Series /\ Src(w) \in Sources
        /\ Working(w) => worker[w].todo \subseteq ChaptersOf[worker[w].series]
        /\ worker[w].step = "fetch" => worker[w].todo # {}

\* What a call has attempted, with what it still may, is within its maxNew.
WithinMax ==
    \A w \in Workers :
        /\ worker[w].step \in {"idle", "begin", "list"} => worker[w].added = 0 /\ worker[w].failed = 0
        /\ Working(w) => worker[w].added + worker[w].failed + Cardinality(worker[w].todo) <= worker[w].max
        /\ worker[w].added + worker[w].failed <= worker[w].max

\* The sweep's call is under way in phase "call" only, with what is left of
\* the budget for its maxNew.
CallWithinBudget ==
    /\ sweep.spent <= SweepMax
    /\ IF sweep.phase = "call" THEN sweep.spent + worker["sweep"].max <= SweepMax
                               ELSE worker["sweep"].step = "idle"

\* 1 while w has read the ledger below the cap and not yet attempted (s, n).
Pending(w, s, n) ==
    IF Working(w) /\ ~worker[w].blind /\ worker[w].series = s /\ n \in worker[w].todo THEN 1 ELSE 0

\* The ledger below the cap has all that was noted by calls that read it.
NothingHidden == \A s \in Series : \A n \in ChaptersOf[s] : attempts[s][n] < RetryCap => retried[s][n] <= attempts[s][n]

\* Each caller may add one attempt to a ledger that was read below the cap.
LedgerCounts ==
    /\ NothingHidden
    /\ \A s \in Series : \A n \in ChaptersOf[s] :
           retried[s][n] + Pending("sweep", s, n) + Pending("check", s, n) <= RetryCap + 1

IInv ==
    /\ CallShape /\ SweepShape /\ Counts /\ LedgerType
    /\ CallsAreRouted /\ WithinMax /\ CallWithinBudget /\ LedgerCounts
    /\ visible \subseteq Series
    /\ refused \subseteq blocked
    /\ NoKnockAfterRefusal

-----------------------------------------------------------------------------
(* Lemmas on sets of chapters *)

\* The smallest of a nonempty set of numbers is in it.
LEMMA MinInSet ==
    ASSUME NEW S \in SUBSET Nat, S # {}
    PROVE  Min(S) \in S /\ \A y \in S : Min(S) <= y
<1> DEFINE Less == {p \in Nat \X Nat : p[1] < p[2]}
<1>1. IsWellFoundedOn(Less, Nat)
  BY NatLessThanWellFounded DEF OpToRel
<1>2. PICK x \in S : \A y \in S : <<y, x>> \notin Less
  <2> HIDE DEF Less
  <2> QED BY <1>1, WFMin
<1>3. ASSUME NEW y \in S
      PROVE  x <= y
  <2>1. <<y, x>> \in Nat \X Nat /\ ~(y < x)
    BY <1>2
  <2> QED BY <2>1
<1> QED BY <1>3 DEF Min

\* The first k are k at most: the largest of them has fewer than k before it.
LEMMA OldestBounded ==
    ASSUME NEW S \in SUBSET Nat, IsFiniteSet(S), NEW k \in Nat
    PROVE  /\ Oldest(S, k) \subseteq S
           /\ IsFiniteSet(Oldest(S, k))
           /\ Cardinality(Oldest(S, k)) <= k
<1> DEFINE T == Oldest(S, k)
           Above(x) == {m \in T : x < m}
           Sizes == {Cardinality(Above(x)) : x \in T}
<1>1. T \subseteq S /\ IsFiniteSet(T) /\ Cardinality(T) \in Nat /\ T \subseteq Nat
  BY FS_Subset, FS_CardinalityType DEF Oldest
<1>0. \A x \in T : Cardinality({m \in S : m < x}) < k
  BY DEF Oldest
<1> HIDE DEF T
<1>2. CASE T = {}
  BY <1>1, <1>2, FS_EmptySet DEF T
<1>3. CASE T # {}
  <2>1. \A x \in T : IsFiniteSet(Above(x)) /\ Cardinality(Above(x)) \in Nat
    BY <1>1, FS_Subset, FS_CardinalityType
  <2>2. PICK x \in T : Cardinality(Above(x)) = Min(Sizes) /\ \A y \in T : Min(Sizes) <= Cardinality(Above(y))
    <3>1. Sizes \in SUBSET Nat /\ Sizes # {}
      BY <1>3, <2>1
    <3> HIDE DEF Sizes
    <3>2. Min(Sizes) \in Sizes /\ \A c \in Sizes : Min(Sizes) <= c
      BY <3>1, MinInSet
    <3> QED BY <3>2 DEF Sizes
  <2>3. \A y \in T : ~(x < y)
    <3> SUFFICES ASSUME NEW y \in T, x < y PROVE FALSE
      OBVIOUS
    <3>1. Above(y) \subseteq Above(x) /\ Above(y) # Above(x)
      <4>1. x \in Nat /\ y \in Nat /\ \A m \in T : m \in Nat
        BY <1>1
      <4>2. y \in Above(x) /\ y \notin Above(y)
        BY <4>1
      <4>3. \A m \in Above(y) : m \in Above(x)
        BY <4>1
      <4> QED BY <4>2, <4>3
    <3>2. Cardinality(Above(y)) < Cardinality(Above(x))
      <4> HIDE DEF Above
      <4> QED BY <3>1, <2>1, FS_Subset
    <3>3. Min(Sizes) <= Cardinality(Above(y)) /\ Cardinality(Above(x)) = Min(Sizes)
      BY <2>2
    <3> HIDE DEF Above, Sizes
    <3> QED BY <3>2, <3>3, <2>1
  <2>4. T \ {x} \subseteq {m \in S : m < x} /\ IsFiniteSet({m \in S : m < x})
    <3>1. \A m \in T \ {x} : m \in S /\ m < x
      BY <1>1, <2>3
    <3>2. {m \in S : m < x} \subseteq S
      OBVIOUS
    <3> QED BY <3>1, <3>2, FS_Subset
  <2>5. Cardinality(T \ {x}) <= Cardinality({m \in S : m < x})
    BY <2>4, FS_Subset
  <2>6. Cardinality({m \in S : m < x}) < k /\ Cardinality({m \in S : m < x}) \in Nat
    BY <1>0, <2>4, FS_CardinalityType
  <2>7. Cardinality(T \ {x}) = Cardinality(T) - 1
    <3>1. x \in T
      BY <1>3, <2>2
    <3> HIDE DEF Above, Sizes
    <3> QED BY <1>1, <3>1, FS_RemoveElement
  <2>8. Cardinality(T) <= k
    <3> DEFINE a == Cardinality(T)
               b == Cardinality({m \in S : m < x})
    <3>1. a \in Nat /\ b \in Nat /\ a - 1 <= b /\ b < k
      BY <1>1, <2>5, <2>6, <2>7
    <3> HIDE DEF a, b
    <3>2. a <= k
      BY <3>1
    <3> QED BY <3>2 DEF a
  <2> HIDE DEF Above, Sizes
  <2> QED BY <1>1, <2>8 DEF T
<1> QED BY <1>1, <1>2, <1>3 DEF T

\* What is eligible is below the cap, and missing.
LEMMA EligibleBelowCap ==
    ASSUME NEW s \in Series
    PROVE  /\ Eligible(s) \in SUBSET Nat /\ IsFiniteSet(Eligible(s))
           /\ Missing(s) \in SUBSET Nat /\ IsFiniteSet(Missing(s))
           /\ Eligible(s) \subseteq ChaptersOf[s] /\ Missing(s) \subseteq ChaptersOf[s]
           /\ \A n \in Eligible(s) : attempts[s][n] < RetryCap
<1>1. ChaptersOf[s] \in SUBSET Nat /\ IsFiniteSet(ChaptersOf[s])
  BY LimitsAssumption
<1>2. /\ Eligible(s) \subseteq ChaptersOf[s] /\ Missing(s) \subseteq ChaptersOf[s]
      /\ \A n \in Eligible(s) : attempts[s][n] < RetryCap
  BY DEF Eligible, Missing
<1> QED BY <1>1, <1>2, FS_Subset

\* A failure that is noted is one more, but for the bound.
LEMMA NotedLedger ==
    ASSUME NEW L, IsLedger(L), NEW s \in Series, NEW n \in ChaptersOf[s], NEW b \in Nat
    PROVE  /\ IsLedger(Noted(L, s, n, b))
           /\ \A t \in Series : \A m \in ChaptersOf[t] :
                 Noted(L, s, n, b)[t][m] = IF t = s /\ m = n /\ L[t][m] # b THEN L[t][m] + 1 ELSE L[t][m]
<1> DEFINE M == Noted(L, s, n, b)
<1>1. PICK f : f = L[s]
  OBVIOUS
<1>2. f = [m \in ChaptersOf[s] |-> f[m]] /\ \A m \in ChaptersOf[s] : f[m] \in Nat
  BY <1>1 DEF IsLedger
<1>3. PICK v : v = IF f[n] = b THEN b ELSE f[n] + 1
  OBVIOUS
<1>4. v \in Nat
  BY <1>2, <1>3
<1>5. PICK a : a = [f EXCEPT ![n] = v]
  OBVIOUS
<1>6. a = [m \in ChaptersOf[s] |-> IF m = n THEN v ELSE f[m]]
  BY <1>2, <1>5
<1>7. M = [L EXCEPT ![s] = a]
  BY <1>1, <1>3, <1>5 DEF Noted
<1>8. M = [t \in Series |-> IF t = s THEN a ELSE L[t]]
  BY <1>7 DEF IsLedger
<1> HIDE DEF M
<1>9. \A t \in Series : \A m \in ChaptersOf[t] :
          M[t][m] = IF t = s /\ m = n THEN v ELSE L[t][m]
  BY <1>1, <1>6, <1>8
<1>10. \A t \in Series : \A m \in ChaptersOf[t] : M[t][m] \in Nat
  BY <1>4, <1>9 DEF IsLedger
<1>11. M = [t \in Series |-> [m \in ChaptersOf[t] |-> M[t][m]]]
  <2>1. \A t \in Series : L[t] = [m \in ChaptersOf[t] |-> L[t][m]]
    BY DEF IsLedger
  <2>2. \A t \in Series : M[t] = [m \in ChaptersOf[t] |-> M[t][m]]
    BY <1>6, <1>8, <2>1
  <2>3. M = [t \in Series |-> M[t]]
    BY <1>8
  <2> QED BY <2>2, <2>3
<1>12. \A t \in Series : \A m \in ChaptersOf[t] :
           M[t][m] = IF t = s /\ m = n /\ L[t][m] # b THEN L[t][m] + 1 ELSE L[t][m]
  BY <1>1, <1>3, <1>9
<1> QED BY <1>10, <1>11, <1>12 DEF IsLedger, M

\* So it is for a failure that is forgotten.
Cleared(L, s, n) == [L EXCEPT ![s][n] = 0]

LEMMA ClearedLedger ==
    ASSUME NEW L, IsLedger(L), NEW s \in Series, NEW n \in ChaptersOf[s]
    PROVE  /\ IsLedger(Cleared(L, s, n))
           /\ \A t \in Series : \A m \in ChaptersOf[t] :
                 Cleared(L, s, n)[t][m] = IF t = s /\ m = n THEN 0 ELSE L[t][m]
<1> DEFINE M == Cleared(L, s, n)
<1>1. PICK f : f = L[s]
  OBVIOUS
<1>2. f = [m \in ChaptersOf[s] |-> f[m]] /\ \A m \in ChaptersOf[s] : f[m] \in Nat
  BY <1>1 DEF IsLedger
<1>3. PICK a : a = [f EXCEPT ![n] = 0]
  OBVIOUS
<1>4. a = [m \in ChaptersOf[s] |-> IF m = n THEN 0 ELSE f[m]]
  BY <1>2, <1>3
<1>5. M = [L EXCEPT ![s] = a]
  BY <1>1, <1>3 DEF Cleared
<1>6. M = [t \in Series |-> IF t = s THEN a ELSE L[t]]
  BY <1>5 DEF IsLedger
<1> HIDE DEF M
<1>7. \A t \in Series : \A m \in ChaptersOf[t] : M[t][m] = IF t = s /\ m = n THEN 0 ELSE L[t][m]
  BY <1>1, <1>4, <1>6
<1>8. \A t \in Series : \A m \in ChaptersOf[t] : M[t][m] \in Nat
  <2>1. \A t \in Series : \A m \in ChaptersOf[t] : L[t][m] \in Nat
    BY DEF IsLedger
  <2> QED BY <1>7, <2>1
<1>9. M = [t \in Series |-> [m \in ChaptersOf[t] |-> M[t][m]]]
  <2>1. \A t \in Series : L[t] = [m \in ChaptersOf[t] |-> L[t][m]]
    BY DEF IsLedger
  <2>2. \A t \in Series : M[t] = [m \in ChaptersOf[t] |-> M[t][m]]
    BY <1>4, <1>6, <2>1
  <2>3. M = [t \in Series |-> M[t]]
    BY <1>6
  <2> QED BY <2>2, <2>3
<1> QED BY <1>7, <1>8, <1>9 DEF IsLedger, M

LEMMA ForgottenLedger ==
    ASSUME NEW L, IsLedger(L)
    PROVE  /\ IsLedger(Forgotten(L))
           /\ \A t \in Series : \A m \in ChaptersOf[t] :
                 Forgotten(L)[t][m] = IF chap[t][m] = "row" THEN 0 ELSE L[t][m]
<1> DEFINE M == Forgotten(L)
<1>1. \A t \in Series : \A m \in ChaptersOf[t] : M[t][m] = IF chap[t][m] = "row" THEN 0 ELSE L[t][m]
  BY DEF Forgotten
<1>2. \A t \in Series : \A m \in ChaptersOf[t] : M[t][m] \in Nat
  <2>1. \A t \in Series : \A m \in ChaptersOf[t] : L[t][m] \in Nat
    BY DEF IsLedger
  <2> HIDE DEF M
  <2> QED BY <1>1, <2>1
<1>3. M = [t \in Series |-> [m \in ChaptersOf[t] |-> M[t][m]]]
  BY DEF Forgotten
<1> HIDE DEF M
<1> QED BY <1>1, <1>2, <1>3 DEF IsLedger, M

-----------------------------------------------------------------------------
(* updateSeries *)

\* A call that has begun and not yet returned.
InCall(w) == worker[w].step \in {"begin", "list", "loop", "fetch", "return"}

\* Only call w moves, it keeps its series and its maxNew, and its other
\* fields become these.
CallIs(w, st, td, ad, fd) ==
    /\ CallShape'
    /\ \A v \in Workers \ {w} : worker'[v] = worker[v]
    /\ worker'[w].series = worker[w].series /\ worker'[w].max = worker[w].max
    /\ worker'[w].blind = worker[w].blind
    /\ worker'[w].step = st /\ worker'[w].todo = td /\ worker'[w].added = ad /\ worker'[w].failed = fd

LEMMA ShapeKept ==
    ASSUME CallShape, NEW w \in Workers, NEW r, r = Fields(r), worker' = [worker EXCEPT ![w] = r]
    PROVE  CallShape' /\ worker'[w] = r /\ \A v \in Workers \ {w} : worker'[v] = worker[v]
<1>1. worker' = [v \in Workers |-> IF v = w THEN r ELSE worker[v]]
  BY DEF CallShape
<1>2. \A v \in Workers : worker[v] = Fields(worker[v])
  BY DEF CallShape
<1>3. \A v \in Workers : worker'[v] = Fields(worker'[v])
  BY <1>1, <1>2
<1>4. worker' = [v \in Workers |-> worker'[v]]
  BY <1>1
<1> QED BY <1>1, <1>3, <1>4 DEF CallShape

LEMMA IdleIs ==
    /\ Idle = Fields(Idle) /\ Idle.step = "idle" /\ Idle.max = 0 /\ Idle.todo = {}
    /\ Idle.added = 0 /\ Idle.failed = 0
  BY DEF Idle, Fields

LEMMA UpdateStep ==
    ASSUME CallShape, NEW w \in Workers, NEW st,
           worker' = [worker EXCEPT ![w].step = st]
    PROVE  CallIs(w, st, worker[w].todo, worker[w].added, worker[w].failed)
<1>1. PICK r : r = [worker[w] EXCEPT !.step = st]
  OBVIOUS
<1>2. worker[w] = Fields(worker[w])
  BY DEF CallShape
<1>3. r = Fields(r)
  BY <1>1, <1>2 DEF Fields
<1>4. /\ r.series = worker[w].series /\ r.max = worker[w].max /\ r.blind = worker[w].blind
      /\ r.step = st /\ r.todo = worker[w].todo /\ r.added = worker[w].added /\ r.failed = worker[w].failed
  BY <1>1, <1>2 DEF Fields
<1>5. worker' = [worker EXCEPT ![w] = r]
  BY <1>1 DEF CallShape
<1> QED BY <1>3, <1>4, <1>5, ShapeKept DEF CallIs

LEMMA UpdateTodo ==
    ASSUME CallShape, NEW w \in Workers, NEW td,
           worker' = [worker EXCEPT ![w].todo = td]
    PROVE  CallIs(w, worker[w].step, td, worker[w].added, worker[w].failed)
<1>1. PICK r : r = [worker[w] EXCEPT !.todo = td]
  OBVIOUS
<1>2. worker[w] = Fields(worker[w])
  BY DEF CallShape
<1>3. r = Fields(r)
  BY <1>1, <1>2 DEF Fields
<1>4. /\ r.series = worker[w].series /\ r.max = worker[w].max /\ r.blind = worker[w].blind
      /\ r.step = worker[w].step /\ r.todo = td /\ r.added = worker[w].added /\ r.failed = worker[w].failed
  BY <1>1, <1>2 DEF Fields
<1>5. worker' = [worker EXCEPT ![w] = r]
  BY <1>1 DEF CallShape
<1> QED BY <1>3, <1>4, <1>5, ShapeKept DEF CallIs

\* The list has come: only the chapters to do and the state of the ledger are new.
ListIs(w, lost, td) ==
    /\ CallShape'
    /\ \A v \in Workers \ {w} : worker'[v] = worker[v]
    /\ worker'[w].series = worker[w].series /\ worker'[w].max = worker[w].max
    /\ worker'[w].blind = lost
    /\ worker'[w].step = "loop" /\ worker'[w].todo = td
    /\ worker'[w].added = worker[w].added /\ worker'[w].failed = worker[w].failed

LEMMA UpdateList ==
    ASSUME CallShape, NEW w \in Workers, NEW lost, NEW td,
           worker' = [worker EXCEPT ![w].step = "loop", ![w].blind = lost, ![w].todo = td]
    PROVE  ListIs(w, lost, td)
<1>1. PICK r : r = [worker[w] EXCEPT !.step = "loop", !.blind = lost, !.todo = td]
  OBVIOUS
<1>2. worker[w] = Fields(worker[w])
  BY DEF CallShape
<1>3. r = Fields(r)
  BY <1>1, <1>2 DEF Fields
<1>4. /\ r.series = worker[w].series /\ r.max = worker[w].max /\ r.blind = lost
      /\ r.step = "loop" /\ r.todo = td /\ r.added = worker[w].added /\ r.failed = worker[w].failed
  BY <1>1, <1>2 DEF Fields
<1>5. worker' = [worker EXCEPT ![w] = r]
  BY <1>1 DEF CallShape
<1> QED BY <1>3, <1>4, <1>5, ShapeKept DEF ListIs

LEMMA UpdateAdded ==
    ASSUME CallShape, NEW w \in Workers, NEW n,
           worker' = [worker EXCEPT ![w].step = "loop", ![w].todo = @ \ {n}, ![w].added = @ + 1]
    PROVE  CallIs(w, "loop", worker[w].todo \ {n}, worker[w].added + 1, worker[w].failed)
<1>1. PICK r : r = [worker[w] EXCEPT !.step = "loop", !.todo = @ \ {n}, !.added = @ + 1]
  OBVIOUS
<1>2. worker[w] = Fields(worker[w])
  BY DEF CallShape
<1>3. r = Fields(r)
  BY <1>1, <1>2 DEF Fields
<1>4. /\ r.series = worker[w].series /\ r.max = worker[w].max /\ r.blind = worker[w].blind
      /\ r.step = "loop" /\ r.todo = worker[w].todo \ {n} /\ r.added = worker[w].added + 1 /\ r.failed = worker[w].failed
  BY <1>1, <1>2 DEF Fields
<1>5. worker' = [worker EXCEPT ![w] = r]
  BY <1>1 DEF CallShape
<1> QED BY <1>3, <1>4, <1>5, ShapeKept DEF CallIs

LEMMA UpdateFailed ==
    ASSUME CallShape, NEW w \in Workers, NEW n,
           worker' = [worker EXCEPT ![w].step = "loop", ![w].todo = @ \ {n}, ![w].failed = @ + 1]
    PROVE  CallIs(w, "loop", worker[w].todo \ {n}, worker[w].added, worker[w].failed + 1)
<1>1. PICK r : r = [worker[w] EXCEPT !.step = "loop", !.todo = @ \ {n}, !.failed = @ + 1]
  OBVIOUS
<1>2. worker[w] = Fields(worker[w])
  BY DEF CallShape
<1>3. r = Fields(r)
  BY <1>1, <1>2 DEF Fields
<1>4. /\ r.series = worker[w].series /\ r.max = worker[w].max /\ r.blind = worker[w].blind
      /\ r.step = "loop" /\ r.todo = worker[w].todo \ {n} /\ r.added = worker[w].added /\ r.failed = worker[w].failed + 1
  BY <1>1, <1>2 DEF Fields
<1>5. worker' = [worker EXCEPT ![w] = r]
  BY <1>1 DEF CallShape
<1> QED BY <1>3, <1>4, <1>5, ShapeKept DEF CallIs

\* A call that is over is the sweep's to tally, or cleared at once.
LEMMA LeavesIs ==
    ASSUME CallShape, NEW w \in Workers, NEW r, r = Fields(r), Leaves(w, r)
    PROVE  /\ CallShape' /\ \A v \in Workers \ {w} : worker'[v] = worker[v]
           /\ ~Working(w)' /\ ~Asking(w)'
           /\ \/ /\ w = "check" /\ worker'[w].step = "idle"
                 /\ worker'[w].max = 0 /\ worker'[w].added = 0 /\ worker'[w].failed = 0
              \/ /\ w = "sweep" /\ worker'[w].step = "return"
                 /\ worker'[w].max = r.max /\ worker'[w].added = r.added /\ worker'[w].failed = r.failed
<1>1. CASE w = "check"
  <2>1. PICK q : q = Idle
    OBVIOUS
  <2>2. q = Fields(q) /\ q.step = "idle" /\ q.max = 0 /\ q.added = 0 /\ q.failed = 0
    BY <2>1, IdleIs
  <2>3. worker' = [worker EXCEPT ![w] = q]
    BY <1>1, <2>1 DEF Leaves
  <2> QED BY <1>1, <2>2, <2>3, ShapeKept DEF Working, Asking
<1>2. CASE w = "sweep"
  <2>1. PICK q : q = [r EXCEPT !.step = "return", !.todo = {}, !.blind = FALSE]
    OBVIOUS
  <2>2. q = Fields(q) /\ q.step = "return" /\ q.max = r.max /\ q.added = r.added /\ q.failed = r.failed
    BY <2>1 DEF Fields
  <2>3. worker' = [worker EXCEPT ![w] = q]
    BY <1>2, <2>1 DEF Leaves
  <2> QED BY <1>2, <2>2, <2>3, ShapeKept DEF Working, Asking
<1> QED BY <1>1, <1>2 DEF Workers

\* The steps that attempt nothing: they stop the call, or move it on.
Walks(w) ==
    \/ Begin(w) \/ Throws(w) \/ ListsNothing(w) \/ LoopEnds(w) \/ Skips(w) \/ DiskFull(w) \/ Fetches(w)

Stops(w) ==
    \E r : /\ r = Fields(r) /\ Leaves(w, r)
           /\ r.max = worker[w].max /\ r.added = worker[w].added /\ r.failed = worker[w].failed

MovesOn(w) ==
    /\ CallIs(w, worker'[w].step, worker'[w].todo, worker[w].added, worker[w].failed)
    /\ worker'[w].todo \subseteq worker[w].todo
    /\ worker'[w].step \in {"list", "loop", "fetch"}
    /\ worker'[w].step = "list"
         => worker[w].step = "begin" /\ worker[w].series \in visible /\ Src(w) \in Installed \ blocked
    /\ worker'[w].step \in {"loop", "fetch"} => worker[w].step = "loop"
    /\ worker'[w].step = "fetch" => worker'[w].todo # {}

LEMMA ReturnStops ==
    ASSUME CallShape, NEW w \in Workers, NEW o, Returns(w, o)
    PROVE  Stops(w)
<1>1. PICK r : r = [worker[w] EXCEPT !.outcome = o]
  OBVIOUS
<1>2. worker[w] = Fields(worker[w])
  BY DEF CallShape
<1>3. /\ r = Fields(r) /\ r.max = worker[w].max /\ r.added = worker[w].added /\ r.failed = worker[w].failed
  BY <1>1, <1>2 DEF Fields
<1>4. Leaves(w, r)
  BY <1>1 DEF Returns
<1> QED BY <1>3, <1>4 DEF Stops

LEMMA WalkEffect ==
    ASSUME IInv, NEW w \in Workers, Walks(w)
    PROVE  /\ InCall(w)
           /\ Stops(w) \/ MovesOn(w)
           /\ UNCHANGED <<attempts, retried, visible, blocked, sweep, refused>>
<1>0. CallShape
  BY DEF IInv
<1>1. CASE Begin(w)
  <2>1. (\E o : Returns(w, o)) \/ worker' = [worker EXCEPT ![w].step = "list"]
    BY <1>1 DEF Begin
  <2>2. InCall(w) /\ UNCHANGED <<attempts, retried, visible, blocked, sweep, refused>>
    BY <1>1 DEF Begin, InCall, library
  <2>3. CASE \E o : Returns(w, o)
    BY <1>0, <2>2, <2>3, ReturnStops
  <2>4. CASE worker' = [worker EXCEPT ![w].step = "list"] /\ ~ \E o : Returns(w, o)
    <3>1. CallIs(w, "list", worker[w].todo, worker[w].added, worker[w].failed)
      BY <1>0, <2>4, UpdateStep
    <3>2. worker[w].step = "begin" /\ worker[w].series \in visible /\ Src(w) \in Installed \ blocked
      BY <1>1, <2>4 DEF Begin
    <3> QED BY <2>2, <3>1, <3>2 DEF CallIs, MovesOn
  <2> QED BY <2>1, <2>3, <2>4
<1>2. CASE Throws(w) \/ ListsNothing(w) \/ LoopEnds(w)
  <2>1. \E o : Returns(w, o)
    BY <1>2 DEF Throws, ListsNothing, LoopEnds
  <2>2. InCall(w) /\ UNCHANGED <<attempts, retried, visible, blocked, sweep, refused>>
    BY <1>2 DEF Throws, ListsNothing, LoopEnds, InCall, library
  <2> QED BY <1>0, <2>1, <2>2, ReturnStops
<1>3. CASE Skips(w)
  <2>1. CallIs(w, worker[w].step, worker[w].todo \ {Current(w)}, worker[w].added, worker[w].failed)
    BY <1>0, <1>3, UpdateTodo DEF Skips
  <2> QED BY <1>3, <2>1 DEF Skips, InLoop, CallIs, InCall, MovesOn, library
<1>4. CASE DiskFull(w)
  <2>1. PICK r : r = [worker[w] EXCEPT !.outcome = "ok", !.full = TRUE]
    OBVIOUS
  <2>2. worker[w] = Fields(worker[w])
    BY <1>0 DEF CallShape
  <2>3. r = Fields(r) /\ r.max = worker[w].max /\ r.added = worker[w].added /\ r.failed = worker[w].failed
    BY <2>1, <2>2 DEF Fields
  <2>4. Leaves(w, r)
    BY <1>4, <2>1 DEF DiskFull
  <2> QED BY <1>4, <2>3, <2>4 DEF DiskFull, InLoop, InCall, Stops, library
<1>5. CASE Fetches(w)
  <2>1. CallIs(w, "fetch", worker[w].todo, worker[w].added, worker[w].failed)
    BY <1>0, <1>5, UpdateStep DEF Fetches
  <2> QED BY <1>5, <2>1 DEF Fetches, InLoop, CallIs, InCall, MovesOn, library
<1> QED BY <1>1, <1>2, <1>3, <1>4, <1>5 DEF Walks

LEMMA PendingType ==
    \A w, s, n : Pending(w, s, n) \in {0, 1} /\ Pending(w, s, n)' \in {0, 1}
  BY DEF Pending

\* The ledger keeps its bound when what the callers noted does not grow and
\* nothing new is pending.
LEMMA LedgerKept ==
    ASSUME IsLedger(retried), IsLedger(retried'), NothingHidden', LedgerCounts,
           \A s \in Series : \A n \in ChaptersOf[s] : retried'[s][n] <= retried[s][n],
           \A v \in Workers : \A s \in Series : \A n \in ChaptersOf[s] : Pending(v, s, n)' <= Pending(v, s, n)
    PROVE  LedgerCounts'
<1> SUFFICES ASSUME NEW s \in Series, NEW n \in ChaptersOf[s]
             PROVE  retried'[s][n] + Pending("sweep", s, n)' + Pending("check", s, n)' <= RetryCap + 1
  BY DEF LedgerCounts
<1>1. retried[s][n] + Pending("sweep", s, n) + Pending("check", s, n) <= RetryCap + 1
  BY DEF LedgerCounts
<1>2. /\ Pending("sweep", s, n)' <= Pending("sweep", s, n)
      /\ Pending("check", s, n)' <= Pending("check", s, n)
  BY DEF Workers
<1>3. retried'[s][n] \in Nat /\ retried'[s][n] <= retried[s][n] /\ retried[s][n] \in Nat
  BY DEF IsLedger
<1>4. /\ Pending("sweep", s, n) \in {0, 1} /\ Pending("check", s, n) \in {0, 1}
      /\ Pending("sweep", s, n)' \in {0, 1} /\ Pending("check", s, n)' \in {0, 1}
  BY PendingType
<1> QED BY <1>1, <1>2, <1>3, <1>4, LimitsAssumption

LEMMA LedgerSame ==
    ASSUME IInv, UNCHANGED <<attempts, retried>>,
           \A v \in Workers : \A s \in Series : \A n \in ChaptersOf[s] : Pending(v, s, n)' <= Pending(v, s, n)
    PROVE  LedgerType' /\ LedgerCounts'
<1>1. LedgerType /\ LedgerCounts /\ LedgerType'
  BY DEF IInv, LedgerType, IsLedger
<1>2. \A s \in Series : \A n \in ChaptersOf[s] : retried'[s][n] <= retried[s][n]
  <2>1. \A s \in Series : \A n \in ChaptersOf[s] : retried[s][n] \in Nat
    BY <1>1 DEF LedgerType, IsLedger
  <2> QED BY <2>1
<1>3. NothingHidden'
  BY <1>1 DEF LedgerCounts, NothingHidden
<1> QED BY <1>1, <1>2, <1>3, LedgerKept DEF LedgerType

\* The invariant survives a call that is set up, has returned or is cleared.
LEMMA CallReplaced ==
    ASSUME IInv, NEW w \in Workers, CallShape', \A v \in Workers \ {w} : worker'[v] = worker[v],
           worker'[w].step \in {"idle", "begin", "return"},
           worker'[w].max \in Nat, worker'[w].added \in Nat, worker'[w].failed \in Nat,
           worker'[w].added + worker'[w].failed <= worker'[w].max,
           worker'[w].step # "return" => worker'[w].added = 0 /\ worker'[w].failed = 0,
           UNCHANGED visible, LedgerType', LedgerCounts',
           refused' \subseteq blocked', refused' \subseteq refused \/ w = "sweep",
           SweepShape', sweep'.spent \in Nat, CallWithinBudget'
    PROVE  IInv'
<1>1. Counts' /\ visible' \subseteq Series
  BY DEF IInv, Counts
<1>2. CallsAreRouted'
  BY DEF IInv, CallsAreRouted, Asking, Working, Src
<1>3. WithinMax'
  BY DEF IInv, WithinMax, Working
<1>4. NoKnockAfterRefusal'
  BY DEF IInv, NoKnockAfterRefusal, Src, Workers
<1> QED BY <1>1, <1>2, <1>3, <1>4 DEF IInv

\* It survives the end of a call, with what the call has attempted.
LEMMA LeaveKeeps ==
    ASSUME IInv, NEW w \in Workers, InCall(w), NEW r, r = Fields(r), Leaves(w, r),
           r.max = worker[w].max, r.added \in Nat, r.failed \in Nat, r.added + r.failed <= r.max,
           UNCHANGED <<visible, sweep>>, LedgerType', LedgerCounts',
           refused' \subseteq blocked', refused' \subseteq refused \/ w = "sweep"
    PROVE  IInv'
<1>1. /\ CallShape' /\ \A v \in Workers \ {w} : worker'[v] = worker[v]
      /\ \/ /\ w = "check" /\ worker'[w].step = "idle"
            /\ worker'[w].max = 0 /\ worker'[w].added = 0 /\ worker'[w].failed = 0
         \/ /\ w = "sweep" /\ worker'[w].step = "return"
            /\ worker'[w].max = r.max /\ worker'[w].added = r.added /\ worker'[w].failed = r.failed
  BY LeavesIs DEF IInv
<1>2. worker[w].max \in Nat /\ sweep'.spent \in Nat /\ SweepShape'
  BY DEF IInv, Counts, SweepShape, Locals
<1>3. CallWithinBudget'
  BY <1>1 DEF IInv, CallWithinBudget, InCall, Workers
<1>4. /\ worker'[w].step \in {"idle", "begin", "return"}
      /\ worker'[w].max \in Nat /\ worker'[w].added \in Nat /\ worker'[w].failed \in Nat
      /\ worker'[w].added + worker'[w].failed <= worker'[w].max
      /\ worker'[w].step # "return" => worker'[w].added = 0 /\ worker'[w].failed = 0
  BY <1>1, <1>2
<1> QED BY <1>1, <1>2, <1>3, <1>4, CallReplaced

LEMMA StopKeeps ==
    ASSUME IInv, NEW w \in Workers, InCall(w), Stops(w),
           UNCHANGED <<attempts, retried, visible, blocked, sweep, refused>>
    PROVE  IInv'
<1>1. PICK r : /\ r = Fields(r) /\ Leaves(w, r)
               /\ r.max = worker[w].max /\ r.added = worker[w].added /\ r.failed = worker[w].failed
  BY DEF Stops
<1>2. /\ worker[w].added \in Nat /\ worker[w].failed \in Nat
      /\ worker[w].added + worker[w].failed <= worker[w].max
  BY DEF IInv, Counts, WithinMax
<1>3. ~Working(w)' /\ \A v \in Workers \ {w} : worker'[v] = worker[v]
  BY <1>1, LeavesIs DEF IInv
<1>4. LedgerType' /\ LedgerCounts'
  <2>1. ASSUME NEW v \in Workers, NEW s \in Series, NEW n \in ChaptersOf[s]
        PROVE  Pending(v, s, n)' <= Pending(v, s, n)
    <3>1. CASE v = w
      BY <1>3, <3>1 DEF Pending
    <3>2. CASE v # w
      BY <1>3, <3>2 DEF Pending, Working
    <3> QED BY <3>1, <3>2
  <2> QED BY <2>1, LedgerSame
<1>5. refused' \subseteq blocked' /\ refused' \subseteq refused
  BY DEF IInv
<1> QED BY <1>1, <1>2, <1>4, <1>5, LeaveKeeps

LEMMA MoveKeeps ==
    ASSUME IInv, NEW w \in Workers, InCall(w), MovesOn(w),
           UNCHANGED <<attempts, retried, visible, blocked, sweep, refused>>
    PROVE  IInv'
<1>1. /\ CallShape'
      /\ \A v \in Workers \ {w} : worker'[v] = worker[v]
      /\ worker'[w].series = worker[w].series /\ worker'[w].max = worker[w].max
      /\ worker'[w].blind = worker[w].blind
      /\ worker'[w].added = worker[w].added /\ worker'[w].failed = worker[w].failed
      /\ worker'[w].todo \subseteq worker[w].todo
      /\ worker'[w].step \in {"list", "loop", "fetch"}
      /\ worker'[w].step \in {"loop", "fetch"} => worker[w].step = "loop"
      /\ worker'[w].step = "fetch" => worker'[w].todo # {}
  BY DEF MovesOn, CallIs
<1>2. worker'[w].step = "list"
        => worker[w].step = "begin" /\ worker[w].series \in visible /\ Src(w) \in Installed \ blocked
  BY DEF MovesOn
<1>3. SweepShape' /\ Counts' /\ LedgerType' /\ visible' \subseteq Series /\ refused' \subseteq blocked'
  BY <1>1 DEF IInv, SweepShape, Locals, Counts, LedgerType, IsLedger
<1>4. CallsAreRouted'
  BY <1>1, <1>2, RoutingAssumption DEF IInv, CallsAreRouted, Asking, Working, Src
<1>5. WithinMax'
  <2>1. Working(w)' => IsFiniteSet(worker[w].todo)
                       /\ Cardinality(worker'[w].todo) <= Cardinality(worker[w].todo)
                       /\ Cardinality(worker[w].todo) \in Nat /\ Cardinality(worker'[w].todo) \in Nat
    <3> SUFFICES ASSUME Working(w)' PROVE IsFiniteSet(worker[w].todo)
      BY <1>1, FS_Subset, FS_CardinalityType
    <3>1. worker[w].series \in Series /\ worker[w].todo \subseteq ChaptersOf[worker[w].series]
      BY <1>1 DEF IInv, CallsAreRouted, Working, Asking
    <3> QED BY <3>1, LimitsAssumption, FS_Subset
  <2>2. WithinMax /\ Counts
    BY DEF IInv
  <2>3. Working(w)' => worker'[w].added + worker'[w].failed + Cardinality(worker'[w].todo) <= worker'[w].max
    <3> SUFFICES ASSUME Working(w)'
                 PROVE  worker[w].added + worker[w].failed + Cardinality(worker'[w].todo) <= worker[w].max
      BY <1>1
    <3>1. worker[w].added + worker[w].failed + Cardinality(worker[w].todo) <= worker[w].max
      BY <1>1, <2>2 DEF WithinMax, Working
    <3>2. worker[w].added \in Nat /\ worker[w].failed \in Nat /\ worker[w].max \in Nat
      BY <2>2 DEF Counts
    <3> QED BY <2>1, <3>1, <3>2
  <2>4. worker'[w].step = "list" => worker'[w].added = 0 /\ worker'[w].failed = 0
    BY <1>1, <1>2, <2>2 DEF WithinMax
  <2>5. worker'[w].added + worker'[w].failed <= worker'[w].max
    BY <1>1, <2>2 DEF WithinMax
  <2>6. \A v \in Workers \ {w} : worker'[v] = worker[v]
    BY <1>1
  <2>7. worker'[w].step \in {"list", "loop", "fetch"}
    BY <1>1
  <2> QED BY <2>2, <2>3, <2>4, <2>5, <2>6, <2>7 DEF WithinMax, Working
<1>6. CallWithinBudget'
  BY <1>1 DEF IInv, CallWithinBudget, InCall, Workers
<1>7. LedgerCounts'
  <2>1. \A v \in Workers : \A s \in Series : \A n \in ChaptersOf[s] : Pending(v, s, n)' <= Pending(v, s, n)
    BY <1>1 DEF Pending, Working
  <2> QED BY <1>1, <2>1, LedgerSame
<1>8. NoKnockAfterRefusal'
  BY <1>1, <1>2 DEF IInv, NoKnockAfterRefusal, Src, Workers
<1> QED BY <1>1, <1>3, <1>4, <1>5, <1>6, <1>7, <1>8 DEF IInv

LEMMA WalkKeeps ==
    ASSUME IInv, NEW w \in Workers, Walks(w)
    PROVE  IInv'
  BY WalkEffect, StopKeeps, MoveKeeps

LEMMA ListsKeeps ==
    ASSUME IInv, NEW w \in Workers, Lists(w)
    PROVE  IInv'
<1> DEFINE s == worker[w].series
<1>0. PICK lost \in BOOLEAN :
          worker' = [worker EXCEPT ![w].step = "loop", ![w].blind = lost,
                       ![w].todo = Oldest(IF lost THEN Missing(s) ELSE Eligible(s), worker[w].max)]
  BY LimitsAssumption DEF Lists
<1> DEFINE wanted == IF lost THEN Missing(s) ELSE Eligible(s)
           picks == Oldest(wanted, worker[w].max)
<1>1. /\ worker[w].step = "list"
      /\ ListIs(w, lost, picks)
      /\ UNCHANGED <<attempts, retried, visible, blocked, sweep, refused>>
  BY <1>0, UpdateList DEF Lists, IInv
<1>2. s \in Series /\ Src(w) \in Sources
  BY <1>1 DEF IInv, CallsAreRouted, Asking
<1>3. /\ picks \subseteq ChaptersOf[s]
      /\ Cardinality(picks) <= worker[w].max /\ Cardinality(picks) \in Nat
      /\ ~lost => \A n \in picks : attempts[s][n] < RetryCap
  <2>1. worker[w].max \in Nat
    BY DEF IInv, Counts
  <2>2. /\ wanted \in SUBSET Nat /\ IsFiniteSet(wanted) /\ wanted \subseteq ChaptersOf[s]
        /\ ~lost => \A n \in wanted : attempts[s][n] < RetryCap
    BY <1>2, EligibleBelowCap
  <2> HIDE DEF wanted
  <2>3. picks \subseteq wanted /\ IsFiniteSet(picks) /\ Cardinality(picks) <= worker[w].max
    BY <2>1, <2>2, OldestBounded
  <2> QED BY <2>2, <2>3, FS_CardinalityType
<1> HIDE DEF picks, wanted
<1>4. /\ CallShape'
      /\ \A v \in Workers \ {w} : worker'[v] = worker[v]
      /\ worker'[w].series = s /\ worker'[w].max = worker[w].max /\ worker'[w].blind = lost
      /\ worker'[w].step = "loop" /\ worker'[w].todo = picks
      /\ worker'[w].added = worker[w].added /\ worker'[w].failed = worker[w].failed
  BY <1>1 DEF ListIs
<1>5. SweepShape' /\ Counts' /\ LedgerType' /\ visible' \subseteq Series /\ refused' \subseteq blocked'
  BY <1>1, <1>4 DEF IInv, SweepShape, Locals, Counts, LedgerType, IsLedger
<1>6. CallsAreRouted'
  BY <1>2, <1>3, <1>4 DEF IInv, CallsAreRouted, Asking, Working, Src
<1>7. WithinMax'
  <2>1. worker[w].added = 0 /\ worker[w].failed = 0 /\ worker[w].max \in Nat
    BY <1>1 DEF IInv, WithinMax, Counts
  <2>2. WithinMax
    BY DEF IInv
  <2> QED BY <1>3, <1>4, <2>1, <2>2 DEF WithinMax, Working
<1>8. CallWithinBudget'
  BY <1>1, <1>4 DEF IInv, CallWithinBudget, Workers
<1>9. LedgerCounts'
  <2>0. NothingHidden'
    BY <1>1 DEF IInv, LedgerCounts, NothingHidden
  <2> SUFFICES ASSUME NEW t \in Series, NEW n \in ChaptersOf[t]
               PROVE  retried[t][n] + Pending("sweep", t, n)' + Pending("check", t, n)' <= RetryCap + 1
    BY <1>1, <2>0 DEF LedgerCounts
  <2>1. retried[t][n] + Pending("sweep", t, n) + Pending("check", t, n) <= RetryCap + 1
    BY DEF IInv, LedgerCounts
  <2>2. /\ \A v \in Workers : Pending(v, t, n) \in {0, 1} /\ Pending(v, t, n)' \in {0, 1}
        /\ attempts[t][n] \in Nat /\ retried[t][n] \in Nat
    BY PendingType DEF IInv, LedgerType, IsLedger
  <2>3. \A v \in Workers \ {w} : Pending(v, t, n)' = Pending(v, t, n)
    BY <1>4 DEF Pending, Working
  <2>4. CASE Pending(w, t, n)' = 0
    BY <2>1, <2>2, <2>3, <2>4, LimitsAssumption DEF Workers
  <2>5. CASE Pending(w, t, n)' = 1
    <3>1. attempts[t][n] < RetryCap
      BY <1>3, <1>4, <2>5 DEF Pending
    <3>2. retried[t][n] < RetryCap
      BY <2>2, <3>1, LimitsAssumption DEF IInv, LedgerCounts, NothingHidden
    <3> QED BY <2>2, <3>2, LimitsAssumption DEF Workers
  <2> QED BY <2>2, <2>4, <2>5
<1>10. NoKnockAfterRefusal'
  BY <1>1, <1>4 DEF IInv, NoKnockAfterRefusal, Src, Workers
<1> QED BY <1>1, <1>4, <1>5, <1>6, <1>7, <1>8, <1>9, <1>10 DEF IInv

\* An attempt's chapter is one the call still had to try.
LEMMA CurrentIsOne ==
    ASSUME IInv, NEW w \in Workers, worker[w].step = "fetch"
    PROVE  /\ worker[w].series \in Series /\ Src(w) \in Sources
           /\ Current(w) \in worker[w].todo /\ worker[w].todo \subseteq ChaptersOf[worker[w].series]
           /\ IsFiniteSet(worker[w].todo)
<1>1. /\ worker[w].series \in Series /\ Src(w) \in Sources
      /\ worker[w].todo \subseteq ChaptersOf[worker[w].series] /\ worker[w].todo # {}
  BY DEF IInv, CallsAreRouted, Asking, Working
<1>2. worker[w].todo \in SUBSET Nat /\ IsFiniteSet(worker[w].todo)
  BY <1>1, LimitsAssumption, FS_Subset
<1>3. Current(w) \in worker[w].todo
  BY <1>1, <1>2, MinInSet DEF Current
<1> QED BY <1>1, <1>2, <1>3

\* The ledger keeps its bound: what it gains was pending.
LEMMA AttemptLedger ==
    ASSUME IInv, NEW w \in Workers, worker[w].step = "fetch",
           NotesFailure(w) \/ UNCHANGED <<attempts, retried>>,
           \A v \in Workers \ {w} : worker'[v] = worker[v],
           ~Working(w)' \/ (/\ worker'[w].series = worker[w].series
                            /\ worker'[w].blind = worker[w].blind
                            /\ worker'[w].todo = worker[w].todo \ {Current(w)})
    PROVE  LedgerType' /\ LedgerCounts'
<1> DEFINE s == worker[w].series
           n == Current(w)
<1>1. /\ \A v \in Workers \ {w} : worker'[v] = worker[v]
      /\ ~Working(w)' \/ (/\ worker'[w].series = s /\ worker'[w].blind = worker[w].blind
                          /\ worker'[w].todo = worker[w].todo \ {n})
  OBVIOUS
<1>2. s \in Series /\ worker[w].todo \subseteq ChaptersOf[s] /\ n \in worker[w].todo
  BY CurrentIsOne
<1>3. IsLedger(attempts) /\ IsLedger(retried) /\ AttemptsBound = RetryCap /\ RetryCap \in Nat /\ RetriedBound \in Nat
  BY LimitsAssumption DEF IInv, LedgerType, AttemptsBound, RetriedBound
<1>4. \/ UNCHANGED <<attempts, retried>>
      \/ /\ attempts' = Noted(attempts, s, n, AttemptsBound)
         /\ retried' = IF worker[w].blind THEN retried ELSE Noted(retried, s, n, RetriedBound)
  BY DEF NotesFailure
<1> HIDE DEF n
<1>5. /\ IsLedger(attempts') /\ IsLedger(retried')
      /\ \A t \in Series : \A m \in ChaptersOf[t] :
            \/ attempts'[t][m] = attempts[t][m] /\ retried'[t][m] = retried[t][m]
            \/ /\ t = s /\ m = n
               /\ attempts'[t][m] = IF attempts[t][m] = RetryCap THEN RetryCap ELSE attempts[t][m] + 1
               /\ \/ retried'[t][m] = retried[t][m]
                  \/ ~worker[w].blind /\ retried'[t][m] = retried[t][m] + 1
  <2>1. CASE UNCHANGED <<attempts, retried>>
    BY <1>3, <2>1 DEF IsLedger
  <2>2. CASE ~ UNCHANGED <<attempts, retried>>
    <3>1. n \in ChaptersOf[s]
      BY <1>2
    <3>2. /\ IsLedger(attempts')
          /\ \A t \in Series : \A m \in ChaptersOf[t] :
                attempts'[t][m] = IF t = s /\ m = n /\ attempts[t][m] # RetryCap
                                    THEN attempts[t][m] + 1 ELSE attempts[t][m]
      BY <1>2, <1>3, <1>4, <2>2, <3>1, NotedLedger
    <3>3. CASE worker[w].blind
      <4>1. retried' = retried
        BY <1>4, <2>2, <3>3
      <4>2. IsLedger(retried')
        BY <1>3, <4>1 DEF IsLedger
      <4> QED BY <3>2, <4>1, <4>2
    <3>4. CASE ~worker[w].blind
      <4>1. retried' = Noted(retried, s, n, RetriedBound)
        BY <1>4, <2>2, <3>4
      <4>2. /\ IsLedger(retried')
            /\ \A t \in Series : \A m \in ChaptersOf[t] :
                  retried'[t][m] = IF t = s /\ m = n /\ retried[t][m] # RetriedBound
                                     THEN retried[t][m] + 1 ELSE retried[t][m]
        BY <1>2, <1>3, <3>1, <4>1, NotedLedger
      <4> QED BY <3>2, <3>4, <4>2
    <3> QED BY <3>3, <3>4
  <2> QED BY <2>1, <2>2
<1>6. ASSUME NEW t \in Series, NEW m \in ChaptersOf[t]
      PROVE  /\ attempts[t][m] \in Nat /\ retried[t][m] \in Nat /\ attempts'[t][m] \in Nat /\ retried'[t][m] \in Nat
             /\ attempts[t][m] < RetryCap => retried[t][m] <= attempts[t][m]
             /\ retried[t][m] + Pending("sweep", t, m) + Pending("check", t, m) <= RetryCap + 1
             /\ \A v \in Workers : Pending(v, t, m) \in {0, 1} /\ Pending(v, t, m)' \in {0, 1}
             /\ \A v \in Workers \ {w} : Pending(v, t, m)' = Pending(v, t, m)
             /\ Pending(w, t, m)' <= Pending(w, t, m)
             /\ t = s /\ m = n /\ ~worker[w].blind => Pending(w, t, m) = 1 /\ Pending(w, t, m)' = 0
  <2>1. /\ attempts[t][m] \in Nat /\ retried[t][m] \in Nat /\ attempts'[t][m] \in Nat /\ retried'[t][m] \in Nat
    BY <1>3, <1>5 DEF IsLedger
  <2>2. /\ attempts[t][m] < RetryCap => retried[t][m] <= attempts[t][m]
        /\ retried[t][m] + Pending("sweep", t, m) + Pending("check", t, m) <= RetryCap + 1
    BY DEF IInv, LedgerCounts, NothingHidden
  <2>3. \A v \in Workers \ {w} : Pending(v, t, m)' = Pending(v, t, m)
    BY <1>1 DEF Pending, Working
  <2>4. Pending(w, t, m)' <= Pending(w, t, m)
    BY <1>1 DEF Pending, Working
  <2>5. t = s /\ m = n /\ ~worker[w].blind => Pending(w, t, m) = 1 /\ Pending(w, t, m)' = 0
    BY <1>1, <1>2 DEF Pending, Working
  <2> QED BY <2>1, <2>2, <2>3, <2>4, <2>5, PendingType
<1>7. NothingHidden'
  <2> SUFFICES ASSUME NEW t \in Series, NEW m \in ChaptersOf[t], attempts'[t][m] < RetryCap
               PROVE  retried'[t][m] <= attempts'[t][m]
    BY DEF NothingHidden
  <2> QED BY <1>3, <1>5, <1>6
<1>8. ASSUME NEW t \in Series, NEW m \in ChaptersOf[t]
      PROVE  retried'[t][m] + Pending("sweep", t, m)' + Pending("check", t, m)' <= RetryCap + 1
  <2>1. retried'[t][m] = retried[t][m] \/ (t = s /\ m = n /\ ~worker[w].blind /\ retried'[t][m] = retried[t][m] + 1)
    BY <1>5
  <2>2. PICK v \in Workers \ {w} : Workers = {v, w}
    BY DEF Workers
  <2>3. PICK a, b, c, d : a = Pending(v, t, m) /\ b = Pending(w, t, m) /\ c = Pending(v, t, m)' /\ d = Pending(w, t, m)'
    OBVIOUS
  <2>4. PICK x, y : x = retried[t][m] /\ y = retried'[t][m]
    OBVIOUS
  <2>5. /\ x \in Nat /\ y \in Nat /\ a \in {0, 1} /\ b \in {0, 1} /\ c = a /\ d \in {0, 1} /\ d <= b
        /\ t = s /\ m = n /\ ~worker[w].blind => b = 1 /\ d = 0
    BY <1>6, <2>2, <2>3, <2>4
  <2>6. \/ v = "sweep" /\ w = "check"
        \/ v = "check" /\ w = "sweep"
    BY <2>2 DEF Workers
  <2>7. x + a + b <= RetryCap + 1
    BY <1>3, <1>6, <2>3, <2>4, <2>5, <2>6
  <2>8. y + c + d <= RetryCap + 1
    BY <1>3, <2>1, <2>4, <2>5, <2>7
  <2>9. CASE v = "sweep" /\ w = "check"
    BY <2>3, <2>4, <2>8, <2>9
  <2>10. CASE v = "check" /\ w = "sweep"
    <3>1. y + d + c <= RetryCap + 1
      BY <1>3, <2>5, <2>8
    <3> QED BY <2>3, <2>4, <2>10, <3>1
  <2> QED BY <2>6, <2>9, <2>10
<1> QED BY <1>5, <1>7, <1>8 DEF LedgerType, LedgerCounts

\* An attempt after which the call goes on: one chapter fewer to try, and one
\* more added or failed.
LEMMA AttemptEffect ==
    ASSUME IInv, NEW w \in Workers, Lands(w) \/ FailsAlone(w)
    PROVE  /\ CallShape' /\ worker[w].step = "fetch"
           /\ \A v \in Workers \ {w} : worker'[v] = worker[v]
           /\ worker'[w].series = worker[w].series /\ worker'[w].max = worker[w].max
           /\ worker'[w].blind = worker[w].blind
           /\ worker'[w].step = "loop" /\ worker'[w].todo = worker[w].todo \ {Current(w)}
           /\ worker'[w].added \in Nat /\ worker'[w].failed \in Nat
           /\ worker'[w].added + worker'[w].failed = worker[w].added + worker[w].failed + 1
           /\ UNCHANGED <<visible, sweep>>
           /\ NotesFailure(w) \/ UNCHANGED <<attempts, retried>>
           /\ refused' \subseteq blocked' /\ refused' \subseteq refused
<1>1. CallShape /\ worker[w].added \in Nat /\ worker[w].failed \in Nat /\ refused \subseteq blocked
  BY DEF IInv, Counts
<1>2. CASE Lands(w)
  <2>1. CallIs(w, "loop", worker[w].todo \ {Current(w)}, worker[w].added + 1, worker[w].failed)
    BY <1>1, <1>2, UpdateAdded DEF Lands
  <2>2. /\ worker[w].step = "fetch" /\ UNCHANGED <<visible, sweep>>
        /\ NotesFailure(w) \/ UNCHANGED <<attempts, retried>>
        /\ refused' \subseteq blocked' /\ refused' \subseteq refused
    BY <1>1, <1>2 DEF Lands, Cool, Unreported
  <2> QED BY <1>1, <2>1, <2>2 DEF CallIs
<1>3. CASE FailsAlone(w)
  <2>1. CallIs(w, "loop", worker[w].todo \ {Current(w)}, worker[w].added, worker[w].failed + 1)
    BY <1>1, <1>3, UpdateFailed DEF FailsAlone
  <2>2. /\ worker[w].step = "fetch" /\ UNCHANGED <<visible, sweep>>
        /\ NotesFailure(w) \/ UNCHANGED <<attempts, retried>>
        /\ refused' \subseteq blocked' /\ refused' \subseteq refused
    BY <1>1, <1>3 DEF FailsAlone, Cool
  <2> QED BY <1>1, <2>1, <2>2 DEF CallIs
<1> QED BY <1>2, <1>3

LEMMA AttemptKeeps ==
    ASSUME IInv, NEW w \in Workers, Lands(w) \/ FailsAlone(w)
    PROVE  IInv'
<1> DEFINE s == worker[w].series
           n == Current(w)
<1>1. /\ CallShape' /\ worker[w].step = "fetch"
      /\ \A v \in Workers \ {w} : worker'[v] = worker[v]
      /\ worker'[w].series = s /\ worker'[w].max = worker[w].max
      /\ worker'[w].step = "loop" /\ worker'[w].todo = worker[w].todo \ {n}
      /\ worker'[w].added \in Nat /\ worker'[w].failed \in Nat
      /\ worker'[w].added + worker'[w].failed = worker[w].added + worker[w].failed + 1
      /\ UNCHANGED <<visible, sweep>>
      /\ refused' \subseteq blocked' /\ refused' \subseteq refused
  BY AttemptEffect
<1>2. /\ s \in Series /\ Src(w) \in Sources /\ worker[w].todo \subseteq ChaptersOf[s]
      /\ Cardinality(worker[w].todo) \in Nat
      /\ Cardinality(worker[w].todo \ {n}) = Cardinality(worker[w].todo) - 1
  <2> HIDE DEF n
  <2> QED BY <1>1, CurrentIsOne, FS_RemoveElement, FS_CardinalityType DEF n
<1>3. LedgerType' /\ LedgerCounts'
  BY <1>1, AttemptEffect, AttemptLedger
<1> HIDE DEF n
<1>4. SweepShape' /\ Counts' /\ visible' \subseteq Series /\ refused' \subseteq blocked'
  BY <1>1 DEF IInv, SweepShape, Locals, Counts
<1>5. CallsAreRouted'
  BY <1>1, <1>2 DEF IInv, CallsAreRouted, Asking, Working, Src
<1>6. WithinMax'
  <2>1. WithinMax
    BY DEF IInv
  <2>2. worker[w].added + worker[w].failed + Cardinality(worker[w].todo) <= worker[w].max
    BY <1>1, <2>1 DEF WithinMax, Working
  <2>3. Cardinality(worker'[w].todo) = Cardinality(worker[w].todo) - 1
    BY <1>1, <1>2
  <2>4. Cardinality(worker'[w].todo) \in Nat
    BY <1>1, CurrentIsOne, FS_Subset, FS_CardinalityType
  <2>5. worker[w].added \in Nat /\ worker[w].failed \in Nat /\ worker[w].max \in Nat
    BY DEF IInv, Counts
  <2>6. /\ worker'[w].added + worker'[w].failed + Cardinality(worker'[w].todo) <= worker'[w].max
        /\ worker'[w].added + worker'[w].failed <= worker'[w].max
    BY <1>1, <1>2, <2>2, <2>3, <2>4, <2>5
  <2>7. (\A v \in Workers \ {w} : worker'[v] = worker[v]) /\ worker'[w].step = "loop"
    BY <1>1
  <2> QED BY <2>1, <2>6, <2>7 DEF WithinMax, Working
<1>7. CallWithinBudget'
  BY <1>1 DEF IInv, CallWithinBudget, Workers
<1>8. NoKnockAfterRefusal'
  BY <1>1 DEF IInv, NoKnockAfterRefusal, Src, Workers
<1> QED BY <1>1, <1>3, <1>4, <1>5, <1>6, <1>7, <1>8 DEF IInv

\* The attempt that ends the call, and with it what it may ask of its source.
LEMMA RefusedKeeps ==
    ASSUME IInv, NEW w \in Workers, Refused(w)
    PROVE  IInv'
<1>1. /\ CallShape /\ worker[w] = Fields(worker[w]) /\ worker[w].step = "fetch" /\ InCall(w)
      /\ worker[w].added \in Nat /\ worker[w].failed \in Nat /\ worker[w].max \in Nat
      /\ UNCHANGED <<visible, sweep>>
  BY DEF Refused, IInv, Counts, CallShape, InCall
<1>2. PICK r : r = [worker[w] EXCEPT !.outcome = "ok", !.failed = @ + 1]
  OBVIOUS
<1>3. r = Fields(r) /\ r.max = worker[w].max /\ r.added = worker[w].added /\ r.failed = worker[w].failed + 1
  BY <1>1, <1>2 DEF Fields
<1>4. Leaves(w, r)
  BY <1>2 DEF Refused
<1>5. ~Working(w)' /\ \A v \in Workers \ {w} : worker'[v] = worker[v]
  BY <1>1, <1>3, <1>4, LeavesIs
<1>6. LedgerType' /\ LedgerCounts'
  <2>1. NotesFailure(w)
    BY DEF Refused
  <2> QED BY <1>1, <1>5, <2>1, AttemptLedger
<1>7. refused' \subseteq blocked' /\ (refused' \subseteq refused \/ w = "sweep")
  BY DEF Refused, Unreported, IInv
<1>8. r.added + r.failed <= r.max
  <2>1. worker[w].added + worker[w].failed + Cardinality(worker[w].todo) <= worker[w].max
    BY <1>1 DEF IInv, WithinMax, Working
  <2>2. Cardinality(worker[w].todo) \in Nat /\ Cardinality(worker[w].todo) # 0
    BY <1>1, CurrentIsOne, FS_EmptySet, FS_CardinalityType
  <2> QED BY <1>1, <1>3, <2>1, <2>2
<1>9. r.added \in Nat /\ r.failed \in Nat
  BY <1>1, <1>3
<1> QED BY <1>1, <1>3, <1>4, <1>6, <1>7, <1>8, <1>9, LeaveKeeps

-----------------------------------------------------------------------------
(* runUpdateAll and the scan *)

\* The steps of the sweep between two calls of updateSeries.
Turns == StartSweep \/ PassOver \/ StopShort \/ EndPass \/ AskingThrows \/ After \/ EndSweep
            \/ (\E s \in Series : ScanFolder(s)) \/ ScanEnds \/ ScanThrows

LEMMA TurnEffect ==
    ASSUME IInv, Turns
    PROVE  /\ sweep.phase # "call" /\ sweep'.phase # "call"
           /\ SweepShape' /\ sweep'.spent \in {0, sweep.spent}
           /\ UNCHANGED <<worker, visible, blocked, refused>>
           /\ UNCHANGED <<attempts, retried>> \/ ScanEnds
<1>0. sweep = Locals(sweep)
  BY DEF IInv, SweepShape
<1>1. CASE StartSweep
  BY <1>0, <1>1 DEF StartSweep, NoSweep, SweepShape, Locals, library
<1>2. CASE PassOver
  BY <1>0, <1>2 DEF PassOver, AtTurn, SweepShape, Locals, library
<1>3. CASE StopShort
  BY <1>3 DEF StopShort, Due, AtTurn, Over, NoSweep, SweepShape, Locals, library
<1>4. CASE EndPass
  BY <1>0, <1>4 DEF EndPass, Over, NoSweep, SweepShape, Locals, library
<1>5. CASE After
  BY <1>0, <1>5 DEF After, SweepShape, Locals, library
<1>6. CASE EndSweep
  BY <1>0, <1>6 DEF EndSweep, NoSweep, SweepShape, Locals, library
<1>7. CASE \E s \in Series : ScanFolder(s)
  BY <1>0, <1>7 DEF ScanFolder, SweepShape
<1>8. CASE ScanEnds
  BY <1>0, <1>8 DEF ScanEnds, SweepShape, Locals
<1>9. CASE ScanThrows
  BY <1>0, <1>9 DEF ScanThrows, AskingThrows, SweepShape, Locals, library
<1>10. CASE AskingThrows
  BY <1>10 DEF AskingThrows, NoSweep, SweepShape, Locals, library
<1> QED BY <1>1, <1>2, <1>3, <1>4, <1>5, <1>6, <1>7, <1>8, <1>9, <1>10 DEF Turns

\* A ledger that only loses attempts keeps its type and its bound.
LEMMA ScanEndsLedger ==
    ASSUME IInv, ScanEnds
    PROVE  /\ LedgerType' /\ NothingHidden'
           /\ \A s \in Series : \A n \in ChaptersOf[s] : retried'[s][n] <= retried[s][n]
<1>1. \/ attempts' = Forgotten(attempts) /\ retried' = Forgotten(retried)
      \/ attempts' = attempts /\ retried' = retried
  BY DEF ScanEnds
<1>2. IsLedger(attempts) /\ IsLedger(retried) /\ NothingHidden
  BY DEF IInv, LedgerType, LedgerCounts
<1>3. \A s \in Series : \A n \in ChaptersOf[s] : retried[s][n] \in Nat /\ attempts[s][n] \in Nat
  BY <1>2 DEF IsLedger
<1>4. CASE attempts' = Forgotten(attempts) /\ retried' = Forgotten(retried)
  <2>1. LedgerType' /\ \A s \in Series : \A n \in ChaptersOf[s] :
                          /\ attempts'[s][n] = IF chap[s][n] = "row" THEN 0 ELSE attempts[s][n]
                          /\ retried'[s][n] = IF chap[s][n] = "row" THEN 0 ELSE retried[s][n]
    BY <1>2, <1>4, ForgottenLedger DEF LedgerType
  <2> QED BY <1>2, <1>3, <2>1 DEF NothingHidden
<1>5. CASE attempts' = attempts /\ retried' = retried
  <2>1. LedgerType' /\ NothingHidden'
    BY <1>2, <1>5 DEF LedgerType, IsLedger, NothingHidden
  <2> QED BY <1>3, <1>5, <2>1
<1> QED BY <1>1, <1>4, <1>5

LEMMA TurnKeeps ==
    ASSUME IInv, Turns
    PROVE  IInv'
<1>1. /\ sweep.phase # "call" /\ sweep'.phase # "call"
      /\ SweepShape' /\ sweep'.spent \in {0, sweep.spent}
      /\ UNCHANGED <<worker, visible, blocked, refused>>
      /\ UNCHANGED <<attempts, retried>> \/ ScanEnds
  BY TurnEffect
<1>2. CallShape' /\ Counts' /\ CallsAreRouted' /\ WithinMax'
  BY <1>1 DEF IInv, CallShape, Counts, CallsAreRouted, WithinMax, Asking, Working, Src
<1>3. LedgerType' /\ LedgerCounts'
  <2>1. \A v \in Workers : \A s \in Series : \A n \in ChaptersOf[s] : Pending(v, s, n)' <= Pending(v, s, n)
    <3>1. \A v, s, n : Pending(v, s, n)' = Pending(v, s, n)
      BY <1>1 DEF Pending, Working
    <3> QED BY <3>1, PendingType
  <2>2. CASE ScanEnds
    <3>1. IsLedger(retried) /\ LedgerCounts
      BY DEF IInv, LedgerType
    <3> QED BY <2>1, <2>2, <3>1, ScanEndsLedger, LedgerKept DEF LedgerType
  <2>3. CASE UNCHANGED <<attempts, retried>>
    BY <2>1, <2>3, LedgerSame
  <2> QED BY <1>1, <2>2, <2>3
<1>5. CallWithinBudget'
  BY <1>1, LimitsAssumption DEF IInv, CallWithinBudget
<1>6. NoKnockAfterRefusal' /\ visible' \subseteq Series /\ refused' \subseteq blocked'
  BY <1>1 DEF IInv, NoKnockAfterRefusal, Src
<1> QED BY <1>1, <1>2, <1>3, <1>5, <1>6 DEF IInv

LEMMA CalledIs ==
    ASSUME NEW s, NEW m
    PROVE  /\ Called(s, m) = Fields(Called(s, m))
           /\ Called(s, m).step = "begin" /\ Called(s, m).max = m
           /\ Called(s, m).added = 0 /\ Called(s, m).failed = 0
<1>1. PICK q : q = Idle
  OBVIOUS
<1>2. q = Fields(q) /\ q.added = 0 /\ q.failed = 0
  BY <1>1, IdleIs
<1>3. PICK r : r = [q EXCEPT !.step = "begin", !.series = s, !.max = m]
  OBVIOUS
<1>4. r = Fields(r)
  BY <1>2, <1>3 DEF Fields
<1>5. r.step = "begin" /\ r.max = m /\ r.added = 0 /\ r.failed = 0
  BY <1>2, <1>3 DEF Fields
<1>6. r = Called(s, m)
  BY <1>1, <1>3 DEF Called
<1> QED BY <1>4, <1>5, <1>6

\* The sweep or a request sets up or clears a call that has tried nothing.
LEMMA ReplaceKeeps ==
    ASSUME IInv, NEW w \in Workers, NEW r, r = Fields(r), worker' = [worker EXCEPT ![w] = r],
           r.step \in {"idle", "begin"}, r.max \in Nat, r.added = 0, r.failed = 0,
           UNCHANGED <<attempts, retried, visible, blocked, refused>>,
           SweepShape', sweep'.spent \in Nat, CallWithinBudget'
    PROVE  IInv'
<1>1. CallShape' /\ worker'[w] = r /\ \A v \in Workers \ {w} : worker'[v] = worker[v]
  BY ShapeKept DEF IInv
<1>2. \A v \in Workers : \A s \in Series : \A n \in ChaptersOf[s] : Pending(v, s, n)' <= Pending(v, s, n)
  BY <1>1 DEF Pending, Working
<1>3. LedgerType' /\ LedgerCounts' /\ refused' \subseteq blocked'
  BY <1>2, LedgerSame DEF IInv
<1>4. /\ worker'[w].step \in {"idle", "begin", "return"} /\ worker'[w].max \in Nat
      /\ worker'[w].added = 0 /\ worker'[w].failed = 0
  BY <1>1
<1>5. worker'[w].added + worker'[w].failed <= worker'[w].max
  BY <1>4
<1> QED BY <1>1, <1>3, <1>4, <1>5, CallReplaced

LEMMA VisitKeeps ==
    ASSUME IInv, Visit
    PROVE  IInv'
<1> DEFINE r == Called(Shift(Turn), Allowance)
<1>1. /\ sweep.spent \in Nat /\ sweep.spent < SweepMax /\ sweep = Locals(sweep)
      /\ sweep' = [sweep EXCEPT !.phase = "call", !.pass = @ \ {Turn}, !.progressed = TRUE,
                                !.queue[Turn] = @ \ {Shift(Turn)}]
      /\ worker' = [worker EXCEPT !["sweep"] = r]
      /\ UNCHANGED <<attempts, retried, visible, blocked, refused>>
  BY DEF Visit, IInv, Counts, SweepShape, library
<1>2. Allowance \in Nat /\ Allowance <= SweepMax - sweep.spent
  <2>1. {MaxNew, SweepMax - sweep.spent} \in SUBSET Nat
    BY <1>1, LimitsAssumption
  <2>2. /\ Allowance \in {MaxNew, SweepMax - sweep.spent}
        /\ Allowance <= SweepMax - sweep.spent
    BY <2>1, MinInSet DEF Allowance
  <2> QED BY <2>1, <2>2
<1>3. SweepShape' /\ sweep'.phase = "call" /\ sweep'.spent = sweep.spent
  BY <1>1 DEF SweepShape, Locals
<1>4. r = Fields(r) /\ r.step = "begin" /\ r.max = Allowance /\ r.added = 0 /\ r.failed = 0
  BY CalledIs
<1> HIDE DEF r
<1>5. worker'["sweep"] = r
  BY <1>1 DEF IInv, CallShape, Workers
<1>6. CallWithinBudget'
  BY <1>1, <1>2, <1>3, <1>4, <1>5, LimitsAssumption DEF CallWithinBudget
<1> QED BY <1>1, <1>2, <1>3, <1>4, <1>6, ReplaceKeeps DEF Workers

LEMMA TallyKeeps ==
    ASSUME IInv, Tally
    PROVE  IInv'
<1>1. /\ sweep.phase = "call" /\ sweep = Locals(sweep) /\ sweep.spent \in Nat
      /\ worker["sweep"].added \in Nat /\ worker["sweep"].failed \in Nat /\ worker["sweep"].max \in Nat
      /\ worker' = [worker EXCEPT !["sweep"] = Idle]
      /\ UNCHANGED <<attempts, retried, visible, blocked, refused>>
  BY DEF Tally, IInv, Counts, SweepShape, Workers, library
<1>2. SweepShape' /\ sweep'.phase # "call" /\ sweep'.spent \in Nat /\ sweep'.spent <= SweepMax
  <2> DEFINE r == worker["sweep"]
  <2>1. PICK c : c = [sweep EXCEPT !.phase = "visit", !.added = @ \/ r.added > 0, !.spent = @ + r.added + r.failed,
                                   !.parked = IF r.outcome = "blocked" THEN @ \cup {Src("sweep")} ELSE @]
    OBVIOUS
  <2>2. c = Locals(c) /\ c.phase = "visit" /\ c.spent = sweep.spent + r.added + r.failed
    BY <1>1, <2>1 DEF Locals
  <2>3. sweep' = IF r.full THEN Over([c EXCEPT !.stopped = "disk"]) ELSE c
    BY <2>1 DEF Tally
  <2>4. c.spent \in Nat /\ c.spent <= SweepMax
    <3>1. sweep.spent + r.max <= SweepMax /\ r.added + r.failed <= r.max
      BY <1>1 DEF IInv, CallWithinBudget, WithinMax, Workers
    <3> QED BY <1>1, <2>2, <3>1, LimitsAssumption
  <2>5. CASE r.full
    <3>1. sweep'.phase = "after" /\ sweep'.spent = 0 /\ SweepShape'
      BY <2>3, <2>5 DEF Over, NoSweep, SweepShape, Locals
    <3> QED BY <3>1, LimitsAssumption
  <2>6. CASE ~r.full
    BY <2>2, <2>3, <2>4, <2>6 DEF SweepShape
  <2> QED BY <2>5, <2>6
<1>4. worker'["sweep"] = Idle
  BY <1>1 DEF IInv, CallShape, Workers
<1>5. CallWithinBudget'
  BY <1>2, <1>4, IdleIs DEF CallWithinBudget
<1>6. "sweep" \in Workers
  BY DEF Workers
<1>7. PICK r : r = Idle
  OBVIOUS
<1>8. r = Fields(r) /\ r.step \in {"idle", "begin"} /\ r.max \in Nat /\ r.added = 0 /\ r.failed = 0
  BY <1>7, IdleIs
<1>9. worker' = [worker EXCEPT !["sweep"] = r]
  BY <1>1, <1>7
<1> QED BY <1>1, <1>2, <1>5, <1>6, <1>8, <1>9, ReplaceKeeps

-----------------------------------------------------------------------------
(* The series check, the process and the world *)

LEMMA CheckKeeps ==
    ASSUME IInv, NEW s \in Series, StartCheck(s)
    PROVE  IInv'
<1>1. PICK r : r = Called(s, CheckMax)
  OBVIOUS
<1>2. r = Fields(r) /\ r.step = "begin" /\ r.max = CheckMax /\ r.added = 0 /\ r.failed = 0
  BY <1>1, CalledIs
<1>3. worker' = [worker EXCEPT !["check"] = r] /\ UNCHANGED <<attempts, retried, visible, blocked, refused, sweep>>
  BY <1>1 DEF StartCheck, library
<1>4. worker'["sweep"] = worker["sweep"]
  BY <1>3 DEF IInv, CallShape, Workers
<1>5. SweepShape' /\ sweep'.spent \in Nat /\ CallWithinBudget'
  BY <1>3, <1>4 DEF IInv, SweepShape, Locals, Counts, CallWithinBudget
<1> QED BY <1>2, <1>3, <1>5, ReplaceKeeps, LimitsAssumption DEF Workers

\* No call is under way, and the ledger is as it was.
LEMMA AllIdleKeeps ==
    ASSUME visible \subseteq Series, refused \subseteq blocked, LedgerType,
           NothingHidden, \A s \in Series : \A n \in ChaptersOf[s] : retried[s][n] <= RetryCap + 1,
           worker = [w \in Workers |-> Idle], sweep = NoSweep
    PROVE  IInv
<1>1. \A w \in Workers : worker[w] = Idle
  OBVIOUS
<1>2. CallShape
  <2>1. \A w \in Workers : worker[w] = Fields(worker[w])
    BY <1>1, IdleIs
  <2> QED BY <2>1 DEF CallShape
<1>3. sweep.phase = "idle" /\ sweep.spent = 0 /\ SweepShape
  BY DEF NoSweep, SweepShape, Locals
<1>4. \A w \in Workers : worker[w].step = "idle" /\ worker[w].max = 0 /\ worker[w].added = 0 /\ worker[w].failed = 0
  BY <1>1, IdleIs
<1>5. Counts /\ CallsAreRouted /\ WithinMax
  BY <1>3, <1>4 DEF Counts, CallsAreRouted, WithinMax, Asking, Working
<1>6. CallWithinBudget /\ NoKnockAfterRefusal
  BY <1>3, <1>4, LimitsAssumption DEF CallWithinBudget, NoKnockAfterRefusal, Workers
<1>7. LedgerCounts
  <2> SUFFICES ASSUME NEW s \in Series, NEW n \in ChaptersOf[s]
               PROVE  retried[s][n] + Pending("sweep", s, n) + Pending("check", s, n) <= RetryCap + 1
    BY DEF LedgerCounts
  <2>1. Pending("sweep", s, n) = 0 /\ Pending("check", s, n) = 0
    BY <1>4 DEF Pending, Working, Workers
  <2>2. retried[s][n] \in Nat /\ retried[s][n] <= RetryCap + 1
    BY DEF LedgerType, IsLedger
  <2> QED BY <2>1, <2>2, LimitsAssumption
<1> QED BY <1>2, <1>3, <1>5, <1>6, <1>7 DEF IInv

LEMMA InitIInv == Init => IInv
<1> SUFFICES ASSUME Init PROVE IInv
  OBVIOUS
<1>1. attempts = [s \in Series |-> [n \in ChaptersOf[s] |-> 0]] /\ retried = attempts
  BY DEF Init
<1>2. LedgerType
  BY <1>1 DEF LedgerType, IsLedger
<1>3. NothingHidden /\ \A s \in Series : \A n \in ChaptersOf[s] : retried[s][n] <= RetryCap + 1
  BY <1>1, LimitsAssumption DEF NothingHidden
<1> QED BY <1>2, <1>3, AllIdleKeeps DEF Init

\* The cap holds of what is recorded, whatever is pending.
LEMMA Capped == IInv => CappedLeftAlone
<1> SUFFICES ASSUME IInv, NEW s \in Series, NEW n \in ChaptersOf[s]
             PROVE  retried[s][n] <= RetryCap + 1
  BY DEF CappedLeftAlone
<1>1. retried[s][n] + Pending("sweep", s, n) + Pending("check", s, n) <= RetryCap + 1
  BY DEF IInv, LedgerCounts
<1>2. /\ retried[s][n] \in Nat
      /\ Pending("sweep", s, n) \in {0, 1} /\ Pending("check", s, n) \in {0, 1}
  BY PendingType DEF IInv, LedgerType, IsLedger
<1> QED BY <1>1, <1>2, LimitsAssumption

LEMMA ExitsKeeps ==
    ASSUME IInv, Exits
    PROVE  IInv'
<1>1. /\ worker' = [w \in Workers |-> Idle] /\ sweep' = NoSweep
      /\ UNCHANGED <<attempts, retried, visible, blocked, refused>>
  BY DEF Exits, library
<1>2. NothingHidden' /\ \A s \in Series : \A n \in ChaptersOf[s] : retried'[s][n] <= RetryCap + 1
  BY <1>1, Capped DEF CappedLeftAlone, IInv, LedgerCounts, NothingHidden
<1>3. LedgerType'
  BY <1>1 DEF IInv, LedgerType, IsLedger
<1>4. visible' \subseteq Series /\ refused' \subseteq blocked'
  BY <1>1 DEF IInv
<1>5. (/\ visible \subseteq Series /\ refused \subseteq blocked /\ LedgerType
       /\ NothingHidden /\ \A s \in Series : \A n \in ChaptersOf[s] : retried[s][n] <= RetryCap + 1
       /\ worker = [w \in Workers |-> Idle] /\ sweep = NoSweep)' => IInv'
  BY AllIdleKeeps, PTL
<1> QED BY <1>1, <1>2, <1>3, <1>4, <1>5

\* Nothing the invariant is about gets worse: the calls, the sweep and the
\* ledger stay, and what the sweep is refused shrinks if it changes.
LEMMA SameKeeps ==
    ASSUME IInv, UNCHANGED <<attempts, retried, sweep, worker>>,
           visible' \subseteq Series, refused' \subseteq refused, refused' \subseteq blocked'
    PROVE  IInv'
<1>1. CallShape' /\ SweepShape' /\ Counts' /\ CallsAreRouted' /\ WithinMax' /\ CallWithinBudget'
  BY DEF IInv, CallShape, SweepShape, Counts, CallsAreRouted, WithinMax, CallWithinBudget,
         Asking, Working, Src
<1>2. LedgerType'
  BY DEF IInv, LedgerType, IsLedger
<1>3. LedgerCounts'
  <2>1. \A w, s, n : Pending(w, s, n)' = Pending(w, s, n)
    BY DEF Pending, Working
  <2> QED BY <2>1 DEF IInv, LedgerCounts, NothingHidden
<1>4. NoKnockAfterRefusal'
  BY DEF IInv, NoKnockAfterRefusal, Src
<1> QED BY <1>1, <1>2, <1>3, <1>4 DEF IInv

LEMMA ProcessKeeps ==
    ASSUME IInv, Sigterm \/ Boot
    PROVE  IInv'
<1>1. UNCHANGED <<attempts, retried, visible, blocked, refused, sweep, worker>>
  BY DEF Sigterm, Boot, library
<1> QED BY <1>1, SameKeeps DEF IInv

\* A cooldown ends, for the sweep too.
LEMMA LapseKeeps ==
    ASSUME IInv, NEW k \in Sources, CooldownLapses(k)
    PROVE  IInv'
<1>1. /\ UNCHANGED <<attempts, retried, visible, sweep, worker>>
      /\ refused' \subseteq refused /\ refused' \subseteq blocked'
  BY DEF CooldownLapses, Cool, IInv, library
<1> QED BY <1>1, SameKeeps DEF IInv

\* Hiding and restoring stay within the library.
LEMMA ToggleKeeps ==
    ASSUME IInv, NEW s \in Series, Toggle(s)
    PROVE  IInv'
<1>1. /\ UNCHANGED <<attempts, retried, sweep, worker, blocked, refused>>
      /\ visible' \subseteq Series
  BY DEF Toggle, IInv
<1> QED BY <1>1, SameKeeps DEF IInv

\* Only the ledger moves, and not up for what the callers noted.
LEMMA LedgerMoves ==
    ASSUME IInv, UNCHANGED <<visible, blocked, refused, sweep, worker>>, LedgerType', NothingHidden',
           \A x \in Series : \A m \in ChaptersOf[x] : retried'[x][m] <= retried[x][m]
    PROVE  IInv'
<1>1. LedgerCounts'
  <2>1. \A v \in Workers : \A x \in Series : \A m \in ChaptersOf[x] : Pending(v, x, m)' <= Pending(v, x, m)
    <3>1. \A v, x, m : Pending(v, x, m)' = Pending(v, x, m)
      BY DEF Pending, Working
    <3> QED BY <3>1, PendingType
  <2> QED BY <2>1, LedgerKept DEF IInv, LedgerType
<1>2. CallShape' /\ SweepShape' /\ Counts' /\ CallsAreRouted' /\ WithinMax' /\ CallWithinBudget'
  BY DEF IInv, CallShape, SweepShape, Counts, CallsAreRouted, WithinMax, CallWithinBudget, Asking, Working, Src
<1>3. NoKnockAfterRefusal' /\ visible' \subseteq Series /\ refused' \subseteq blocked'
  BY DEF IInv, NoKnockAfterRefusal, Src
<1> QED BY <1>1, <1>2, <1>3 DEF IInv

\* The failures of a chapter nobody works on are forgotten.
LEMMA PublishKeeps ==
    ASSUME IInv, NEW s \in Series, NEW n \in ChaptersOf[s], Publish(s, n)
    PROVE  IInv'
<1>1. /\ UNCHANGED <<visible, blocked, refused, sweep, worker>>
      /\ attempts' = [attempts EXCEPT ![s][n] = 0] /\ retried' = [retried EXCEPT ![s][n] = 0]
  BY DEF Publish
<1>2. IsLedger(attempts) /\ IsLedger(retried)
  BY DEF IInv, LedgerType
<1>3. /\ LedgerType'
      /\ \A x \in Series : \A m \in ChaptersOf[x] : attempts'[x][m] = IF x = s /\ m = n THEN 0 ELSE attempts[x][m]
      /\ \A x \in Series : \A m \in ChaptersOf[x] : retried'[x][m] = IF x = s /\ m = n THEN 0 ELSE retried[x][m]
  <2>1. attempts' = Cleared(attempts, s, n) /\ retried' = Cleared(retried, s, n)
    BY <1>1 DEF Cleared
  <2>2. IsLedger(attempts') /\ IsLedger(retried')
    BY <1>2, <2>1, ClearedLedger
  <2> QED BY <1>2, <2>1, <2>2, ClearedLedger DEF LedgerType
<1>4. \A x \in Series : \A m \in ChaptersOf[x] : attempts[x][m] \in Nat /\ retried[x][m] \in Nat
  BY <1>2 DEF IsLedger
<1>5. \A x \in Series : \A m \in ChaptersOf[x] : retried'[x][m] <= retried[x][m]
  BY <1>3, <1>4
<1>6. \A x \in Series : \A m \in ChaptersOf[x] : attempts[x][m] < RetryCap => retried[x][m] <= attempts[x][m]
  BY DEF IInv, LedgerCounts, NothingHidden
<1>7. NothingHidden'
  <2> SUFFICES ASSUME NEW x \in Series, NEW m \in ChaptersOf[x], attempts'[x][m] < RetryCap
               PROVE  retried'[x][m] <= attempts'[x][m]
    BY DEF NothingHidden
  <2> QED BY <1>3, <1>4, <1>6
<1> QED BY <1>1, <1>3, <1>5, <1>7, LedgerMoves

\* A fill job's failure only takes a chapter closer to the cap.
LEMMA FillKeeps ==
    ASSUME IInv, NEW s \in Series, NEW n \in ChaptersOf[s], FillFails(s, n)
    PROVE  IInv'
<1>1. /\ UNCHANGED <<retried, visible, blocked, refused, sweep, worker>>
      /\ attempts' = Noted(attempts, s, n, AttemptsBound)
  BY DEF FillFails
<1>2. IsLedger(attempts) /\ IsLedger(retried) /\ AttemptsBound = RetryCap /\ RetryCap \in Nat
  BY LimitsAssumption DEF IInv, LedgerType, AttemptsBound
<1>3. /\ IsLedger(attempts') /\ IsLedger(retried')
      /\ \A x \in Series : \A m \in ChaptersOf[x] :
            attempts'[x][m] = IF x = s /\ m = n /\ attempts[x][m] # RetryCap THEN attempts[x][m] + 1 ELSE attempts[x][m]
  <2>1. /\ IsLedger(attempts')
        /\ \A x \in Series : \A m \in ChaptersOf[x] :
              attempts'[x][m] = IF x = s /\ m = n /\ attempts[x][m] # RetryCap THEN attempts[x][m] + 1 ELSE attempts[x][m]
    BY <1>1, <1>2, NotedLedger
  <2>2. IsLedger(retried')
    BY <1>1, <1>2 DEF IsLedger
  <2> QED BY <2>1, <2>2
<1>4. \A x \in Series : \A m \in ChaptersOf[x] : attempts[x][m] \in Nat /\ retried[x][m] \in Nat /\ retried'[x][m] = retried[x][m]
  BY <1>1, <1>2 DEF IsLedger
<1>5. \A x \in Series : \A m \in ChaptersOf[x] : retried'[x][m] <= retried[x][m]
  BY <1>4
<1>6. \A x \in Series : \A m \in ChaptersOf[x] : attempts[x][m] < RetryCap => retried[x][m] <= attempts[x][m]
  BY DEF IInv, LedgerCounts, NothingHidden
<1>7. NothingHidden'
  <2> SUFFICES ASSUME NEW x \in Series, NEW m \in ChaptersOf[x], attempts'[x][m] < RetryCap
               PROVE  retried'[x][m] <= attempts'[x][m]
    BY DEF NothingHidden
  <2> QED BY <1>2, <1>3, <1>4, <1>6
<1> QED BY <1>1, <1>3, <1>5, <1>7, LedgerMoves DEF LedgerType

-----------------------------------------------------------------------------
(* The theorems *)

LEMMA CallKeeps ==
    ASSUME IInv, NEW w \in Workers, UpdateSeries(w)
    PROVE  IInv'
<1>1. CASE Walks(w)
  BY <1>1, WalkKeeps
<1>2. CASE Lists(w)
  BY <1>2, ListsKeeps
<1>3. CASE Lands(w) \/ FailsAlone(w)
  BY <1>3, AttemptKeeps
<1>4. CASE Refused(w)
  BY <1>4, RefusedKeeps
<1> QED BY <1>1, <1>2, <1>3, <1>4 DEF UpdateSeries, Walks

LEMMA NextIInv == IInv /\ [Next]_vars => IInv'
<1> SUFFICES ASSUME IInv, [Next]_vars PROVE IInv'
  OBVIOUS
<1>1. CASE Turns
  BY <1>1, TurnKeeps
<1>2. CASE Visit
  BY <1>2, VisitKeeps
<1>3. CASE Tally
  BY <1>3, TallyKeeps
<1>4. CASE \E w \in Workers : UpdateSeries(w)
  BY <1>4, CallKeeps
<1>5. CASE \E s \in Series : StartCheck(s)
  BY <1>5, CheckKeeps
<1>6. CASE Sigterm \/ Boot
  BY <1>6, ProcessKeeps
<1>7. CASE Exits
  BY <1>7, ExitsKeeps
<1>8. CASE \E k \in Sources : CooldownLapses(k)
  BY <1>8, LapseKeeps
<1>9. CASE \E s \in Series : \E n \in ChaptersOf[s] : Publish(s, n) \/ FillFails(s, n)
  BY <1>9, PublishKeeps, FillKeeps
<1>10. CASE \E s \in Series : Toggle(s)
  BY <1>10, ToggleKeeps
<1>11. CASE UNCHANGED vars
  <2>1. UNCHANGED <<attempts, retried, visible, blocked, refused, sweep, worker>>
    BY <1>11 DEF vars, library
  <2> QED BY <2>1, SameKeeps DEF IInv
<1> QED
  BY <1>1, <1>2, <1>3, <1>4, <1>5, <1>6, <1>7, <1>8, <1>9, <1>10, <1>11
     DEF Next, SweepSteps, Turns

THEOREM InductiveInvariant == Spec => []IInv
<1>1. Init => IInv
  BY InitIInv
<1>2. IInv /\ [Next]_vars => IInv'
  BY NextIInv
<1> QED BY <1>1, <1>2, PTL DEF Spec

LEMMA WithinBudget == IInv => BudgetHeld
<1> SUFFICES ASSUME IInv PROVE BudgetHeld
  OBVIOUS
<1>1. /\ sweep.spent \in Nat /\ worker["sweep"].max \in Nat
      /\ worker["sweep"].added \in Nat /\ worker["sweep"].failed \in Nat
      /\ worker["sweep"].added + worker["sweep"].failed <= worker["sweep"].max
      /\ worker["sweep"].step = "idle" => worker["sweep"].added = 0 /\ worker["sweep"].failed = 0
  BY DEF IInv, Counts, WithinMax, Workers
<1>2. CASE sweep.phase = "call"
  <2>1. sweep.spent + worker["sweep"].max <= SweepMax
    BY <1>2 DEF IInv, CallWithinBudget
  <2> QED BY <1>1, <2>1, LimitsAssumption DEF BudgetHeld
<1>3. CASE sweep.phase # "call"
  <2>1. sweep.spent <= SweepMax /\ worker["sweep"].step = "idle"
    BY <1>3 DEF IInv, CallWithinBudget
  <2> QED BY <1>1, <2>1, LimitsAssumption DEF BudgetHeld
<1> QED BY <1>2, <1>3

\* updater.ts:38-44 and 197: maxNew is clamped to what SWEEP_MAX has left,
\* so the sweep's attempts never pass it, the ones under way included.
THEOREM SweepKeepsItsBudget == Spec => []BudgetHeld
  BY InductiveInvariant, WithinBudget, PTL

\* updater.ts:91-100: whatever fills write to the ledger and whatever of it
\* cannot be read or written, calls that could read it note a chapter's failure
\* RetryCap times and, when both read it before either wrote, once more.
THEOREM FailuresAreCapped == Spec => []CappedLeftAlone
  BY InductiveInvariant, Capped, PTL

\* updater.ts:123-128: a refusal ends the call, and if it could be written
\* down then no later call of the sweep passes the question about the cooldown
\* before it is over.
THEOREM RefusersAreLeftAlone == Spec => []NoKnockAfterRefusal
<1>1. IInv => NoKnockAfterRefusal
  BY DEF IInv
<1> QED BY <1>1, InductiveInvariant, PTL

-----------------------------------------------------------------------------
(* What is where: the types *)

\* A call under way is of a series, and the Map's keys, of which the pass has
\* some left, are sources of rows of the query.
RowsAreKnown ==
    /\ \A w \in Workers : worker[w].step # "idle" => worker[w].series \in Series
    /\ \A k \in sweep.keys : \E s \in Series : SourceOf[s] = k /\ sweep.rows[s] # 0
    /\ sweep.pass \subseteq sweep.keys

Typed == TypeOK /\ RowsAreKnown

LEMMA SeriesCount == Cardinality(Series) \in Nat
  BY SeriesAssumption, FS_CardinalityType

\* The one of a set whose number is the smallest.
LEMMA LeastOf ==
    ASSUME NEW S, S # {}, NEW f, \A x \in S : f[x] \in Nat
    PROVE  \E x \in S : \A y \in S : f[x] <= f[y]
<1> DEFINE N == {f[x] : x \in S}
<1>1. N \in SUBSET Nat /\ N # {}
  OBVIOUS
<1> HIDE DEF N
<1>2. Min(N) \in N /\ \A y \in N : Min(N) <= y
  BY <1>1, MinInSet
<1> QED BY <1>2 DEF N

\* While a pass has queues left, the one whose turn it is is one of them.
LEMMA TurnIsOne ==
    ASSUME Typed, sweep.pass # {}
    PROVE  Turn \in sweep.pass /\ Turn \in Sources
<1> DEFINE f == [k \in sweep.pass |-> FirstRow(k)]
<1>1. \A k \in sweep.pass : f[k] \in Nat
  <2> SUFFICES ASSUME NEW k \in sweep.pass PROVE FirstRow(k) \in Nat
    OBVIOUS
  <2> DEFINE N == {sweep.rows[s] : s \in {x \in Series : SourceOf[x] = k /\ sweep.rows[x] # 0}}
  <2>1. N \in SUBSET Nat
    BY SeriesCount DEF Typed, TypeOK, Sweeps
  <2>2. N # {}
    BY DEF Typed, RowsAreKnown
  <2> HIDE DEF N
  <2>3. Min(N) \in N
    BY <2>1, <2>2, MinInSet
  <2> QED BY <2>1, <2>3 DEF FirstRow, N
<1> HIDE DEF f
<1>2. PICK k \in sweep.pass : \A j \in sweep.pass : f[k] <= f[j]
  BY <1>1, LeastOf
<1>3. \A j \in sweep.pass : FirstRow(k) <= FirstRow(j)
  BY <1>2 DEF f
<1>4. Turn \in sweep.pass
  BY <1>3 DEF Turn
<1> QED BY <1>4 DEF Typed, TypeOK, Sweeps

\* The series a queue is shifted by is one of its own.
LEMMA ShiftIsOne ==
    ASSUME Typed, NEW k \in Sources, sweep.queue[k] # {}
    PROVE  Shift(k) \in sweep.queue[k] /\ Shift(k) \in Series
<1>1. sweep.queue[k] \subseteq Series /\ \A s \in sweep.queue[k] : sweep.rows[s] \in Nat
  BY SeriesCount DEF Typed, TypeOK, Sweeps
<1>2. PICK s \in sweep.queue[k] : \A t \in sweep.queue[k] : sweep.rows[s] <= sweep.rows[t]
  BY <1>1, LeastOf
<1>3. Shift(k) \in sweep.queue[k]
  BY <1>2 DEF Shift
<1> QED BY <1>1, <1>3

\* A stamp puts a series last and the ones behind it forward.
LEMMA StampPermutes ==
    ASSUME order \in Bijection(Series, 1 .. Cardinality(Series)), NEW s \in Series
    PROVE  Stamped(s) \in Bijection(Series, 1 .. Cardinality(Series))
<1> DEFINE N == Cardinality(Series)
           new == Stamped(s)
<1>1. /\ N \in Nat /\ order \in [Series -> 1 .. N]
      /\ \A x, y \in Series : order[x] = order[y] => x = y
      /\ \A i \in 1 .. N : \E x \in Series : order[x] = i
  BY SeriesCount DEF Bijection, Injection, Surjection, IsInjective
<1>2. \A x \in Series : new[x] = IF x = s THEN N ELSE IF order[x] > order[s] THEN order[x] - 1 ELSE order[x]
  BY DEF Stamped
<1>3. new = [x \in Series |-> new[x]]
  BY DEF Stamped
<1> HIDE DEF N, new
<1>4. \A x \in Series : order[x] \in 1 .. N /\ (x # s => order[x] # order[s])
  BY <1>1
<1>5. ASSUME NEW x \in Series
      PROVE  new[x] \in 1 .. N /\ (x # s => new[x] < N)
  BY <1>1, <1>2, <1>4
<1>6. ASSUME NEW x \in Series, NEW y \in Series, new[x] = new[y]
      PROVE  x = y
  <2>1. CASE x = s \/ y = s
    BY <1>1, <1>2, <1>5, <1>6, <2>1
  <2>2. CASE x # s /\ y # s
    <3>1. order[x] = order[y]
      BY <1>1, <1>2, <1>4, <1>6, <2>2
    <3> QED BY <1>1, <3>1
  <2> QED BY <2>1, <2>2
<1>7. ASSUME NEW i \in 1 .. N
      PROVE  \E x \in Series : new[x] = i
  <2>1. CASE i = N
    BY <1>2, <2>1
  <2>2. CASE i < order[s]
    <3>1. PICK x \in Series : order[x] = i
      BY <1>1
    <3> QED BY <1>1, <1>2, <1>4, <2>2, <3>1
  <2>3. CASE order[s] <= i /\ i < N
    <3>1. i + 1 \in 1 .. N
      BY <1>1, <2>3
    <3>2. PICK x \in Series : order[x] = i + 1
      BY <1>1, <3>1
    <3> QED BY <1>1, <1>2, <1>4, <2>3, <3>2
  <2> QED BY <1>1, <2>1, <2>2, <2>3
<1>8. new \in [Series -> 1 .. N]
  BY <1>3, <1>5
<1> QED BY <1>6, <1>7, <1>8 DEF Bijection, Injection, Surjection, IsInjective, new, N

\* What changes which variable.
LEMMA ChapChanges ==
    Next => \/ UNCHANGED chap
            \/ \E w \in Workers : Lands(w)
            \/ \E s \in Series : ScanFolder(s)
            \/ \E s \in Series : \E n \in ChaptersOf[s] : Publish(s, n)
  BY DEF Next, StartSweep, SweepSteps, PassOver, StopShort, Visit, Tally, EndPass, After, EndSweep, ScanEnds,
         ScanThrows, AskingThrows, UpdateSeries, Begin, Throws, ListsNothing, Lists, LoopEnds, Skips, DiskFull, Fetches,
         FailsAlone, Refused, StartCheck, Sigterm, Exits, Boot, CooldownLapses, FillFails, Toggle, library

LEMMA LedgerChanges ==
    Next => \/ UNCHANGED <<attempts, retried>>
            \/ \E w \in Workers : FailsAlone(w) \/ Refused(w)
            \/ ScanEnds
            \/ \E s \in Series : \E n \in ChaptersOf[s] : Publish(s, n) \/ FillFails(s, n)
  BY DEF Next, StartSweep, SweepSteps, PassOver, StopShort, Visit, Tally, EndPass, After, EndSweep, ScanFolder,
         ScanThrows, AskingThrows, UpdateSeries, Begin, Throws, ListsNothing, Lists, LoopEnds, Skips, DiskFull, Fetches,
         Lands, StartCheck, Sigterm, Exits, Boot, CooldownLapses, Toggle, library

LEMMA OrderChanges ==
    Next => UNCHANGED order \/ \E w \in Workers : ListsNothing(w) \/ Lists(w)
  BY DEF Next, StartSweep, SweepSteps, PassOver, StopShort, Visit, Tally, EndPass, After, EndSweep, ScanFolder,
         ScanEnds, ScanThrows, AskingThrows, UpdateSeries, Begin, Throws, LoopEnds, Skips, DiskFull, Fetches, Lands, FailsAlone,
         Refused, StartCheck, Sigterm, Exits, Boot, CooldownLapses, Publish, FillFails, Toggle, library

LEMMA CallChanges ==
    Next => \/ UNCHANGED worker
            \/ \E w \in Workers : UpdateSeries(w)
            \/ Visit \/ Tally \/ (\E s \in Series : StartCheck(s)) \/ Exits
  BY DEF Next, StartSweep, SweepSteps, PassOver, StopShort, EndPass, After, EndSweep, ScanFolder, ScanEnds,
         ScanThrows, AskingThrows, Sigterm, Boot, CooldownLapses, Publish, FillFails, Toggle, library

LEMMA SweepChanges ==
    Next => \/ UNCHANGED sweep
            \/ StartSweep \/ PassOver \/ StopShort \/ Visit \/ Tally \/ EndPass \/ AskingThrows \/ After \/ EndSweep
            \/ ScanEnds \/ ScanThrows \/ Exits
  BY DEF Next, SweepSteps, ScanFolder, UpdateSeries, Begin, Throws, ListsNothing, Lists, LoopEnds, Skips, DiskFull,
         Fetches, Lands, FailsAlone, Refused, StartCheck, Sigterm, Boot, CooldownLapses, Publish, FillFails, Toggle

LEMMA ChapStep ==
    ASSUME IInv, TypeOK, Next
    PROVE  /\ DOMAIN chap' = Series
           /\ \A s \in Series : chap'[s] \in [ChaptersOf[s] -> {"listed", "disk", "row"}]
<1>1. DOMAIN chap = Series /\ \A s \in Series : chap[s] \in [ChaptersOf[s] -> {"listed", "disk", "row"}]
  BY DEF TypeOK
<1>2. ASSUME NEW s \in Series, NEW f \in [ChaptersOf[s] -> {"listed", "disk", "row"}],
             chap' = [chap EXCEPT ![s] = f]
      PROVE  /\ DOMAIN chap' = Series
             /\ \A x \in Series : chap'[x] \in [ChaptersOf[x] -> {"listed", "disk", "row"}]
  BY <1>1, <1>2
<1>3. ASSUME NEW w \in Workers, Lands(w)
      PROVE  \E s \in Series : \E f \in [ChaptersOf[s] -> {"listed", "disk", "row"}] : chap' = [chap EXCEPT ![s] = f]
  <2>1. worker[w].step = "fetch"
    BY <1>3 DEF Lands
  <2>2. PICK s, n : s = worker[w].series /\ n = Current(w)
    OBVIOUS
  <2>3. s \in Series
    BY <2>1, <2>2, CurrentIsOne
  <2>4. PICK f : f = [chap[s] EXCEPT ![n] = IF @ = "row" THEN "row" ELSE "disk"]
    OBVIOUS
  <2>5. f \in [ChaptersOf[s] -> {"listed", "disk", "row"}]
    BY <1>1, <2>3, <2>4
  <2>6. chap' = [chap EXCEPT ![s] = f]
    BY <1>3, <2>2, <2>4 DEF Lands
  <2> QED BY <2>3, <2>5, <2>6
<1>4. ASSUME NEW s \in Series, ScanFolder(s), s \in visible
      PROVE  \E f \in [ChaptersOf[s] -> {"listed", "disk", "row"}] : chap' = [chap EXCEPT ![s] = f]
  <2>1. PICK f : f = [n \in ChaptersOf[s] |-> IF n \in scan.seen[s] THEN "row" ELSE chap[s][n]]
    OBVIOUS
  <2>2. f \in [ChaptersOf[s] -> {"listed", "disk", "row"}]
    BY <1>1, <2>1
  <2>3. chap' = [chap EXCEPT ![s] = f]
    BY <1>1, <1>4, <2>1 DEF ScanFolder
  <2> QED BY <2>2, <2>3
<1>5. ASSUME NEW s \in Series, NEW n \in ChaptersOf[s], Publish(s, n)
      PROVE  \E f \in [ChaptersOf[s] -> {"listed", "disk", "row"}] : chap' = [chap EXCEPT ![s] = f]
  <2>1. PICK f : f = [chap[s] EXCEPT ![n] = "listed"]
    OBVIOUS
  <2>2. f \in [ChaptersOf[s] -> {"listed", "disk", "row"}]
    BY <1>1, <2>1
  <2>3. chap' = [chap EXCEPT ![s] = f]
    BY <1>5, <2>1 DEF Publish
  <2> QED BY <2>2, <2>3
<1>6. ASSUME NEW s \in Series, ScanFolder(s), s \notin visible
      PROVE  chap' = chap
  BY <1>6 DEF ScanFolder
<1> QED BY <1>1, <1>2, <1>3, <1>4, <1>5, <1>6, ChapChanges

\* No number of a ledger is above b.
Within(L, b) == DOMAIN L = Series /\ \A s \in Series : L[s] \in [ChaptersOf[s] -> 0 .. b]

LEMMA LedgerPut ==
    ASSUME NEW L, NEW b \in Nat, Within(L, b), NEW s \in Series, NEW f \in [ChaptersOf[s] -> 0 .. b],
           NEW M, M = [L EXCEPT ![s] = f]
    PROVE  Within(M, b)
  BY DEF Within

LEMMA NotedWithin ==
    ASSUME NEW L, NEW b \in Nat, Within(L, b), NEW s \in Series, NEW n \in ChaptersOf[s]
    PROVE  Within(Noted(L, s, n, b), b)
<1>1. PICK f : f = [L[s] EXCEPT ![n] = IF @ = b THEN @ ELSE @ + 1]
  OBVIOUS
<1>2. f \in [ChaptersOf[s] -> 0 .. b]
  BY <1>1 DEF Within
<1>3. PICK M : M = Noted(L, s, n, b)
  OBVIOUS
<1>4. M = [L EXCEPT ![s] = f]
  BY <1>1, <1>3 DEF Noted
<1>5. Within(M, b)
  BY <1>2, <1>4, LedgerPut
<1> QED BY <1>3, <1>5

LEMMA ClearedWithin ==
    ASSUME NEW L, NEW b \in Nat, Within(L, b), NEW s \in Series, NEW n \in ChaptersOf[s],
           NEW M, M = [L EXCEPT ![s][n] = 0]
    PROVE  Within(M, b)
<1>1. PICK f : f = [L[s] EXCEPT ![n] = 0]
  OBVIOUS
<1>2. f \in [ChaptersOf[s] -> 0 .. b]
  BY <1>1 DEF Within
<1>3. M = [L EXCEPT ![s] = f]
  BY <1>1
<1> QED BY <1>2, <1>3, LedgerPut

LEMMA ForgottenWithin ==
    ASSUME NEW L, NEW b \in Nat, Within(L, b)
    PROVE  Within(Forgotten(L), b)
  BY DEF Within, Forgotten

LEMMA LedgerStep ==
    ASSUME IInv, TypeOK, Next
    PROVE  Within(attempts', AttemptsBound) /\ Within(retried', RetriedBound)
<1>1. Within(attempts, AttemptsBound) /\ Within(retried, RetriedBound)
  BY DEF TypeOK, Within
<1>2. AttemptsBound \in Nat /\ RetriedBound \in Nat
  BY LimitsAssumption DEF AttemptsBound, RetriedBound
<1>3. ASSUME NEW w \in Workers, FailsAlone(w) \/ Refused(w)
      PROVE  Within(attempts', AttemptsBound) /\ Within(retried', RetriedBound)
  <2>1. worker[w].step = "fetch" /\ NotesFailure(w)
    BY <1>3 DEF FailsAlone, Refused
  <2>2. PICK s, n : s = worker[w].series /\ n = Current(w)
    OBVIOUS
  <2>3. s \in Series /\ n \in ChaptersOf[s]
    BY <2>1, <2>2, CurrentIsOne
  <2>4. /\ attempts' = Noted(attempts, s, n, AttemptsBound) \/ attempts' = attempts
        /\ retried' = Noted(retried, s, n, RetriedBound) \/ retried' = retried
    BY <2>1, <2>2 DEF NotesFailure
  <2>5. Within(attempts', AttemptsBound)
    BY <1>1, <1>2, <2>3, <2>4, NotedWithin
  <2>6. Within(retried', RetriedBound)
    BY <1>1, <1>2, <2>3, <2>4, NotedWithin
  <2> QED BY <2>5, <2>6
<1>4. ASSUME NEW s \in Series, NEW n \in ChaptersOf[s], Publish(s, n)
      PROVE  Within(attempts', AttemptsBound) /\ Within(retried', RetriedBound)
  <2>1. attempts' = [attempts EXCEPT ![s][n] = 0] /\ retried' = [retried EXCEPT ![s][n] = 0]
    BY <1>4 DEF Publish
  <2>2. Within(attempts', AttemptsBound)
    BY <1>1, <1>2, <2>1, ClearedWithin
  <2>3. Within(retried', RetriedBound)
    BY <1>1, <1>2, <2>1, ClearedWithin
  <2> QED BY <2>2, <2>3
<1>5. ASSUME NEW s \in Series, NEW n \in ChaptersOf[s], FillFails(s, n)
      PROVE  Within(attempts', AttemptsBound) /\ Within(retried', RetriedBound)
  <2>1. attempts' = Noted(attempts, s, n, AttemptsBound) /\ retried' = retried
    BY <1>5 DEF FillFails
  <2> QED BY <1>1, <1>2, <2>1, NotedWithin
<1>6. CASE ScanEnds
  <2>1. /\ attempts' = Forgotten(attempts) \/ attempts' = attempts
        /\ retried' = Forgotten(retried) \/ retried' = retried
    BY <1>6 DEF ScanEnds
  <2>2. Within(attempts', AttemptsBound)
    BY <1>1, <1>2, <2>1, ForgottenWithin
  <2>3. Within(retried', RetriedBound)
    BY <1>1, <1>2, <2>1, ForgottenWithin
  <2> QED BY <2>2, <2>3
<1>7. CASE UNCHANGED <<attempts, retried>>
  BY <1>1, <1>7
<1> QED BY <1>3, <1>4, <1>5, <1>6, <1>7, LedgerChanges

LEMMA OrderStep ==
    ASSUME IInv, TypeOK, Next
    PROVE  order' \in Bijection(Series, 1 .. Cardinality(Series))
<1>1. ASSUME NEW w \in Workers, ListsNothing(w) \/ Lists(w)
      PROVE  worker[w].series \in Series /\ (order' = Stamped(worker[w].series) \/ order' = order)
  BY <1>1 DEF ListsNothing, Lists, Stamps, IInv, CallsAreRouted, Asking
<1>2. order \in Bijection(Series, 1 .. Cardinality(Series))
  BY DEF TypeOK
<1> QED BY <1>1, <1>2, OrderChanges, StampPermutes

\* A step of a call keeps its types, and it stays a call of its series.
LEMMA CallStep ==
    ASSUME IInv, Typed, NEW w \in Workers, UpdateSeries(w)
    PROVE  /\ worker' \in [Workers -> Calls]
           /\ \A v \in Workers : worker'[v].step # "idle" => worker'[v].series \in Series
<1>1. worker \in [Workers -> Calls] /\ worker[w].step # "idle"
  BY DEF Typed, TypeOK, UpdateSeries, Begin, Throws, ListsNothing, Lists, LoopEnds, Skips, DiskFull, Fetches,
         Lands, FailsAlone, Refused, InLoop
<1>2. worker[w].series \in Series
  BY <1>1 DEF Typed, RowsAreKnown
<1>3. ASSUME NEW r \in Calls, worker' = [worker EXCEPT ![w] = r], r.step = "idle" \/ r.series = worker[w].series
      PROVE  /\ worker' \in [Workers -> Calls]
             /\ \A v \in Workers : worker'[v].step # "idle" => worker'[v].series \in Series
  BY <1>1, <1>2, <1>3 DEF Typed, RowsAreKnown
<1>4. PICK c : c = worker[w]
  OBVIOUS
<1>5. c \in Calls /\ c.series = worker[w].series
  BY <1>1, <1>4
<1>6. PICK a, f \in Nat : a = c.added + 1 /\ f = c.failed + 1
  BY <1>5 DEF Calls
<1>7. ASSUME NEW r \in Calls, Leaves(w, r), r.series = worker[w].series
       PROVE  \E q \in Calls : worker' = [worker EXCEPT ![w] = q] /\ (q.step = "idle" \/ q.series = worker[w].series)
  <2>1. CASE w = "check"
    <3>1. Idle \in Calls /\ Idle.step = "idle"
      BY DEF Idle, Calls, Outcomes
    <3> QED BY <1>7, <2>1, <3>1 DEF Leaves
  <2>2. CASE w # "check"
    <3>1. PICK q : q = [r EXCEPT !.step = "return", !.todo = {}, !.blind = FALSE]
      OBVIOUS
    <3>2. q \in Calls /\ q.series = r.series
      BY <1>7, <3>1 DEF Calls
    <3> QED BY <1>7, <2>2, <3>1, <3>2 DEF Leaves
  <2> QED BY <2>1, <2>2
<1>8. ASSUME NEW o \in Outcomes, Returns(w, o)
      PROVE  \E q \in Calls : worker' = [worker EXCEPT ![w] = q] /\ (q.step = "idle" \/ q.series = worker[w].series)
  <2>1. PICK r : r = [c EXCEPT !.outcome = o]
    OBVIOUS
  <2>2. r \in Calls /\ r.series = c.series
    BY <1>5, <2>1 DEF Calls
  <2>3. Leaves(w, r)
    BY <1>4, <1>8, <2>1 DEF Returns
  <2> QED BY <1>5, <1>7, <2>2, <2>3
<1>9. ASSUME NEW st \in {"list", "loop", "fetch"}, worker' = [worker EXCEPT ![w].step = st]
      PROVE  \E r \in Calls : worker' = [worker EXCEPT ![w] = r] /\ r.series = worker[w].series
  <2>1. PICK r : r = [c EXCEPT !.step = st]
    OBVIOUS
  <2>2. r \in Calls /\ r.series = c.series
    BY <1>5, <2>1 DEF Calls
  <2> QED BY <1>4, <1>9, <2>1, <2>2
<1>10. CASE Begin(w) \/ Throws(w) \/ ListsNothing(w) \/ LoopEnds(w)
  <2>1. \/ \E o \in Outcomes : Returns(w, o)
        \/ worker' = [worker EXCEPT ![w].step = "list"]
    BY <1>10 DEF Begin, Throws, ListsNothing, LoopEnds, Outcomes
  <2> QED BY <1>3, <1>8, <1>9, <2>1
<1>11. CASE Lists(w)
  <2>0. PICK lost \in BOOLEAN :
            worker' = [worker EXCEPT ![w].step = "loop", ![w].blind = lost,
                         ![w].todo = Oldest(IF lost THEN Missing(c.series) ELSE Eligible(c.series), c.max)]
    BY <1>4, <1>11, LimitsAssumption DEF Lists
  <2>1. PICK td :
            /\ worker' = [worker EXCEPT ![w].step = "loop", ![w].blind = lost, ![w].todo = td]
            /\ td = Oldest(IF lost THEN Missing(c.series) ELSE Eligible(c.series), c.max)
    BY <2>0
  <2>2. td \subseteq ChaptersOf[c.series]
    BY <2>1 DEF Oldest, Eligible, Missing
  <2>3. td \subseteq Chapters
    BY <1>2, <1>5, <2>2, LimitsAssumption DEF Chapters, Range
  <2>4. PICK r : r = [c EXCEPT !.step = "loop", !.blind = lost, !.todo = td]
    OBVIOUS
  <2>5. r \in Calls /\ r.series = c.series
    BY <1>5, <2>1, <2>3, <2>4 DEF Calls
  <2>6. worker' = [worker EXCEPT ![w] = r]
    BY <1>4, <2>1, <2>4
  <2> QED BY <1>3, <1>5, <2>5, <2>6
<1>12. CASE Skips(w)
  <2>1. PICK r : r = [c EXCEPT !.todo = @ \ {Current(w)}]
    OBVIOUS
  <2>2. r \in Calls /\ r.series = c.series
    BY <1>5, <2>1 DEF Calls
  <2>3. worker' = [worker EXCEPT ![w] = r]
    BY <1>4, <1>12, <2>1 DEF Skips
  <2> QED BY <1>3, <1>5, <2>2, <2>3
<1>13. CASE DiskFull(w)
  <2>1. PICK r : r = [c EXCEPT !.outcome = "ok", !.full = TRUE]
    OBVIOUS
  <2>2. r \in Calls /\ r.series = c.series
    BY <1>5, <2>1 DEF Calls, Outcomes
  <2>3. Leaves(w, r)
    BY <1>4, <1>13, <2>1 DEF DiskFull
  <2> QED BY <1>3, <1>5, <1>7, <2>2, <2>3
<1>14. CASE Fetches(w)
  <2>1. worker' = [worker EXCEPT ![w].step = "fetch"]
    BY <1>14 DEF Fetches
  <2> QED BY <1>3, <1>9, <2>1
<1>15. CASE Lands(w)
  <2>1. PICK r : r = [c EXCEPT !.step = "loop", !.todo = @ \ {Current(w)}, !.added = a]
    OBVIOUS
  <2>2. r \in Calls /\ r.series = c.series
    BY <1>5, <2>1 DEF Calls
  <2>3. worker' = [worker EXCEPT ![w] = r]
    BY <1>4, <1>6, <1>15, <2>1 DEF Lands
  <2> QED BY <1>3, <1>5, <2>2, <2>3
<1>16. CASE FailsAlone(w)
  <2>1. PICK r : r = [c EXCEPT !.step = "loop", !.todo = @ \ {Current(w)}, !.failed = f]
    OBVIOUS
  <2>2. r \in Calls /\ r.series = c.series
    BY <1>5, <2>1 DEF Calls
  <2>3. worker' = [worker EXCEPT ![w] = r]
    BY <1>4, <1>6, <1>16, <2>1 DEF FailsAlone
  <2> QED BY <1>3, <1>5, <2>2, <2>3
<1>17. CASE Refused(w)
  <2>1. PICK r : r = [c EXCEPT !.outcome = "ok", !.failed = f]
    OBVIOUS
  <2>2. r \in Calls /\ r.series = c.series
    BY <1>5, <2>1 DEF Calls, Outcomes
  <2>3. Leaves(w, r)
    BY <1>4, <1>6, <1>17, <2>1 DEF Refused
  <2> QED BY <1>3, <1>5, <1>7, <2>2, <2>3
<1> QED BY <1>10, <1>11, <1>12, <1>13, <1>14, <1>15, <1>16, <1>17 DEF UpdateSeries

\* So does the beginning of a call and its end.
LEMMA WorkerStep ==
    ASSUME IInv, Typed, Next
    PROVE  /\ worker' \in [Workers -> Calls]
           /\ \A v \in Workers : worker'[v].step # "idle" => worker'[v].series \in Series
<1>1. worker \in [Workers -> Calls] /\ \A v \in Workers : worker[v].step # "idle" => worker[v].series \in Series
  BY DEF Typed, TypeOK, RowsAreKnown
<1>2. Idle \in Calls /\ Idle.step = "idle"
  BY DEF Idle, Calls, Outcomes
<1>3. ASSUME NEW s \in Series, NEW m \in Nat
      PROVE  Called(s, m) \in Calls /\ Called(s, m).series = s
  BY DEF Called, Idle, Calls, Outcomes
<1>4. ASSUME NEW v \in Workers, NEW r \in Calls, worker' = [worker EXCEPT ![v] = r],
             r.step # "idle" => r.series \in Series
      PROVE  /\ worker' \in [Workers -> Calls]
             /\ \A u \in Workers : worker'[u].step # "idle" => worker'[u].series \in Series
  BY <1>1, <1>4
<1>5. CASE Tally
  BY <1>2, <1>4, <1>5 DEF Tally, Workers
<1>6. ASSUME NEW s \in Series, StartCheck(s)
      PROVE  \E r \in Calls : worker' = [worker EXCEPT !["check"] = r] /\ r.series \in Series
  <2>1. CheckMax \in Nat
    BY LimitsAssumption
  <2>2. Called(s, CheckMax) \in Calls /\ Called(s, CheckMax).series \in Series
    BY <1>3, <2>1
  <2> QED BY <1>6, <2>2 DEF StartCheck
<1>7. ASSUME Visit
      PROVE  \E r \in Calls : worker' = [worker EXCEPT !["sweep"] = r] /\ r.series \in Series
  <2>1. sweep.queue[Turn] # {} /\ sweep.pass # {} /\ sweep.spent < SweepMax
    BY <1>7 DEF Visit, Due, AtTurn
  <2>2. Shift(Turn) \in Series
    BY <2>1, TurnIsOne, ShiftIsOne
  <2>3. Allowance \in Nat
    <3>1. {MaxNew, SweepMax - sweep.spent} \in SUBSET Nat
      BY <2>1, LimitsAssumption DEF IInv, Counts
    <3> QED BY <3>1, MinInSet DEF Allowance
  <2> QED BY <1>3, <1>7, <2>2, <2>3 DEF Visit
<1>8. CASE Exits
  BY <1>2, <1>8 DEF Exits
<1>9. CASE UNCHANGED worker
  BY <1>1, <1>9
<1> QED BY <1>4, <1>5, <1>6, <1>7, <1>8, <1>9, CallChanges, CallStep DEF Workers

\* What a pass and its keys owe to the rows of the query.
PassIsSound(r) ==
    /\ r \in Sweeps
    /\ \A k \in r.keys : \E s \in Series : SourceOf[s] = k /\ r.rows[s] # 0
    /\ r.pass \subseteq r.keys

LEMMA OverIs ==
    ASSUME NEW r \in Sweeps
    PROVE  /\ PassIsSound(Over(r)) /\ Over(r).phase = "after" /\ Over(r).queue = r.queue
           /\ Over(r).parked = r.parked /\ Over(r).added = r.added /\ Over(r).stopped = r.stopped
<1>1. PICK o : o = Over(r)
  OBVIOUS
<1>2. /\ r.queue \in [Sources -> SUBSET Series] /\ r.parked \in SUBSET Sources /\ r.added \in BOOLEAN
      /\ r.stopped \in {"no", "budget", "disk", "shutdown", "threw"}
  BY DEF Sweeps
<1>3. /\ o.phase = "after" /\ o.queue = r.queue /\ o.parked = r.parked /\ o.added = r.added
      /\ o.stopped = r.stopped /\ o.keys = {} /\ o.pass = {}
  BY <1>1 DEF Over, NoSweep
<1>4. o \in Sweeps
  <2>1. NoSweep \in Sweeps
    BY SeriesCount DEF NoSweep, Sweeps
  <2>2. PICK x : x \in Sweeps /\ x = NoSweep
    BY <2>1
  <2>3. o = [x EXCEPT !.phase = "after", !.queue = r.queue, !.parked = r.parked,
                      !.added = r.added, !.stopped = r.stopped]
    BY <1>1, <2>2 DEF Over
  <2> QED BY <1>2, <2>2, <2>3 DEF Sweeps
<1> QED BY <1>1, <1>3, <1>4 DEF PassIsSound

\* What the sweep counts when a call has returned.
LEMMA CountedIs ==
    ASSUME IInv, Typed, Tally
    PROVE  \E c : /\ PassIsSound(c) /\ c.phase = "visit"
                  /\ c.keys = sweep.keys /\ c.pass = sweep.pass /\ c.queue = sweep.queue
                  /\ c.progressed = sweep.progressed /\ sweep.parked \subseteq c.parked
                  /\ c.added = (sweep.added \/ worker["sweep"].added > 0)
                  /\ sweep' = c \/ sweep' = Over([c EXCEPT !.stopped = "disk"])
<1> DEFINE r == worker["sweep"]
           a == sweep.added \/ r.added > 0
           n == sweep.spent + r.added + r.failed
           pk == IF r.outcome = "blocked" THEN sweep.parked \cup {Src("sweep")} ELSE sweep.parked
<1>1. PassIsSound(sweep)
  BY DEF Typed, TypeOK, RowsAreKnown, PassIsSound
<1>2. r.added \in Nat /\ r.failed \in Nat /\ r.series \in Series
  BY DEF Tally, Typed, TypeOK, RowsAreKnown, Workers, Calls
<1>3. n \in Nat /\ pk \in SUBSET Sources /\ a \in BOOLEAN /\ sweep.parked \subseteq pk
  BY <1>1, <1>2, RoutingAssumption DEF PassIsSound, Sweeps, Src
<1>4. PICK c : c = [sweep EXCEPT !.phase = "visit", !.added = a, !.spent = n, !.parked = pk]
  OBVIOUS
<1>5. sweep' = c \/ sweep' = Over([c EXCEPT !.stopped = "disk"])
  BY <1>4 DEF Tally
<1> HIDE DEF n, pk, a
<1>6. /\ c \in Sweeps /\ c.keys = sweep.keys /\ c.pass = sweep.pass /\ c.rows = sweep.rows
      /\ c.queue = sweep.queue /\ c.progressed = sweep.progressed /\ c.phase = "visit"
      /\ c.parked = pk /\ c.added = a
  BY <1>1, <1>3, <1>4 DEF PassIsSound, Sweeps
<1>7. PassIsSound(c)
  BY <1>1, <1>6 DEF PassIsSound
<1> QED BY <1>3, <1>5, <1>6, <1>7 DEF a

LEMMA SweepStep ==
    ASSUME IInv, Typed, Next
    PROVE  PassIsSound(sweep)'
<1> USE DEF PassIsSound
<1>1. PassIsSound(sweep)
  BY DEF Typed, TypeOK, RowsAreKnown
<1>2. PassIsSound(NoSweep)
  BY SeriesCount DEF NoSweep, Sweeps
<1>3. CASE StartSweep
  <2> DEFINE keys == {SourceOf[s] : s \in visible}
             rows == [s \in Series |-> IF s \in visible THEN order[s] ELSE 0]
             queue == [k \in Sources |-> QueueOf(k)]
  <2>1. visible \subseteq Series /\ order \in [Series -> 1 .. Cardinality(Series)]
    BY DEF Typed, TypeOK, Bijection, Injection
  <2>2. keys \subseteq Sources /\ queue \in [Sources -> SUBSET Series]
    BY <2>1, RoutingAssumption DEF QueueOf
  <2>3. rows \in [Series -> 0 .. Cardinality(Series)] /\ \A s \in visible : s \in Series /\ rows[s] # 0
    BY <2>1, SeriesCount
  <2>4. \A k \in keys : \E s \in visible : SourceOf[s] = k
    OBVIOUS
  <2>5. sweep' = [NoSweep EXCEPT !.phase = "visit", !.keys = keys, !.pass = keys, !.rows = rows, !.queue = queue]
    BY <1>3 DEF StartSweep
  <2> HIDE DEF keys, rows, queue
  <2>6. sweep' \in Sweeps
    BY <2>2, <2>3, <2>5 DEF NoSweep, Sweeps
  <2>7. sweep'.keys = keys /\ sweep'.pass = keys /\ sweep'.rows = rows
    BY <2>5 DEF NoSweep
  <2> QED BY <2>3, <2>4, <2>6, <2>7
<1>4. CASE PassOver
  <2>1. PICK k : k = Turn
    OBVIOUS
  <2>2. sweep' = [sweep EXCEPT !.pass = @ \ {k}, !.keys = IF sweep.queue[k] = {} THEN @ \ {k} ELSE @]
    BY <1>4, <2>1 DEF PassOver
  <2> QED BY <1>1, <2>2 DEF Sweeps
<1>5. CASE StopShort
  <2>1. PICK o \in {"budget", "shutdown"} : sweep' = Over([sweep EXCEPT !.stopped = o])
    BY <1>5 DEF StopShort
  <2>2. [sweep EXCEPT !.stopped = o] \in Sweeps
    BY <1>1, <2>1 DEF Sweeps
  <2> QED BY <2>1, <2>2, OverIs
<1>6. CASE Visit
  <2>1. PICK k, s : k = Turn /\ s = Shift(Turn)
    OBVIOUS
  <2>2. sweep' = [sweep EXCEPT !.phase = "call", !.pass = @ \ {k}, !.progressed = TRUE, !.queue[k] = @ \ {s}]
    BY <1>6, <2>1 DEF Visit
  <2>3. sweep' \in Sweeps
    BY <1>1, <2>2 DEF Sweeps
  <2>4. sweep'.keys = sweep.keys /\ sweep'.pass = sweep.pass \ {k} /\ sweep'.rows = sweep.rows
    BY <1>1, <2>2 DEF Sweeps
  <2> QED BY <1>1, <2>3, <2>4
<1>7. CASE Tally
  <2>1. PICK c : /\ PassIsSound(c)
                 /\ sweep' = c \/ sweep' = Over([c EXCEPT !.stopped = "disk"])
    BY <1>1, <1>7, CountedIs
  <2>2. [c EXCEPT !.stopped = "disk"] \in Sweeps
    BY <2>1 DEF Sweeps
  <2> QED BY <2>1, <2>2, OverIs
<1>8. CASE EndPass
  <2> DEFINE freed == IF sweep.progressed THEN {} ELSE sweep.parked \ blocked
  <2>1. PICK f : f = [sweep EXCEPT !.parked = @ \ freed, !.progressed = FALSE, !.pass = sweep.keys]
    OBVIOUS
  <2>2. sweep' = f \/ sweep' = Over(f)
    BY <1>8, <2>1 DEF EndPass
  <2> HIDE DEF freed
  <2>3. f \in Sweeps /\ f.keys = sweep.keys /\ f.pass = sweep.keys /\ f.rows = sweep.rows
    BY <1>1, <2>1 DEF Sweeps
  <2> QED BY <1>1, <2>2, <2>3, OverIs
<1>9. CASE After \/ ScanEnds \/ ScanThrows
  <2>1. PICK ph \in {"scan", "done"}, o \in {sweep.stopped, "threw"} :
          sweep' = [sweep EXCEPT !.phase = ph, !.stopped = o]
    BY <1>1, <1>9 DEF After, ScanEnds, ScanThrows, Sweeps
  <2> QED BY <1>1, <2>1 DEF Sweeps
<1>10. CASE EndSweep \/ Exits
  <2>1. sweep' = NoSweep
    BY <1>10 DEF EndSweep, Exits
  <2>2. PICK r : r = NoSweep
    OBVIOUS
  <2> QED BY <1>2, <2>1, <2>2
<1>11. CASE UNCHANGED sweep
  BY <1>1, <1>11
<1>12. CASE AskingThrows
  <2>1. PICK x : x \in Sweeps /\ x = NoSweep
    BY <1>2
  <2>2. sweep' = [x EXCEPT !.phase = "done", !.queue = sweep.queue, !.parked = sweep.parked,
                           !.added = sweep.added, !.stopped = "threw"]
    BY <1>12, <2>1 DEF AskingThrows
  <2>3. x.keys = {} /\ x.pass = {}
    BY <2>1 DEF NoSweep
  <2>4. sweep' \in Sweeps /\ sweep'.keys = {} /\ sweep'.pass = {}
    BY <1>1, <2>1, <2>2, <2>3 DEF Sweeps
  <2> QED BY <2>4
<1> QED BY <1>3, <1>4, <1>5, <1>6, <1>7, <1>8, <1>9, <1>10, <1>11, <1>12, SweepChanges

\* The locals of the scan, the cooldowns, the process and the observations.
LEMMA RestStep ==
    ASSUME IInv, Typed, Next
    PROVE  /\ visible' \subseteq Series /\ blocked' \subseteq Sources /\ refused' \subseteq Sources
           /\ proc' \in {"up", "stopping", "closed", "timed_out", "killed"} /\ down' \in 0 .. Restarts
           /\ scan' \in [folders : SUBSET Series, seen : [Series -> SUBSET Chapters]]
           /\ landed' \subseteq Series \X Chapters
<1>1. /\ visible \subseteq Series /\ blocked \subseteq Sources /\ refused \subseteq Sources
      /\ proc \in {"up", "stopping", "closed", "timed_out", "killed"} /\ down \in 0 .. Restarts
      /\ scan \in [folders : SUBSET Series, seen : [Series -> SUBSET Chapters]]
      /\ landed \subseteq Series \X Chapters
  BY DEF Typed, TypeOK
<1>2. \A s \in Series : ChaptersOf[s] \subseteq Chapters
  BY LimitsAssumption DEF Chapters, Range
<1>3. ASSUME NEW w \in Workers, Lands(w) \/ FailsAlone(w) \/ Refused(w)
      PROVE  /\ blocked' \subseteq Sources /\ refused' \subseteq Sources
             /\ landed' \subseteq Series \X Chapters
  <2>1. worker[w].step = "fetch"
    BY <1>3 DEF Lands, FailsAlone, Refused
  <2>2. Src(w) \in Sources /\ worker[w].series \in Series /\ Current(w) \in Chapters
    BY <1>2, <2>1, CurrentIsOne
  <2> QED BY <1>1, <1>3, <2>2 DEF Lands, FailsAlone, Refused, Cool, Unreported
<1>4. visible' \subseteq Series
  BY <1>1 DEF Next, StartSweep, SweepSteps, PassOver, StopShort, Visit, Tally, EndPass, After, EndSweep, ScanFolder,
          ScanEnds, ScanThrows, AskingThrows, UpdateSeries, Begin, Throws, ListsNothing, Lists, LoopEnds, Skips, DiskFull, Fetches,
          Lands, FailsAlone, Refused, StartCheck, Sigterm, Exits, Boot, CooldownLapses, Publish, FillFails, Toggle,
          library
<1>5. blocked' \subseteq Sources /\ refused' \subseteq Sources
  BY <1>1, <1>3
     DEF Next, StartSweep, SweepSteps, PassOver, StopShort, Visit, Tally, EndPass, After, EndSweep, ScanFolder,
         ScanEnds, ScanThrows, AskingThrows, UpdateSeries, Begin, Throws, ListsNothing, Lists, LoopEnds, Skips, DiskFull, Fetches,
         StartCheck, Sigterm, Exits, Boot, CooldownLapses, Cool, Publish, FillFails, Toggle
<1>6. landed' \subseteq Series \X Chapters
  BY <1>1, <1>3
     DEF Next, StartSweep, SweepSteps, PassOver, StopShort, Visit, Tally, EndPass, After, EndSweep, ScanFolder,
         ScanEnds, ScanThrows, AskingThrows, UpdateSeries, Begin, Throws, ListsNothing, Lists, LoopEnds, Skips, DiskFull, Fetches,
         StartCheck, Sigterm, Exits, Boot, CooldownLapses, Publish, FillFails, Toggle
<1>7. proc' \in {"up", "stopping", "closed", "timed_out", "killed"} /\ down' \in 0 .. Restarts
  <2>1. CASE UNCHANGED <<proc, down>>
    BY <1>1, <2>1
  <2>2. CASE Sigterm \/ Exits \/ Boot
    BY <1>1, <2>2, LimitsAssumption DEF Sigterm, Exits, Boot
  <2> QED BY <2>1, <2>2
          DEF Next, StartSweep, SweepSteps, PassOver, StopShort, Visit, Tally, EndPass, After, EndSweep, ScanFolder,
              ScanEnds, ScanThrows, AskingThrows, UpdateSeries, Begin, Throws, ListsNothing, Lists, LoopEnds, Skips, DiskFull,
              Fetches, Lands, FailsAlone, Refused, StartCheck, CooldownLapses, Publish, FillFails, Toggle
<1>8. scan' \in [folders : SUBSET Series, seen : [Series -> SUBSET Chapters]]
  <2>1. CASE UNCHANGED scan
    BY <1>1, <2>1
  <2>2. NoScan \in [folders : SUBSET Series, seen : [Series -> SUBSET Chapters]]
    BY DEF NoScan
  <2>3. CASE After
    <3>1. [s \in Series |-> {n \in ChaptersOf[s] : chap[s][n] # "listed"}] \in [Series -> SUBSET Chapters]
      BY <1>2
    <3> QED BY <2>2, <2>3, <3>1 DEF After
  <2>4. ASSUME NEW s \in Series, ScanFolder(s)
        PROVE  scan' \in [folders : SUBSET Series, seen : [Series -> SUBSET Chapters]]
    BY <1>1, <2>4 DEF ScanFolder
  <2>5. CASE ScanEnds \/ ScanThrows \/ Exits
    BY <2>2, <2>5 DEF ScanEnds, ScanThrows, Exits
  <2> QED BY <2>1, <2>3, <2>4, <2>5
          DEF Next, StartSweep, SweepSteps, PassOver, StopShort, Visit, Tally, EndPass, AskingThrows, EndSweep, UpdateSeries, Begin,
              Throws, ListsNothing, Lists, LoopEnds, Skips, DiskFull, Fetches, Lands, FailsAlone, Refused, StartCheck,
              Sigterm, Boot, CooldownLapses, Publish, FillFails, Toggle
<1> QED BY <1>4, <1>5, <1>6, <1>7, <1>8

LEMMA InitTyped == Init => Typed
<1> SUFFICES ASSUME Init PROVE Typed
  OBVIOUS
<1>1. Idle \in Calls /\ Idle.step = "idle"
  BY DEF Idle, Calls, Outcomes
<1>2. \A w \in Workers : worker[w] = Idle
  BY DEF Init
<1>3. /\ sweep \in Sweeps /\ sweep.keys = {} /\ sweep.pass = {} /\ \A k \in Sources : sweep.queue[k] = {}
  BY SeriesCount DEF Init, NoSweep, Sweeps
<1>4. scan \in [folders : SUBSET Series, seen : [Series -> SUBSET Chapters]]
  BY DEF Init, NoScan
<1>5. AttemptsBound \in Nat /\ RetriedBound \in Nat
  BY LimitsAssumption DEF AttemptsBound, RetriedBound
<1>6. worker \in [Workers -> Calls]
  BY <1>1 DEF Init
<1>7. RowsAreKnown
  BY <1>1, <1>2, <1>3 DEF RowsAreKnown
<1>8. TypeOK
  BY <1>3, <1>4, <1>5, <1>6, LimitsAssumption DEF Init, TypeOK
<1> QED BY <1>7, <1>8 DEF Typed

LEMMA TypedStep == IInv /\ Typed /\ [Next]_vars => Typed'
<1> SUFFICES ASSUME IInv, Typed, [Next]_vars PROVE Typed'
  OBVIOUS
<1>1. CASE Next
  BY <1>1, ChapStep, LedgerStep, OrderStep, WorkerStep, SweepStep, RestStep
     DEF Typed, TypeOK, RowsAreKnown, PassIsSound, Within
<1>2. CASE UNCHANGED vars
  BY <1>2 DEF vars, library, Typed, TypeOK, RowsAreKnown
<1> QED BY <1>1, <1>2

\* updater.ts:139-215: the Map of queues, the call under way and the scan are
\* what their lines take them for at every step, however the sweep, the check,
\* the sources and the process interleave; a stamp keeps the order a
\* permutation of the library, so that no series has two places or none.
THEOREM TypeCorrect == Spec => []TypeOK
<1>1. Typed => TypeOK
  BY DEF Typed
<1> QED BY <1>1, InitTyped, TypedStep, InductiveInvariant, PTL DEF Spec

-----------------------------------------------------------------------------
(* What a sweep leaves out *)

\* A queue that is not empty has its key in the Map, and in a pass without
\* progress it is yet to come or parked.
StillQueued(r) ==
    /\ r.phase \in {"visit", "call"} =>
          \A k \in Sources : r.queue[k] # {} => k \in r.keys /\ (r.progressed \/ k \in r.pass \/ k \in r.parked)
    /\ r.phase \in {"after", "scan", "done"} /\ r.stopped = "no" =>
          \A k \in Sources : r.queue[k] # {} => k \in r.parked

LEMMA QueuedStep ==
    ASSUME IInv, Typed, StillQueued(sweep), Next
    PROVE  StillQueued(sweep)'
<1> USE DEF StillQueued
<1>0. sweep \in Sweeps
  BY DEF Typed, TypeOK
<1>1. CASE StartSweep
  <2> DEFINE keys == {SourceOf[s] : s \in visible}
             queue == [k \in Sources |-> QueueOf(k)]
  <2>1. \A k \in Sources : queue[k] # {} => k \in keys
    BY DEF QueueOf
  <2>2. /\ sweep'.phase = "visit" /\ sweep'.keys = keys /\ sweep'.pass = keys /\ sweep'.queue = queue
    BY <1>1 DEF StartSweep, NoSweep
  <2> HIDE DEF keys, queue
  <2> QED BY <2>1, <2>2
<1>2. CASE PassOver
  <2>1. PICK k : k = Turn
    OBVIOUS
  <2>2. /\ sweep.phase = "visit"
        /\ sweep.queue[k] = {} \/ k \in sweep.parked
        /\ sweep' = [sweep EXCEPT !.pass = @ \ {k}, !.keys = IF sweep.queue[k] = {} THEN @ \ {k} ELSE @]
    BY <1>2, <2>1 DEF PassOver, AtTurn
  <2>3. /\ sweep'.phase = "visit" /\ sweep'.queue = sweep.queue /\ sweep'.parked = sweep.parked
        /\ sweep'.progressed = sweep.progressed /\ sweep'.pass = sweep.pass \ {k}
        /\ sweep'.keys = (IF sweep.queue[k] = {} THEN sweep.keys \ {k} ELSE sweep.keys)
    BY <1>0, <2>2 DEF Sweeps
  <2>4. ASSUME NEW j \in Sources, sweep.queue[j] # {}
        PROVE  j \in sweep'.keys /\ (sweep.progressed \/ j \in sweep'.pass \/ j \in sweep.parked)
    BY <2>2, <2>3, <2>4
  <2> QED BY <2>3, <2>4
<1>3. CASE StopShort
  <2>1. sweep'.phase = "after" /\ sweep'.stopped \in {"budget", "shutdown"}
    BY <1>0, <1>3 DEF StopShort, Over, NoSweep, Sweeps
  <2> QED BY <2>1
<1>4. CASE Visit
  <2>1. PICK k, s : k = Turn /\ s = Shift(Turn)
    OBVIOUS
  <2>2. /\ sweep.phase = "visit"
        /\ sweep' = [sweep EXCEPT !.phase = "call", !.pass = @ \ {k}, !.progressed = TRUE, !.queue[k] = @ \ {s}]
    BY <1>4, <2>1 DEF Visit, Due, AtTurn
  <2>3. /\ sweep'.phase = "call" /\ sweep'.keys = sweep.keys /\ sweep'.progressed = TRUE
        /\ sweep'.queue = [sweep.queue EXCEPT ![k] = @ \ {s}]
    BY <1>0, <2>2 DEF Sweeps
  <2>4. \A j \in Sources : sweep'.queue[j] \subseteq sweep.queue[j]
    BY <1>0, <2>3 DEF Sweeps
  <2> QED BY <2>2, <2>3, <2>4
<1>5. CASE Tally
  <2>1. PICK c : /\ PassIsSound(c) /\ c.phase = "visit"
                 /\ c.keys = sweep.keys /\ c.pass = sweep.pass /\ c.queue = sweep.queue
                 /\ c.progressed = sweep.progressed /\ sweep.parked \subseteq c.parked
                 /\ sweep' = c \/ sweep' = Over([c EXCEPT !.stopped = "disk"])
    BY <1>5, CountedIs
  <2>2. CASE sweep' = c
    <3>1. sweep.phase = "call"
      BY <1>5 DEF Tally
    <3> QED BY <2>1, <2>2, <3>1
  <2>3. CASE sweep' = Over([c EXCEPT !.stopped = "disk"])
    <3>1. [c EXCEPT !.stopped = "disk"] \in Sweeps /\ [c EXCEPT !.stopped = "disk"].stopped = "disk"
      BY <2>1 DEF PassIsSound, Sweeps
    <3>2. sweep'.phase = "after" /\ sweep'.stopped = "disk"
      BY <2>3, <3>1, OverIs
    <3> QED BY <3>2
  <2> QED BY <2>1, <2>2, <2>3
<1>6. CASE EndPass
  <2> DEFINE freed == IF sweep.progressed THEN {} ELSE sweep.parked \ blocked
             again == (sweep.progressed \/ freed # {}) /\ sweep.keys # {}
  <2>1. PICK f : f = [sweep EXCEPT !.parked = @ \ freed, !.progressed = FALSE, !.pass = sweep.keys]
    OBVIOUS
  <2>2. sweep.phase = "visit" /\ sweep.pass = {} /\ sweep' = IF again THEN f ELSE Over(f)
    BY <1>6, <2>1 DEF EndPass
  <2>3. /\ f.phase = sweep.phase /\ f.keys = sweep.keys /\ f.queue = sweep.queue
        /\ f.pass = sweep.keys /\ f.parked = sweep.parked \ freed
    BY <1>0, <2>1 DEF Sweeps
  <2>4. f \in Sweeps
    <3> HIDE DEF freed
    <3> QED BY <1>0, <2>1 DEF Sweeps
  <2>5. CASE again
    BY <2>2, <2>3, <2>5
  <2>6. CASE ~again
    <3>1. /\ sweep'.phase = "after" /\ sweep'.queue = sweep.queue /\ sweep'.parked = sweep.parked \ freed
      BY <2>2, <2>3, <2>4, <2>6, OverIs
    <3>2. CASE sweep.keys = {}
      BY <2>2, <3>1, <3>2
    <3>3. CASE ~sweep.progressed /\ freed = {}
      BY <2>2, <3>1, <3>3
    <3> QED BY <2>6, <3>2, <3>3
  <2> QED BY <2>5, <2>6
<1>7. CASE After
  <2>1. /\ sweep.phase = "after" /\ sweep'.phase \in {"scan", "done"} /\ sweep'.stopped = sweep.stopped
        /\ sweep'.queue = sweep.queue /\ sweep'.parked = sweep.parked
    BY <1>0, <1>7 DEF After, Sweeps
  <2> QED BY <2>1
<1>8. CASE ScanEnds
  <2>1. /\ sweep.phase = "scan" /\ sweep'.phase = "done" /\ sweep'.stopped = sweep.stopped
        /\ sweep'.queue = sweep.queue /\ sweep'.parked = sweep.parked
    BY <1>0, <1>8 DEF ScanEnds, Sweeps
  <2> QED BY <2>1
<1>9. CASE ScanThrows \/ AskingThrows
  <2>1. sweep'.phase = "done" /\ sweep'.stopped = "threw"
    BY <1>0, <1>9 DEF ScanThrows, AskingThrows, NoSweep, Sweeps
  <2> QED BY <2>1
<1>10. CASE EndSweep \/ Exits
  <2>1. sweep'.phase = "idle"
    BY <1>10 DEF EndSweep, Exits, NoSweep
  <2> QED BY <2>1
<1>11. CASE UNCHANGED sweep
  BY <1>11
<1> QED BY <1>1, <1>2, <1>3, <1>4, <1>5, <1>6, <1>7, <1>8, <1>9, <1>10, <1>11, SweepChanges

\* updater.ts:184-211: a pass that made no progress ends the sweep only when
\* every queue with a series left is one of a source that is parked and still
\* cools down, in whatever passes the queues emptied, parked and came back.
THEOREM NobodyElseIsLeftOut == Spec => []OnlyParkedLeftOut
<1>1. Init => StillQueued(sweep)
  BY DEF Init, NoSweep, StillQueued
<1>2. IInv /\ Typed /\ StillQueued(sweep) /\ [Next]_vars => StillQueued(sweep)'
  <2>1. StillQueued(sweep) /\ UNCHANGED vars => StillQueued(sweep)'
    BY DEF vars, StillQueued
  <2> QED BY <2>1, QueuedStep
<1>3. StillQueued(sweep) => OnlyParkedLeftOut
  BY DEF StillQueued, OnlyParkedLeftOut
<1>4. Spec => []Typed
  BY InitTyped, TypedStep, InductiveInvariant, PTL DEF Spec
<1> QED BY <1>1, <1>2, <1>3, <1>4, InductiveInvariant, PTL DEF Spec

-----------------------------------------------------------------------------
(* What a sweep has downloaded *)

IsRow(p) == chap[p[1]][p[2]] = "row"

\* A chapter the sweep downloaded is counted, then seen by its scan, and a
\* book when the scan is done with its folder.
LandedAreHandled ==
    /\ \A p \in landed : /\ p[1] \in visible /\ p[2] \in ChaptersOf[p[1]]
                         /\ chap[p[1]][p[2]] # "listed"
    /\ landed # {} =>
          /\ sweep.phase \in {"visit", "after"} => sweep.added
          /\ sweep.phase = "call" => sweep.added \/ worker["sweep"].added > 0
    /\ sweep.phase = "scan" =>
          \A p \in landed : IsRow(p) \/ (p[1] \in scan.folders /\ p[2] \in scan.seen[p[1]])
    /\ sweep.phase = "done" /\ sweep.stopped # "threw" => \A p \in landed : IsRow(p)

LEMMA AddedGrows ==
    ASSUME IInv, NEW w \in Workers, UpdateSeries(w)
    PROVE  worker'["sweep"].added >= worker["sweep"].added
<1>1. CallShape /\ worker["sweep"].added \in Nat /\ "sweep" \in Workers
  BY DEF IInv, Counts, Workers
<1>2. ASSUME NEW st, NEW td, NEW ad, NEW fd, CallIs(w, st, td, ad, fd),
             ad \in {worker[w].added, worker[w].added + 1}
      PROVE  worker'["sweep"].added >= worker["sweep"].added
  BY <1>1, <1>2 DEF CallIs
<1>3. ASSUME NEW r, r = Fields(r), Leaves(w, r), r.added = worker[w].added
      PROVE  worker'["sweep"].added >= worker["sweep"].added
  BY <1>1, <1>3, LeavesIs
<1>4. CASE Walks(w)
  <2>1. CASE Stops(w)
    BY <1>3, <2>1 DEF Stops
  <2>2. CASE MovesOn(w)
    BY <1>2, <2>2 DEF MovesOn
  <2> QED BY <1>4, <2>1, <2>2, WalkEffect
<1>5. CASE Lists(w)
  <2>1. \E lost, td : ListIs(w, lost, td)
    BY <1>1, <1>5, UpdateList DEF Lists
  <2> QED BY <1>1, <2>1 DEF ListIs
<1>6. CASE Lands(w)
  <2>1. CallIs(w, "loop", worker[w].todo \ {Current(w)}, worker[w].added + 1, worker[w].failed)
    BY <1>1, <1>6, UpdateAdded DEF Lands
  <2> QED BY <1>2, <2>1
<1>7. CASE FailsAlone(w)
  <2>1. CallIs(w, "loop", worker[w].todo \ {Current(w)}, worker[w].added, worker[w].failed + 1)
    BY <1>1, <1>7, UpdateFailed DEF FailsAlone
  <2> QED BY <1>2, <2>1
<1>8. CASE Refused(w)
  <2>1. PICK r : r = [worker[w] EXCEPT !.outcome = "ok", !.failed = @ + 1]
    OBVIOUS
  <2>2. worker[w] = Fields(worker[w])
    BY <1>1 DEF CallShape
  <2>3. r = Fields(r) /\ r.added = worker[w].added
    BY <2>1, <2>2 DEF Fields
  <2>4. Leaves(w, r)
    BY <1>8, <2>1 DEF Refused
  <2> QED BY <1>3, <2>3, <2>4
<1> QED BY <1>4, <1>5, <1>6, <1>7, <1>8 DEF UpdateSeries, Walks

\* The landing of a chapter, the sweep's or the check's.
LEMMA LandsHandled ==
    ASSUME IInv, Typed, LandedAreHandled, NEW w \in Workers, Lands(w)
    PROVE  LandedAreHandled'
<1>1. PICK s, n : s = worker[w].series /\ n = Current(w)
  OBVIOUS
<1>2. worker[w].step = "fetch" /\ UNCHANGED <<visible, sweep, scan>>
  BY DEF Lands
<1>3. s \in Series /\ n \in ChaptersOf[s]
  BY <1>1, <1>2, CurrentIsOne
<1>4. chap' = [chap EXCEPT ![s][n] = IF @ = "row" THEN "row" ELSE "disk"]
  BY <1>1 DEF Lands
<1>5. /\ chap'[s][n] # "listed"
      /\ \A p \in Series \X Chapters : p[2] \in ChaptersOf[p[1]] =>
            /\ chap[p[1]][p[2]] # "listed" => chap'[p[1]][p[2]] # "listed"
            /\ IsRow(p) => chap'[p[1]][p[2]] = "row"
  BY <1>3, <1>4 DEF Typed, TypeOK, IsRow
<1>6. landed \subseteq Series \X Chapters
  BY DEF Typed, TypeOK
<1>7. CASE w = "sweep"
  <2>1. sweep.phase = "call"
    BY <1>2, <1>7 DEF IInv, CallWithinBudget
  <2>2. worker'["sweep"].added > 0
    BY <1>7 DEF Lands, Typed, TypeOK, Calls, Workers
  <2>3. landed' = IF s \in visible THEN landed \cup {<<s, n>>} ELSE landed
    BY <1>1, <1>7 DEF Lands
  <2>4. \A p \in landed' : p[1] \in visible /\ p[2] \in ChaptersOf[p[1]] /\ chap'[p[1]][p[2]] # "listed"
    <3>1. ASSUME NEW p \in landed
          PROVE  p[1] \in visible /\ p[2] \in ChaptersOf[p[1]] /\ chap'[p[1]][p[2]] # "listed"
      BY <1>5, <1>6 DEF LandedAreHandled
    <3> QED BY <1>3, <1>5, <2>3, <3>1
  <2> QED BY <1>2, <2>1, <2>2, <2>4 DEF LandedAreHandled
<1>8. CASE w # "sweep"
  <2>1. landed' = landed /\ worker'["sweep"] = worker["sweep"]
    BY <1>8 DEF Lands, Typed, TypeOK, Workers
  <2>2. \A p \in landed : /\ p[1] \in visible /\ p[2] \in ChaptersOf[p[1]] /\ chap'[p[1]][p[2]] # "listed"
                          /\ IsRow(p) => IsRow(p)'
    BY <1>5, <1>6 DEF LandedAreHandled, IsRow
  <2> QED BY <1>2, <2>1, <2>2 DEF LandedAreHandled
<1> QED BY <1>7, <1>8

\* The scan's transaction makes the folder's files books.
LEMMA ScannedHandled ==
    ASSUME Typed, LandedAreHandled, NEW s \in Series, ScanFolder(s)
    PROVE  LandedAreHandled'
<1>1. /\ sweep.phase = "scan" /\ UNCHANGED <<visible, sweep, worker, landed>>
      /\ scan'.folders = scan.folders \ {s} /\ scan'.seen = scan.seen
  BY DEF ScanFolder, Typed, TypeOK
<1>2. \A p \in landed : /\ p \in Series \X Chapters /\ p[1] \in visible /\ p[2] \in ChaptersOf[p[1]]
                        /\ chap[p[1]][p[2]] # "listed"
                        /\ IsRow(p) \/ (p[1] \in scan.folders /\ p[2] \in scan.seen[p[1]])
  BY <1>1 DEF LandedAreHandled, Typed, TypeOK
<1>3. \A x \in Series : \A n \in ChaptersOf[x] :
          chap'[x][n] = IF x = s /\ s \in visible /\ n \in scan.seen[s] THEN "row" ELSE chap[x][n]
  <2>1. CASE s \in visible
    BY <2>1 DEF ScanFolder, Typed, TypeOK
  <2>2. CASE s \notin visible
    BY <2>2 DEF ScanFolder
  <2> QED BY <2>1, <2>2
<1>4. ASSUME NEW p \in landed
      PROVE  /\ chap'[p[1]][p[2]] # "listed"
             /\ chap'[p[1]][p[2]] = "row" \/ (p[1] \in scan'.folders /\ p[2] \in scan'.seen[p[1]])
  BY <1>1, <1>2, <1>3 DEF IsRow
<1> QED BY <1>1, <1>2, <1>4 DEF LandedAreHandled, IsRow

LEMMA HandledStep ==
    ASSUME IInv, Typed, LandedAreHandled, Next
    PROVE  LandedAreHandled'
<1>0. /\ sweep \in Sweeps /\ worker \in [Workers -> Calls] /\ landed \subseteq Series \X Chapters
      /\ worker' \in [Workers -> Calls]
      /\ worker["sweep"].added \in Nat /\ worker'["sweep"].added \in Nat
  BY WorkerStep DEF Typed, TypeOK, Calls, Workers
<1>1. ASSUME NEW w \in Workers, UpdateSeries(w)
      PROVE  LandedAreHandled'
  <2>1. CASE ~Lands(w)
    <3>1. UNCHANGED <<chap, visible, sweep, scan, landed>>
      BY <1>1, <2>1 DEF UpdateSeries, Begin, Throws, ListsNothing, Lists, LoopEnds, Skips, DiskFull, Fetches,
                        FailsAlone, Refused, library
    <3>2. worker'["sweep"].added >= worker["sweep"].added
      BY <1>1, AddedGrows DEF Workers
    <3> QED BY <1>0, <3>1, <3>2 DEF LandedAreHandled, IsRow
  <2> QED BY <1>1, <2>1, LandsHandled
<1>2. CASE StartSweep
  <2>1. landed' = {}
    BY <1>2 DEF StartSweep
  <2> QED BY <2>1 DEF LandedAreHandled
<1>3. CASE PassOver \/ StopShort \/ EndPass
  <2>1. UNCHANGED <<chap, visible, worker, scan, landed>> /\ sweep.phase = "visit"
    BY <1>3 DEF PassOver, StopShort, EndPass, Due, AtTurn, library
  <2>2. PICK f : /\ f.added = sweep.added /\ f.phase = "visit"
                 /\ sweep' = f \/ sweep' = Over(f)
    BY <1>0, <1>3, <2>1 DEF PassOver, StopShort, EndPass, Sweeps
  <2>3. sweep'.added = sweep.added /\ sweep'.phase \in {"visit", "after"}
    BY <2>2 DEF Over, NoSweep
  <2> QED BY <2>1, <2>3 DEF LandedAreHandled
<1>4. CASE Visit
  <2>1. PICK k, s : k = Turn /\ s = Shift(Turn)
    OBVIOUS
  <2>2. /\ UNCHANGED <<chap, visible, scan, landed>> /\ sweep.phase = "visit"
        /\ sweep' = [sweep EXCEPT !.phase = "call", !.pass = @ \ {k}, !.progressed = TRUE, !.queue[k] = @ \ {s}]
    BY <1>4, <2>1 DEF Visit, Due, AtTurn, library
  <2>3. sweep'.phase = "call" /\ sweep'.added = sweep.added
    BY <1>0, <2>2 DEF Sweeps
  <2> QED BY <2>2, <2>3 DEF LandedAreHandled
<1>5. CASE Tally
  <2>1. UNCHANGED <<chap, visible, scan, landed>> /\ sweep.phase = "call"
    BY <1>5 DEF Tally, library
  <2>2. PICK c : /\ PassIsSound(c) /\ c.phase = "visit"
                 /\ c.added = (sweep.added \/ worker["sweep"].added > 0)
                 /\ sweep' = c \/ sweep' = Over([c EXCEPT !.stopped = "disk"])
    BY <1>5, CountedIs
  <2>3. /\ [c EXCEPT !.stopped = "disk"] \in Sweeps
        /\ [c EXCEPT !.stopped = "disk"].added = c.added
    BY <2>2 DEF PassIsSound, Sweeps
  <2>4. sweep'.added = c.added /\ sweep'.phase \in {"visit", "after"}
    BY <2>2, <2>3, OverIs
  <2> QED BY <2>1, <2>2, <2>4 DEF LandedAreHandled
<1>6. CASE After
  <2>1. UNCHANGED <<chap, visible, worker, landed>> /\ sweep.phase = "after"
    BY <1>6 DEF After, library
  <2>2. CASE sweep.added
    <3>1. /\ sweep'.phase = "scan" /\ scan'.folders = Series
          /\ scan'.seen = [s \in Series |-> {n \in ChaptersOf[s] : chap[s][n] # "listed"}]
      BY <1>0, <1>6, <2>2 DEF After, Sweeps
    <3>2. \A p \in landed : p[1] \in scan'.folders /\ p[2] \in scan'.seen[p[1]]
      BY <1>0, <3>1 DEF LandedAreHandled
    <3> QED BY <2>1, <3>1, <3>2 DEF LandedAreHandled, IsRow
  <2>3. CASE ~sweep.added
    <3>1. sweep'.phase = "done" /\ landed = {}
      BY <1>0, <1>6, <2>1, <2>3 DEF After, Sweeps, LandedAreHandled
    <3> QED BY <2>1, <3>1 DEF LandedAreHandled
  <2> QED BY <2>2, <2>3
<1>7. CASE ScanEnds
  <2>1. /\ UNCHANGED <<chap, visible, landed>> /\ sweep.phase = "scan" /\ scan.folders = {}
        /\ sweep'.phase = "done"
    BY <1>0, <1>7 DEF ScanEnds, Sweeps
  <2> QED BY <2>1 DEF LandedAreHandled, IsRow
<1>8. CASE ScanThrows \/ AskingThrows
  <2>1. UNCHANGED <<chap, visible, landed>> /\ sweep'.phase = "done" /\ sweep'.stopped = "threw"
    BY <1>0, <1>8 DEF ScanThrows, AskingThrows, NoSweep, Sweeps, library
  <2> QED BY <2>1 DEF LandedAreHandled
<1>9. CASE EndSweep \/ Exits
  <2>1. landed' = {}
    BY <1>9 DEF EndSweep, Exits
  <2> QED BY <2>1 DEF LandedAreHandled
<1>10. CASE \E s \in Series : StartCheck(s)
  <2>1. UNCHANGED <<chap, visible, landed, sweep, scan>> /\ worker'["sweep"] = worker["sweep"]
    BY <1>0, <1>10 DEF StartCheck, library, Workers
  <2> QED BY <2>1 DEF LandedAreHandled, IsRow
<1>11. CASE Sigterm \/ Boot \/ \E k \in Sources : CooldownLapses(k)
  <2>1. UNCHANGED <<chap, visible, landed, sweep, scan, worker>>
    BY <1>11 DEF Sigterm, Boot, CooldownLapses, library
  <2> QED BY <2>1 DEF LandedAreHandled, IsRow
<1>12. ASSUME NEW s \in Series, NEW n \in ChaptersOf[s], Publish(s, n)
       PROVE  LandedAreHandled'
  <2>1. UNCHANGED <<visible, sweep, scan, worker>> /\ landed' = landed \ {<<s, n>>}
    BY <1>12 DEF Publish
  <2>2. ASSUME NEW p \in landed'
        PROVE  p \in landed /\ chap'[p[1]][p[2]] = chap[p[1]][p[2]]
    <3>1. p \in landed /\ p = <<p[1], p[2]>> /\ p # <<s, n>>
      BY <1>0, <2>1
    <3>2. p[1] # s \/ p[2] # n
      BY <3>1
    <3>3. p[1] \in Series /\ p[2] \in ChaptersOf[p[1]]
      BY <1>0, <3>1 DEF LandedAreHandled
    <3> QED BY <1>12, <3>1, <3>2, <3>3 DEF Publish, Typed, TypeOK
  <2> QED BY <2>1, <2>2 DEF LandedAreHandled, IsRow
<1>13. ASSUME NEW s \in Series, NEW n \in ChaptersOf[s], FillFails(s, n)
       PROVE  LandedAreHandled'
  <2>1. UNCHANGED <<chap, visible, landed, sweep, scan, worker>>
    BY <1>13 DEF FillFails
  <2> QED BY <2>1 DEF LandedAreHandled, IsRow
<1>14. ASSUME NEW s \in Series, Toggle(s)
       PROVE  LandedAreHandled'
  <2>1. UNCHANGED <<chap, sweep, scan, worker>> /\ landed' = {p \in landed : p[1] # s}
        /\ \A x : x # s => (x \in visible' <=> x \in visible)
    BY <1>14 DEF Toggle
  <2> QED BY <2>1 DEF LandedAreHandled, IsRow
<1> QED BY <1>1, <1>2, <1>3, <1>4, <1>5, <1>6, <1>7, <1>8, <1>9, <1>10, <1>11, <1>12, <1>13, <1>14, ScannedHandled
        DEF Next, SweepSteps

\* updater.ts:202 and 213-215: whichever line ends the loop, a budget, a full
\* disk, a refusal or a signal, what was downloaded has been counted, so that
\* the scan runs, sees it and files it, whatever a check adds meanwhile.  A
\* database that throws at 209 or in the scan itself is the exception.
THEOREM SweepShelves == Spec => []SweepShelvesItsChapters
<1>1. Init => LandedAreHandled
  BY DEF Init, NoSweep, LandedAreHandled
<1>2. IInv /\ Typed /\ LandedAreHandled /\ [Next]_vars => LandedAreHandled'
  <2>1. LandedAreHandled /\ UNCHANGED vars => LandedAreHandled'
    BY DEF vars, library, LandedAreHandled, IsRow
  <2> QED BY <2>1, HandledStep
<1>3. LandedAreHandled => SweepShelvesItsChapters
  BY DEF LandedAreHandled, SweepShelvesItsChapters, IsRow
<1>4. Spec => []Typed
  BY InitTyped, TypedStep, InductiveInvariant, PTL DEF Spec
<1> QED BY <1>1, <1>2, <1>3, <1>4, InductiveInvariant, PTL DEF Spec

=============================================================================
