---------------------------- MODULE ChapterFetch ----------------------------
(***************************************************************************)
(* bff/src/lib/downloader.ts, fetchChapter: one chapter, page by page.     *)
(* The first pass stops at a 429; up to MAX_RESUMES further rounds ask for *)
(* the pages still missing; then the chapter is judged: written, or        *)
(* refused with a report to sourceHealth.ts and perhaps a blockStatus that *)
(* ends the caller's run.                                                  *)
(*                                                                         *)
(* A page's answer is the number the code keeps in `worst': an HTTP status *)
(* or a sentinel below 400.  Page contents, pacing and headers are left    *)
(* out.  The completeness bars are percentages, so that a small chapter    *)
(* can stand on either side of them.                                       *)
(***************************************************************************)
EXTENDS Integers, FiniteSets, FiniteSetsExt

CONSTANTS
    NPages,         \* urls.length
    Answers,        \* what a page request may come back with
    Declared,       \* the values chapter.pages may have; 0 when the source gives none
    MaxResumes,     \* MAX_RESUMES, 3
    NearPct,        \* NEAR_COMPLETE, 95 per cent
    EmptyPct        \* EMPTY_TOLERANCE, 50 per cent

Image == 0          \* 200 with an image of at least 256 bytes
EmptyBody == 1      \* EMPTY_BODY
NetError == 2       \* NET_ERROR
NotAsked == -1

ASSUME PagesAssumption == NPages \in Nat \ {0} /\ Declared \subseteq Nat
ASSUME AnswersAssumption == Answers \subseteq {Image, EmptyBody, NetError} \cup 400 .. 599
ASSUME ResumesAssumption == MaxResumes \in Nat /\ NearPct \in 0 .. 100 /\ EmptyPct \in 0 .. 100

VARIABLES
    phase,      \* "listing", "first" pass, "between" rounds, "round", "writing", "done"
    declared,   \* input.chapter.pages
    last,       \* the last answer for each page; page[i] is set iff it is Image
    asked,      \* observation: how often each page was requested
    seen,       \* observation: every answer that came
    limits,     \* observation: how many of them were a 429
    worst,      \* worst: the highest status of a failed page so far
    mustWait,   \* retryAfterMs > 0: a 429 not yet slept out
    round,      \* round
    todo,       \* the pages the current pass has still to ask for, in order
    result      \* what the caller and sourceHealth.ts are told

fetchVars == <<phase, declared, last, asked, seen, limits, worst, mustWait, round, todo, result>>

Pages == 1 .. NPages
Statuses == {"rate_limited", "blocked", "down"}

\* Bound on the observations asked and limits, above what FetchTypeOK allows.
Cap == 2 + MaxResumes

Got == {i \in Pages : last[i] = Image}
Gaps == Pages \ Got
Expected == IF declared > 0 THEN declared ELSE NPages

FetchTypeOK ==
    /\ phase \in {"listing", "first", "between", "round", "writing", "done"}
    /\ declared \in Declared
    /\ last \in [Pages -> Answers \cup {NotAsked}]
    /\ asked \in [Pages -> 0 .. 1 + MaxResumes]
    /\ seen \subseteq Answers
    /\ limits \in 0 .. 1 + MaxResumes
    /\ worst \in {0} \cup Answers
    /\ mustWait \in BOOLEAN
    /\ round \in 0 .. MaxResumes
    /\ todo \subseteq Pages
    /\ result \in [written : BOOLEAN, report : Statuses \cup {"none", "ok"}, block : Statuses \cup {"none"}]

Pending == [written |-> FALSE, report |-> "none", block |-> "none"]

FetchInit ==
    /\ phase = "listing"
    /\ declared \in Declared
    /\ last = [i \in Pages |-> NotAsked]
    /\ asked = [i \in Pages |-> 0]
    /\ seen = {}
    /\ limits = 0
    /\ worst = 0
    /\ mustWait = FALSE
    /\ round = 0
    /\ todo = {}
    /\ result = Pending

\* classify(null, status), sourceHealth.ts:31-37, for a page's status.
Classified(status) ==
    CASE status = 429 -> "rate_limited"
      [] status = 403 -> "blocked"
      [] status \in {502, 503, 504} -> "down"
      [] OTHER -> "none"

\* Mutant: an empty body or a lost connection is classified like a status.
BlameForAnyStatus(status) ==
    IF Classified(status) = "none" THEN "blocked" ELSE Classified(status)

\* Whose fault a shortfall is: a sentinel is never a refusal.
BlameFor(status) ==
    IF status < 400 THEN "down"
    ELSE IF Classified(status) = "none" THEN "blocked" ELSE Classified(status)

-----------------------------------------------------------------------------
(* Listing the pages *)

\* getPageUrls threw; its message may or may not classify.
ListFails ==
    /\ phase = "listing"
    /\ phase' = "done"
    /\ \E s \in Statuses \cup {"none"} : result' = [Pending EXCEPT !.report = s]
    /\ UNCHANGED <<declared, last, asked, seen, limits, worst, mustWait, round, todo>>

\* getPageUrls answered with an empty list: an error, and no report.
NoUrls ==
    /\ phase = "listing"
    /\ phase' = "done"
    /\ UNCHANGED <<declared, last, asked, seen, limits, worst, mustWait, round, todo, result>>

List ==
    /\ phase = "listing"
    /\ phase' = "first"
    /\ todo' = Pages
    /\ UNCHANGED <<declared, last, asked, seen, limits, worst, mustWait, round, result>>

-----------------------------------------------------------------------------
(* Asking for pages *)

Larger(a, b) == IF a < b THEN b ELSE a

\* What a pass leaves to do after page i answered a: a 429 ends it.
Remaining(i, a) == IF a = 429 THEN {} ELSE todo \ {i}

\* fetchPage for the next page of the pass.
FetchPage(a) ==
    LET i == Min(todo) IN
    /\ phase \in {"first", "round"}
    /\ todo # {}
    /\ last' = [last EXCEPT ![i] = a]
    /\ asked' = [asked EXCEPT ![i] = IF @ = Cap THEN Cap ELSE @ + 1]
    /\ seen' = seen \cup {a}
    /\ limits' = IF a = 429 /\ limits # Cap THEN limits + 1 ELSE limits
    /\ worst' = IF a = Image THEN worst ELSE Larger(worst, a)
    /\ mustWait' = (mustWait \/ a = 429)
    /\ todo' = Remaining(i, a)
    /\ UNCHANGED <<phase, declared, round, result>>

\* Mutant: the rounds are not counted.
PassEndsUncounted ==
    /\ phase \in {"first", "round"}
    /\ todo = {}
    /\ phase' = "between"
    /\ UNCHANGED <<declared, last, asked, seen, limits, worst, mustWait, round, todo, result>>

\* The loop's end, or its break; round++ in the resume rounds.
PassEnds ==
    /\ phase \in {"first", "round"}
    /\ todo = {}
    /\ round' = IF phase = "round" THEN round + 1 ELSE 0
    /\ phase' = "between"
    /\ UNCHANGED <<declared, last, asked, seen, limits, worst, mustWait, todo, result>>

\* Mutant: nothing having arrived always ends it, the 429 included.
AnotherRoundDeaf ==
    /\ round < MaxResumes
    /\ Gaps # {} /\ Gaps # Pages
    /\ mustWait \/ round = 0

\* Mutant: a silent refusal is asked again.
AnotherRoundInsistent ==
    /\ round < MaxResumes
    /\ Gaps # {}
    /\ mustWait \/ round = 0

\* The tests at the head of the resume loop.
AnotherRound ==
    /\ round < MaxResumes
    /\ Gaps # {}
    /\ Gaps = Pages => mustWait
    /\ mustWait \/ round = 0

\* Sleep out the 429 if there was one, then ask for what is missing.
ResumeRound ==
    /\ phase = "between"
    /\ AnotherRound
    /\ phase' = "round"
    /\ mustWait' = FALSE
    /\ todo' = Gaps
    /\ UNCHANGED <<declared, last, asked, seen, limits, worst, round, result>>

-----------------------------------------------------------------------------
(* The verdict *)

Judging == phase = "between" /\ ~AnotherRound

\* !n: a report and a blockStatus, whatever the answers were.
NothingArrived ==
    /\ Judging
    /\ Got = {}
    /\ phase' = "done"
    /\ result' = [written |-> FALSE, report |-> BlameFor(worst), block |-> BlameFor(worst)]
    /\ UNCHANGED <<declared, last, asked, seen, limits, worst, mustWait, round, todo>>

Refusing == worst \in {403, 429}
Soft == worst < 400 /\ worst # NetError
Blip ==
    /\ ~Refusing
    /\ 100 * Cardinality(Got) >= (IF Soft THEN EmptyPct ELSE NearPct) * Expected

\* Mutant: every shortfall of a page fetch ends the caller's run, and the
\* report is made only when the source is refusing.
IncompleteUnreported ==
    /\ Judging
    /\ Got # {} /\ Cardinality(Got) < Expected
    /\ phase' = "done"
    /\ result' = [written |-> FALSE,
                  report |-> IF Refusing THEN BlameFor(worst) ELSE "none",
                  block |-> IF Refusing \/ (worst < 400 /\ ~Blip) THEN BlameFor(worst) ELSE "none"]
    /\ UNCHANGED <<declared, last, asked, seen, limits, worst, mustWait, round, todo>>

\* n < expected: the chapter is refused; a blip blames nobody, and the run
\* ends only for a refusal or a large shortfall with nothing behind it.
Incomplete ==
    /\ Judging
    /\ Got # {} /\ Cardinality(Got) < Expected
    /\ phase' = "done"
    /\ result' = [written |-> FALSE,
                  report |-> IF Blip THEN "none" ELSE BlameFor(worst),
                  block |-> IF Refusing \/ (worst < 400 /\ ~Blip) THEN BlameFor(worst) ELSE "none"]
    /\ UNCHANGED <<declared, last, asked, seen, limits, worst, mustWait, round, todo>>

\* Mutant: the completeness test is off by one page.
CompleteNearly ==
    /\ Judging
    /\ Got # {} /\ Cardinality(Got) + 1 >= Expected
    /\ phase' = "writing"
    /\ result' = [result EXCEPT !.report = "ok"]
    /\ UNCHANGED <<declared, last, asked, seen, limits, worst, mustWait, round, todo>>

\* reportOk, before the file exists.
Complete ==
    /\ Judging
    /\ Got # {} /\ Cardinality(Got) >= Expected
    /\ phase' = "writing"
    /\ result' = [result EXCEPT !.report = "ok"]
    /\ UNCHANGED <<declared, last, asked, seen, limits, worst, mustWait, round, todo>>

\* mkdir and writeAtomic succeed, or throw an error without a blockStatus.
Write ==
    /\ phase = "writing"
    /\ phase' = "done"
    /\ \E ok \in BOOLEAN : result' = [result EXCEPT !.written = ok]
    /\ UNCHANGED <<declared, last, asked, seen, limits, worst, mustWait, round, todo>>

Finished == phase = "done" /\ UNCHANGED fetchVars

FetchNext ==
    \/ ListFails \/ NoUrls \/ List
    \/ \E a \in Answers : FetchPage(a)
    \/ PassEnds \/ ResumeRound
    \/ NothingArrived \/ Incomplete \/ Complete \/ Write
    \/ Finished

FetchSpec == FetchInit /\ [][FetchNext]_fetchVars

\* Every request and sleep of the loop has a timeout, so each step is taken.
FetchFairSpec == FetchSpec /\ WF_fetchVars(FetchNext)

-----------------------------------------------------------------------------
(* Properties *)

Done == phase = "done"
Listed == seen # {}

\* downloader.ts:253-258: a chapter that is written, and that a bare stat()
\* trusts for good afterwards, holds every page of the list it was made
\* from, unless the source itself declared fewer and those are there.
WholeOrNothing ==
    result.written => Gaps = {} \/ (declared \in 1 .. NPages - 1 /\ Cardinality(Got) >= declared)

\* A page that arrived is kept and not requested again by a later round.
NoPageRefetched ==
    [][\A i \in Pages : last[i] = Image => last'[i] = Image /\ asked'[i] = asked[i]]_fetchVars

\* downloader.ts:205-206: once the site has answered 429 nothing more is
\* requested until the wait it asked for is over.
NothingAskedWhileToldToWait == mustWait => todo = {}

OnlyRateLimits == Listed /\ seen \subseteq {Image, 429}

\* downloader.ts:216-223: a chapter met by nothing worse than MaxResumes
\* 429s, the first page's included, is waited out and completed.
RateLimitsAreWaitedOut ==
    (Done /\ OnlyRateLimits /\ Expected <= NPages /\ limits <= MaxResumes) => result.report = "ok"

\* downloader.ts:228: nothing arrived and nobody asked us to wait, so no
\* page is asked for twice.
SilentRefusalNotAskedTwice ==
    (Done /\ Got = {} /\ 429 \notin seen) => \A i \in Pages : asked[i] <= 1

\* downloader.ts:82-88, 91: empty bodies and lost connections are an outage,
\* never a refusal, however few pages came.
OutageIsNotARefusal ==
    (Done /\ Listed /\ seen \subseteq {Image, EmptyBody, NetError})
        => result.report \in {"none", "ok", "down"}

\* What updater.ts relies on to park a source: a failure that ends the run
\* has been reported to sourceHealth for the same reason.  Reported and not
\* parked: reportFail swallows a write that fails (sourceHealth.ts:61).
BlockIsReported == Done /\ result.block # "none" => result.report = result.block

\* Whatever the answers are, the fetch comes to an end.
Terminates == <>Done
=============================================================================
