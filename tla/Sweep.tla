--------------------------------- MODULE Sweep ---------------------------------
(***************************************************************************)
(* bff/src/lib/updater.ts: the sweep for new chapters (runSweep and        *)
(* runUpdateAll) and the series check of routes/admin.ts, which share      *)
(* updateSeries and run concurrently, with the part of the rest they meet: *)
(* the cooldowns of sourceHealth.ts, the ledger of chapterFailures.ts, the *)
(* scan of library.ts that turns files into books, and the process itself  *)
(* (server.ts: the tick, SIGTERM, a kill, the boot).                       *)
(*                                                                         *)
(* A chapter's download is one step; what may come out of it is            *)
(* ChapterFetch's result.  The database reads between two network calls    *)
(* are one step.  Cooldowns have no length: each lapses at some time.      *)
(***************************************************************************)
EXTENDS Integers, FiniteSets, FiniteSetsExt, Functions

CONSTANTS
    Series, Sources,
    SourceOf,       \* lib_series.source_id
    Installed,      \* the sources getSource knows
    ChaptersOf,     \* the chapter numbers a series has at its source
    MaxNew,         \* opts.maxNew of the sweep
    SweepMax,       \* SWEEP_MAX
    RetryCap,       \* CHAPTER_RETRY_CAP
    CheckMax,       \* maxNew of the series check; 0 when nobody asks for one
    Publishes,      \* whether sources go on publishing new chapters
    Hideable,       \* the series that are hidden and restored
    Filled,         \* the series that a fill job is at work on
    DbFails,        \* whether the database may fail
    Restarts        \* bound on the times the process goes down

NoSeries == "none"

ASSUME SeriesAssumption == IsFiniteSet(Series) /\ NoSeries \notin Series
ASSUME RoutingAssumption == SourceOf \in [Series -> Sources] /\ Installed \subseteq Sources
ASSUME LimitsAssumption ==
    /\ ChaptersOf \in [Series -> SUBSET Nat] /\ \A s \in Series : IsFiniteSet(ChaptersOf[s])
    /\ MaxNew \in Nat \ {0} /\ SweepMax \in Nat \ {0} /\ RetryCap \in Nat \ {0}
    /\ CheckMax \in Nat /\ Restarts \in Nat
    /\ Publishes \in BOOLEAN /\ Hideable \subseteq Series /\ Filled \subseteq Series /\ DbFails \in BOOLEAN

VARIABLES
    chap,       \* "listed" by the source, on "disk", or a "row" of lib_books
    attempts,   \* chapter_failures.attempts; 0 when there is no row
    order,      \* each series' place by source_checked_at, NULLS FIRST
    visible,    \* visibleToAll: the series that are not deleted
    blocked,    \* the sources whose source_health.blocked_until > now()
    proc,       \* "up", "stopping", or how the process went down
    down,       \* how often it has
    worker,     \* one call of updateSeries each: the sweep's and the check's
    sweep,      \* runUpdateAll's locals
    scan,       \* persistScan's locals: folders to do, the files it saw
    refused,    \* observation: the sources whose refusal of the sweep was recorded and that still cool
    retried,    \* observation: the part of attempts noted by calls that had read the ledger
    landed      \* observation: the chapters this sweep has downloaded

library == <<chap, attempts, retried, order, visible>>
vars == <<library, blocked, proc, down, worker, sweep, scan, refused, landed>>

Workers == {"sweep", "check"}
Chapters == UNION Range(ChaptersOf)

\* Bounds: the code only asks whether attempts has reached the cap, and
\* retried goes above what CappedLeftAlone allows.
AttemptsBound == RetryCap
RetriedBound == RetryCap + 2

Idle == [step |-> "idle", series |-> NoSeries, max |-> 0, todo |-> {}, blind |-> FALSE, added |-> 0, failed |-> 0,
         outcome |-> "none", full |-> FALSE]

NoSweep == [phase |-> "idle", rows |-> [s \in Series |-> 0], keys |-> {}, queue |-> [k \in Sources |-> {}],
            pass |-> {}, parked |-> {}, progressed |-> FALSE, spent |-> 0, added |-> FALSE, stopped |-> "no"]

NoScan == [folders |-> {}, seen |-> [s \in Series |-> {}]]

Outcomes == {"none", "ok", "gone", "unrouted", "blocked", "source_error", "threw"}

Calls == [step : {"idle", "begin", "list", "loop", "fetch", "return"},
          series : Series \cup {NoSeries}, max : Nat, todo : SUBSET Chapters,
          blind : BOOLEAN,                                             \* the ledger could not be read
          added : Nat, failed : Nat, outcome : Outcomes, full : BOOLEAN]

Sweeps == [phase : {"idle", "visit", "call", "after", "scan", "done"},
           rows : [Series -> 0 .. Cardinality(Series)],                 \* the query's answer; 0 is not in it
           keys : SUBSET Sources, queue : [Sources -> SUBSET Series],   \* queues
           pass : SUBSET Sources,                                       \* not visited yet in this pass
           parked : SUBSET Sources, progressed : BOOLEAN, spent : Nat, added : BOOLEAN,
           stopped : {"no", "budget", "disk", "shutdown", "threw"}]

TypeOK ==
    /\ DOMAIN chap = Series /\ DOMAIN attempts = Series /\ DOMAIN retried = Series
    /\ \A s \in Series :
        /\ chap[s] \in [ChaptersOf[s] -> {"listed", "disk", "row"}]
        /\ attempts[s] \in [ChaptersOf[s] -> 0 .. AttemptsBound]
        /\ retried[s] \in [ChaptersOf[s] -> 0 .. RetriedBound]
    /\ order \in Bijection(Series, 1 .. Cardinality(Series))
    /\ visible \subseteq Series
    /\ blocked \subseteq Sources
    /\ proc \in {"up", "stopping", "closed", "timed_out", "killed"}
    /\ down \in 0 .. Restarts
    /\ worker \in [Workers -> Calls]
    /\ sweep \in Sweeps
    /\ scan \in [folders : SUBSET Series, seen : [Series -> SUBSET Chapters]]
    /\ refused \subseteq Sources
    /\ landed \subseteq Series \X Chapters

Init ==
    /\ chap = [s \in Series |-> [n \in ChaptersOf[s] |-> "listed"]]
    /\ attempts = [s \in Series |-> [n \in ChaptersOf[s] |-> 0]]
    /\ retried = attempts
    /\ order \in Bijection(Series, 1 .. Cardinality(Series))
    /\ visible = Series
    /\ blocked = {}
    /\ proc = "up" /\ down = 0
    /\ worker = [w \in Workers |-> Idle]
    /\ sweep = NoSweep
    /\ scan = NoScan
    /\ refused = {}
    /\ landed = {}

Running == proc \in {"up", "stopping"}
Src(w) == SourceOf[worker[w].series]
Current(w) == Min(worker[w].todo)

Called(s, max) == [Idle EXCEPT !.step = "begin", !.series = s, !.max = max]

-----------------------------------------------------------------------------
(* updateSeries, up to the list *)

\* Worker w's call returns with r.  The check's .then does no more than show
\* it and clear the busy flag, in the same turn of the event loop.
Leaves(w, r) ==
    worker' = [worker EXCEPT ![w] = IF w = "check" THEN Idle ELSE [r EXCEPT !.step = "return", !.todo = {}, !.blind = FALSE]]

Returns(w, outcome) == Leaves(w, [worker[w] EXCEPT !.outcome = outcome])

\* Mutant: the cooldown is not asked about.
BeginUnasked(w) ==
    /\ Running
    /\ worker[w].step = "begin"
    /\ IF worker[w].series \in visible /\ Src(w) \in Installed
         THEN worker' = [worker EXCEPT ![w].step = "list"]
         ELSE Returns(w, "gone")
    /\ UNCHANGED <<library, blocked, proc, down, sweep, scan, refused, landed>>

\* The early returns, then the list is asked for.
Begin(w) ==
    LET s == worker[w].series IN
    /\ Running
    /\ worker[w].step = "begin"
    /\ \/ s \notin visible /\ Returns(w, "gone")
       \/ s \in visible /\ Src(w) \notin Installed /\ Returns(w, "unrouted")
       \/ s \in visible /\ Src(w) \in Installed \cap blocked /\ Returns(w, "blocked")
       \/ /\ s \in visible /\ Src(w) \in Installed \ blocked
          /\ worker' = [worker EXCEPT ![w].step = "list"]
    /\ UNCHANGED <<library, blocked, proc, down, sweep, scan, refused, landed>>

\* A database read throws, before the loop; nothing has been stamped.
Throws(w) ==
    /\ Running /\ DbFails
    /\ worker[w].step \in {"begin", "list"}
    /\ Returns(w, "threw")
    /\ UNCHANGED <<library, blocked, proc, down, sweep, scan, refused, landed>>

\* Mutant: the stamp is not written.
NotStamped(s) == order

\* Mutant: the others keep the places they had.
StampedBeside(s) == [order EXCEPT ![s] = Cardinality(Series)]

\* stampChecked: source_checked_at = now(), which is the last place.
Stamped(s) ==
    [t \in Series |-> IF t = s THEN Cardinality(Series)
                      ELSE IF order[t] > order[s] THEN order[t] - 1 ELSE order[t]]

\* A stamp that fails is passed over.
Stamps(s) ==
    \/ order' = Stamped(s)
    \/ DbFails /\ order' = order

\* listChapters threw or timed out, or answered with nothing.
ListsNothing(w) ==
    /\ Running
    /\ worker[w].step = "list"
    /\ \E o \in {"source_error", "ok"} : Returns(w, o)
    /\ Stamps(worker[w].series)
    /\ UNCHANGED <<chap, attempts, retried, visible, blocked, proc, down, sweep, scan, refused, landed>>

Oldest(S, k) == {n \in S : Cardinality({m \in S : m < n}) < k}

\* A file without a book is missing too.
Missing(s) == {n \in ChaptersOf[s] : chap[s][n] # "row"}

\* Mutant: the ledger is not consulted.
EligibleCapOrNot(s) == Missing(s)

\* missing less the capped.
Eligible(s) == {n \in Missing(s) : attempts[s][n] < RetryCap}

\* A ledger that cannot be read is taken for an empty one.
Lists(w) ==
    LET s == worker[w].series IN
    /\ Running
    /\ worker[w].step = "list"
    /\ Stamps(s)
    /\ \E lost \in {FALSE, DbFails} :
        worker' = [worker EXCEPT ![w].step = "loop", ![w].blind = lost,
                     ![w].todo = Oldest(IF lost THEN Missing(s) ELSE Eligible(s), worker[w].max)]
    /\ UNCHANGED <<chap, attempts, retried, visible, blocked, proc, down, sweep, scan, refused, landed>>

-----------------------------------------------------------------------------
(* updateSeries, the chapters *)

LoopEnds(w) ==
    /\ Running
    /\ worker[w].step = "loop"
    /\ worker[w].todo = {} \/ proc = "stopping"
    /\ Returns(w, "ok")
    /\ UNCHANGED <<library, blocked, proc, down, sweep, scan, refused, landed>>

InLoop(w) == Running /\ proc # "stopping" /\ worker[w].step = "loop" /\ worker[w].todo # {}

\* The stat() of downloadChapter finds the file.
Skips(w) ==
    /\ InLoop(w)
    /\ chap[worker[w].series][Current(w)] # "listed"
    /\ worker' = [worker EXCEPT ![w].todo = @ \ {Current(w)}]
    /\ UNCHANGED <<library, blocked, proc, down, sweep, scan, refused, landed>>

\* assertFreeSpace throws.
DiskFull(w) ==
    /\ InLoop(w)
    /\ chap[worker[w].series][Current(w)] = "listed"
    /\ Leaves(w, [worker[w] EXCEPT !.outcome = "ok", !.full = TRUE])
    /\ UNCHANGED <<library, blocked, proc, down, sweep, scan, refused, landed>>

Fetches(w) ==
    /\ InLoop(w)
    /\ chap[worker[w].series][Current(w)] = "listed"
    /\ worker' = [worker EXCEPT ![w].step = "fetch"]
    /\ UNCHANGED <<library, blocked, proc, down, sweep, scan, refused, landed>>

\* The cooldown of k is set (b) or lifted.
Cool(k, b) ==
    /\ blocked' = IF b THEN blocked \cup {k} ELSE blocked \ {k}
    /\ refused' = IF b THEN refused ELSE refused \ {k}

\* reportOk and reportFail pass over a write that fails.
Unreported == DbFails /\ UNCHANGED <<blocked, refused>>

\* The chapter is written; reportOk clears any cooldown.
Lands(w) ==
    LET s == worker[w].series
        n == Current(w) IN
    /\ Running
    /\ worker[w].step = "fetch"
    /\ chap' = [chap EXCEPT ![s][n] = IF @ = "row" THEN "row" ELSE "disk"]
    /\ worker' = [worker EXCEPT ![w].step = "loop", ![w].todo = @ \ {n}, ![w].added = @ + 1]
    /\ landed' = IF w = "sweep" /\ s \in visible THEN landed \cup {<<s, n>>} ELSE landed
    /\ Cool(Src(w), FALSE) \/ Unreported
    /\ UNCHANGED <<attempts, retried, order, visible, proc, down, sweep, scan>>

Noted(ledger, s, n, bound) == [ledger EXCEPT ![s][n] = IF @ = bound THEN @ ELSE @ + 1]

\* noteChapterFailure, which passes over a write that fails.
NotesFailure(w) ==
    LET s == worker[w].series
        n == Current(w) IN
    \/ /\ attempts' = Noted(attempts, s, n, AttemptsBound)
       /\ retried' = IF worker[w].blind THEN retried ELSE Noted(retried, s, n, RetriedBound)
    \/ DbFails /\ UNCHANGED <<attempts, retried>>

\* It fails without a blockStatus: the loop goes on.  The source may have
\* been reported all the same, or its cooldown cleared before the write.
FailsAlone(w) ==
    LET n == Current(w) IN
    /\ Running
    /\ worker[w].step = "fetch"
    /\ NotesFailure(w)
    /\ worker' = [worker EXCEPT ![w].step = "loop", ![w].todo = @ \ {n}, ![w].failed = @ + 1]
    /\ \/ \E b \in BOOLEAN : Cool(Src(w), b)
       \/ UNCHANGED <<blocked, refused>>
    /\ UNCHANGED <<chap, order, visible, proc, down, sweep, scan, landed>>

\* It fails with a blockStatus, which ChapterFetch shows is reported.
Refused(w) ==
    /\ Running
    /\ worker[w].step = "fetch"
    /\ NotesFailure(w)
    /\ Leaves(w, [worker[w] EXCEPT !.outcome = "ok", !.failed = @ + 1])
    /\ \/ /\ blocked' = blocked \cup {Src(w)}
          /\ refused' = IF w = "sweep" THEN refused \cup {Src(w)} ELSE refused
       \/ Unreported
    /\ UNCHANGED <<chap, order, visible, proc, down, sweep, scan, landed>>

UpdateSeries(w) ==
    \/ Begin(w) \/ Throws(w) \/ ListsNothing(w) \/ Lists(w)
    \/ LoopEnds(w) \/ Skips(w) \/ DiskFull(w) \/ Fetches(w)
    \/ Lands(w) \/ FailsAlone(w) \/ Refused(w)

-----------------------------------------------------------------------------
(* runUpdateAll *)

QueueOf(k) == {s \in visible : SourceOf[s] = k}

StartSweep ==
    LET keys == {SourceOf[s] : s \in visible} IN
    /\ proc = "up"
    /\ sweep.phase = "idle"
    /\ sweep' = [NoSweep EXCEPT !.phase = "visit", !.keys = keys, !.pass = keys,
                                !.rows = [s \in Series |-> IF s \in visible THEN order[s] ELSE 0],
                                !.queue = [k \in Sources |-> QueueOf(k)]]
    /\ landed' = {}
    /\ UNCHANGED <<library, blocked, proc, down, worker, scan, refused>>

\* The series of a queue and the queues themselves come in the order of the
\* query's rows: a Map keeps the order in which its keys came up.
FirstRow(k) == Min({sweep.rows[s] : s \in {x \in Series : SourceOf[x] = k /\ sweep.rows[x] # 0}})
Turn == CHOOSE k \in sweep.pass : \A j \in sweep.pass : FirstRow(k) <= FirstRow(j)
Shift(k) == CHOOSE s \in sweep.queue[k] : \A t \in sweep.queue[k] : sweep.rows[s] <= sweep.rows[t]

AtTurn == Running /\ sweep.phase = "visit" /\ sweep.pass # {}

\* An emptied queue is deleted; a parked one is passed over.
PassOver ==
    /\ AtTurn
    /\ sweep.queue[Turn] = {} \/ Turn \in sweep.parked
    /\ sweep' = [sweep EXCEPT !.pass = @ \ {Turn},
                              !.keys = IF sweep.queue[Turn] = {} THEN @ \ {Turn} ELSE @]
    /\ UNCHANGED <<library, blocked, proc, down, worker, scan, refused, landed>>

Due == AtTurn /\ sweep.queue[Turn] # {} /\ Turn \notin sweep.parked

\* The loop is over, with what matters of its locals f after it.
Over(f) == [NoSweep EXCEPT !.phase = "after", !.queue = f.queue, !.parked = f.parked,
                           !.added = f.added, !.stopped = f.stopped]

StopShort ==
    /\ Due
    /\ proc = "stopping" \/ sweep.spent >= SweepMax
    /\ sweep' = Over([sweep EXCEPT !.stopped = IF proc = "stopping" THEN "shutdown" ELSE "budget"])
    /\ UNCHANGED <<library, blocked, proc, down, worker, scan, refused, landed>>

\* Mutant: maxNew is not clamped to what the budget has left.
AllowanceUnclamped == MaxNew

Allowance == Min({MaxNew, SweepMax - sweep.spent})

Visit ==
    /\ Due
    /\ proc # "stopping" /\ sweep.spent < SweepMax
    /\ sweep' = [sweep EXCEPT !.phase = "call", !.pass = @ \ {Turn}, !.progressed = TRUE,
                              !.queue[Turn] = @ \ {Shift(Turn)}]
    /\ worker' = [worker EXCEPT !["sweep"] = Called(Shift(Turn), Allowance)]
    /\ UNCHANGED <<library, blocked, proc, down, scan, refused, landed>>

\* Mutant: a full disk breaks the loop before the tally.
TallyAfterTheBreak ==
    LET r == worker["sweep"] IN
    /\ Running
    /\ sweep.phase = "call"
    /\ r.step = "return"
    /\ sweep' = IF r.full
                  THEN Over([sweep EXCEPT !.stopped = "disk"])
                  ELSE [sweep EXCEPT !.added = @ \/ r.added > 0,
                                     !.spent = @ + r.added + r.failed,
                                     !.phase = "visit",
                                     !.parked = IF r.outcome = "blocked" THEN @ \cup {Src("sweep")} ELSE @]
    /\ worker' = [worker EXCEPT !["sweep"] = Idle]
    /\ UNCHANGED <<library, blocked, proc, down, scan, refused, landed>>

\* updateSeries has returned.
Tally ==
    LET r == worker["sweep"]
        counted == [sweep EXCEPT !.phase = "visit",
                                 !.added = @ \/ r.added > 0,
                                 !.spent = @ + r.added + r.failed,
                                 !.parked = IF r.outcome = "blocked" THEN @ \cup {Src("sweep")} ELSE @] IN
    /\ Running
    /\ sweep.phase = "call"
    /\ r.step = "return"
    /\ sweep' = IF r.full THEN Over([counted EXCEPT !.stopped = "disk"]) ELSE counted
    /\ worker' = [worker EXCEPT !["sweep"] = Idle]
    /\ UNCHANGED <<library, blocked, proc, down, scan, refused, landed>>

\* Mutant: the parked sources are passed over again and again, unasked.
EndPassRegardless ==
    /\ Running
    /\ sweep.phase = "visit"
    /\ sweep.pass = {}
    /\ sweep' = IF sweep.keys # {} THEN [sweep EXCEPT !.progressed = FALSE, !.pass = sweep.keys]
                                    ELSE Over(sweep)
    /\ UNCHANGED <<library, blocked, proc, down, worker, scan, refused, landed>>

\* Mutant: a cooldown ends the sweep with the pass it turned up in.
EndPassAtCooldown ==
    LET again == sweep.progressed /\ sweep.keys # {} /\ sweep.parked = {} IN
    /\ Running
    /\ sweep.phase = "visit"
    /\ sweep.pass = {}
    /\ sweep' = IF again THEN [sweep EXCEPT !.progressed = FALSE, !.pass = sweep.keys] ELSE Over(sweep)
    /\ UNCHANGED <<library, blocked, proc, down, worker, scan, refused, landed>>

\* The end of a pass.  One without progress asks the parked sources again.
EndPass ==
    LET freed == IF sweep.progressed THEN {} ELSE sweep.parked \ blocked
        f == [sweep EXCEPT !.parked = @ \ freed, !.progressed = FALSE, !.pass = sweep.keys] IN
    /\ Running
    /\ sweep.phase = "visit"
    /\ sweep.pass = {}
    /\ sweep' = IF (sweep.progressed \/ freed # {}) /\ sweep.keys # {} THEN f ELSE Over(f)
    /\ UNCHANGED <<library, blocked, proc, down, worker, scan, refused, landed>>

\* blockedNow throws at the end of a pass without progress: nothing catches
\* it before runSweep, and the scan is passed over.
AskingThrows ==
    /\ Running /\ DbFails
    /\ sweep.phase = "visit"
    /\ sweep.pass = {} /\ ~sweep.progressed /\ sweep.parked # {}
    /\ sweep' = [NoSweep EXCEPT !.phase = "done", !.queue = sweep.queue, !.parked = sweep.parked,
                                !.added = sweep.added, !.stopped = "threw"]
    /\ UNCHANGED <<library, blocked, proc, down, worker, scan, refused, landed>>

\* if (added) await persistScan()
After ==
    /\ Running
    /\ sweep.phase = "after"
    /\ sweep' = [sweep EXCEPT !.phase = IF sweep.added THEN "scan" ELSE "done"]
    /\ scan' = IF sweep.added
                 THEN [folders |-> Series,
                       seen |-> [s \in Series |-> {n \in ChaptersOf[s] : chap[s][n] # "listed"}]]
                 ELSE NoScan
    /\ UNCHANGED <<library, blocked, proc, down, worker, refused, landed>>

\* runSweep's finally.
EndSweep ==
    /\ Running
    /\ sweep.phase = "done"
    /\ sweep' = NoSweep
    /\ landed' = {}
    /\ UNCHANGED <<library, blocked, proc, down, worker, scan, refused>>

-----------------------------------------------------------------------------
(* persistScan, as far as chapters go *)

ScanFolder(s) ==
    /\ Running
    /\ sweep.phase = "scan"
    /\ s \in scan.folders
    /\ scan' = [scan EXCEPT !.folders = @ \ {s}]
    /\ chap' = IF s \in visible
                 THEN [chap EXCEPT ![s] = [n \in ChaptersOf[s] |-> IF n \in scan.seen[s] THEN "row" ELSE @[n]]]
                 ELSE chap
    /\ UNCHANGED <<attempts, retried, order, visible, blocked, proc, down, worker, sweep, refused, landed>>

Forgotten(ledger) == [s \in Series |-> [n \in ChaptersOf[s] |-> IF chap[s][n] = "row" THEN 0 ELSE ledger[s][n]]]

\* The last statement: a chapter that has landed is no longer a failure.
\* It is passed over when it fails.
ScanEnds ==
    /\ Running
    /\ sweep.phase = "scan"
    /\ scan.folders = {}
    /\ \/ attempts' = Forgotten(attempts) /\ retried' = Forgotten(retried)
       \/ DbFails /\ UNCHANGED <<attempts, retried>>
    /\ sweep' = [sweep EXCEPT !.phase = "done"]
    /\ scan' = NoScan
    /\ UNCHANGED <<chap, order, visible, blocked, proc, down, worker, refused, landed>>

\* The database fails between two folders; runSweep logs it.
ScanThrows ==
    /\ Running /\ DbFails
    /\ sweep.phase = "scan"
    /\ sweep' = [sweep EXCEPT !.phase = "done", !.stopped = "threw"]
    /\ scan' = NoScan
    /\ UNCHANGED <<library, blocked, proc, down, worker, refused, landed>>

-----------------------------------------------------------------------------
(* The series check: POST /api/admin/series/:id/check *)

StartCheck(s) ==
    /\ proc = "up"
    /\ CheckMax > 0
    /\ worker["check"].step = "idle"
    /\ worker' = [worker EXCEPT !["check"] = Called(s, CheckMax)]
    /\ UNCHANGED <<library, blocked, proc, down, sweep, scan, refused, landed>>

-----------------------------------------------------------------------------
(* The process *)

\* SIGTERM or SIGINT.
Sigterm ==
    /\ proc = "up" /\ down < Restarts
    /\ proc' = "stopping"
    /\ UNCHANGED <<library, blocked, down, worker, sweep, scan, refused, landed>>

\* app.close() has settled, the 20 s are over, or there was no signal: the
\* process ends, whatever its loops are at.  The database stays.
Exits ==
    /\ Running /\ down < Restarts
    /\ proc' \in (IF proc = "stopping" THEN {"closed", "timed_out"} ELSE {"killed"})
    /\ down' = down + 1
    /\ worker' = [w \in Workers |-> Idle]
    /\ sweep' = NoSweep
    /\ scan' = NoScan
    /\ landed' = {}
    /\ UNCHANGED <<library, blocked, refused>>

Boot ==
    /\ ~Running
    /\ proc' = "up"
    /\ UNCHANGED <<library, blocked, down, worker, sweep, scan, refused, landed>>

-----------------------------------------------------------------------------
(* The rest of the world *)

CooldownLapses(k) ==
    /\ k \in blocked
    /\ Cool(k, FALSE)
    /\ UNCHANGED <<library, proc, down, worker, sweep, scan, landed>>

\* A new chapter.  Chapters is a window: the number of one that is a book
\* and that nobody is working on stands for the new one.
Publish(s, n) ==
    /\ Publishes
    /\ chap[s][n] = "row"
    /\ \A w \in Workers : worker[w].series = s => n \notin worker[w].todo
    /\ sweep.phase # "scan"
    /\ chap' = [chap EXCEPT ![s][n] = "listed"]
    /\ attempts' = [attempts EXCEPT ![s][n] = 0] /\ retried' = [retried EXCEPT ![s][n] = 0]
    /\ landed' = landed \ {<<s, n>>}
    /\ UNCHANGED <<order, visible, blocked, proc, down, worker, sweep, scan, refused>>

\* deleteSeries and restoreSeries.
Toggle(s) ==
    /\ s \in Hideable
    /\ visible' = IF s \in visible THEN visible \ {s} ELSE visible \cup {s}
    /\ landed' = {p \in landed : p[1] # s}
    /\ UNCHANGED <<chap, attempts, retried, order, blocked, proc, down, worker, sweep, scan, refused>>

\* A chapter fails in a fill job (Jobs), which notes it in the same ledger
\* and has no cap.  What the job saves and scans is as good as the check's.
FillFails(s, n) ==
    /\ Running
    /\ s \in Filled
    /\ chap[s][n] = "listed"
    /\ attempts' = Noted(attempts, s, n, AttemptsBound)
    /\ UNCHANGED <<chap, retried, order, visible, blocked, proc, down, worker, sweep, scan, refused, landed>>

SweepSteps ==
    \/ PassOver \/ StopShort \/ Visit \/ Tally \/ EndPass \/ AskingThrows \/ After \/ EndSweep
    \/ \E s \in Series : ScanFolder(s)
    \/ ScanEnds \/ ScanThrows

Next ==
    \/ StartSweep \/ SweepSteps
    \/ \E w \in Workers : UpdateSeries(w)
    \/ \E s \in Series : StartCheck(s)
    \/ Sigterm \/ Exits \/ Boot
    \/ \E k \in Sources : CooldownLapses(k)
    \/ \E s \in Series : \E n \in ChaptersOf[s] : Publish(s, n) \/ FillFails(s, n)
    \/ \E s \in Series : Toggle(s)

Spec == Init /\ [][Next]_vars

\* The tick comes round, awaited calls settle, cooldowns end and a process
\* that went down is started again.  Nobody is bound to ask for a check, to publish, to hide
\* or to send a signal.
FairSpec ==
    /\ Spec
    /\ WF_vars(StartSweep) /\ WF_vars(SweepSteps)
    /\ \A w \in Workers : WF_vars(UpdateSeries(w))
    /\ WF_vars(Boot)
    /\ WF_vars(proc = "stopping" /\ Exits)
    /\ \A k \in Sources : WF_vars(CooldownLapses(k))

-----------------------------------------------------------------------------
(* Properties *)

\* updater.ts:38-44: the attempts of one sweep, those of the series it is at
\* included, never pass SWEEP_MAX.
BudgetHeld == sweep.spent + worker["sweep"].added + worker["sweep"].failed <= SweepMax

\* updater.ts:123-128: a source whose refusal of the sweep is on record is
\* not asked for anything by that sweep, or by a later one, until its
\* cooldown is over.  A refusal that could not be written down
\* (sourceHealth.ts:61) holds nobody back.
NoKnockAfterRefusal ==
    worker["sweep"].step \in {"list", "loop", "fetch"} => Src("sweep") \notin refused

\* updater.ts:140-156 and 206-211: a cooldown holds back its own source only.
\* A sweep that nothing cut short leaves out series of parked sources alone.
OnlyParkedLeftOut ==
    sweep.phase \in {"after", "scan", "done"} /\ sweep.stopped = "no"
        => \A k \in Sources : sweep.queue[k] # {} => k \in sweep.parked

\* updater.ts:91-100, chapterFailures.ts:7-15: a chapter that keeps failing
\* is given up, whoever else writes the ledger and whatever of it is lost.
\* Of the failures on record since the chapter last was a book, those of calls
\* that could read the ledger overrun the cap by one at most: both callers may
\* have read it before either wrote.  A call whose read fails tries again.
CappedLeftAlone == \A s \in Series : \A n \in ChaptersOf[s] : retried[s][n] <= RetryCap + 1

\* updater.ts:202 and 213-215: whether a sweep ran out, was parked, spent its
\* budget, met a full disk or was told to stop, each chapter it downloaded for
\* a series that stayed visible is a book when it is done.  Only a database
\* that throws, in the scan or where a parked source is asked about
\* (updater.ts:209), leaves chapters to a later scan.
SweepShelvesItsChapters ==
    sweep.phase = "done" /\ sweep.stopped # "threw" => \A p \in landed : chap[p[1]][p[2]] = "row"

\* updater.ts:184-211: a sweep that has begun ends, though sources publish
\* and refuse for ever.
SweepEnds == sweep.phase # "idle" ~> sweep.phase = "idle"

GetsItsTurn(s) == worker["sweep"].series = s /\ worker["sweep"].step = "list"

\* updater.ts:56-68 and 157-163: the oldest check comes first, so a budget
\* smaller than the backlog starves no series of an installed source.  One
\* whose source keeps cooling down, or that is hidden, has no such promise.
EverySeriesGetsItsTurn ==
    \A s \in {x \in Series : SourceOf[x] \in Installed} :
        []<>GetsItsTurn(s) \/ []<>(s \notin visible) \/ []<>(SourceOf[s] \in blocked)
=============================================================================
