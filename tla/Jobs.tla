-------------------------------- MODULE Jobs --------------------------------
(***************************************************************************)
(* bff/src/routes/sources.ts: the download jobs.  An add (awaited by the   *)
(* importer or detached) and a fill each put a card on the job board, one  *)
(* card per folder, and then a worker fetches chapters and reports on      *)
(* whatever card the folder has by then (jobs.get).                        *)
(*                                                                         *)
(* One action per stretch between two awaits.  A card is an object: a      *)
(* worker may hold on to one that is no longer on the board.  Chapters are *)
(* fetched in order; the scan at every fifth one is left out, as the scans *)
(* at the start and at the end already do what a request can tell, and so  *)
(* is the count of chapters on a card.  Nothing of this is persisted but   *)
(* files and rows, so a restart is Init with other files.                  *)
(***************************************************************************)
EXTENDS Fill

CONSTANTS
    Requests,       \* the adds and fills that are made, once each
    MayBe,          \* what each request may be
    Folders,
    Chapters        \* the chapters of a series, 1 .. n

Kinds == {"add", "addAwaited", "fill"}
None == "none"

ASSUME MayBeAssumption == MayBe \in [Requests -> SUBSET Kinds]
ASSUME ChaptersAssumption == IsFiniteSet(Chapters) /\ Chapters = 1 .. Cardinality(Chapters)
ASSUME NoneAssumption == None \notin Requests \cup Folders

VARIABLES
    row,        \* lib_series by folder: "absent", "shown" or "deleted"
    disk,       \* the chapters that are there, by folder
    jobs,       \* the board: the request whose card the folder shows, or None
    cards,      \* the card each request made
    work,       \* where each request is
    told,       \* the requests whose caller was answered that they failed
    shared      \* observation: those beside whose card another worker was at work on the folder

vars == <<row, disk, jobs, cards, work, told, shared>>

Places == {"new", "looked", "first", "scan", "loop", "noting", "tail", "over"}
Active == {"first", "scan", "loop", "noting", "tail"}

Begun(place, kind, f, wanted) ==
    [at |-> place, kind |-> kind, folder |-> f, wanted |-> wanted, todo |-> wanted, failed |-> FALSE,
     card |-> None, refused |-> FALSE]
NoWork == Begun("new", "fill", None, {})

WorkType ==
    [at : Places, kind : Kinds, folder : Folders \cup {None}, wanted : SUBSET Chapters, todo : SUBSET Chapters,
     failed : BOOLEAN, card : Requests \cup {None}, refused : BOOLEAN]

\* The type invariant; what a worker has left to do is part of what it was asked.
TypeOK ==
    /\ row \in [Folders -> {"absent", "shown", "deleted"}]
    /\ disk \in [Folders -> SUBSET Chapters]
    /\ jobs \in [Folders -> Requests \cup {None}]
    /\ cards \in [Requests -> {"unused", "downloading", "done", "error"}]
    /\ work \in [Requests -> WorkType]
    /\ \A r \in Requests :
        /\ work[r].todo \subseteq work[r].wanted
        /\ work[r].at \in Active \cup {"looked"} => work[r].folder \in Folders
    /\ told \subseteq Requests /\ shared \subseteq Requests

Init ==
    /\ row \in [Folders -> {"absent", "shown", "deleted"}]
    /\ disk \in [Folders -> SUBSET Chapters]
    /\ \A f \in Folders : row[f] = "absent" => disk[f] = {}
    /\ jobs = [f \in Folders |-> None]
    /\ cards = [r \in Requests |-> "unused"]
    /\ work = [r \in Requests |-> NoWork]
    /\ told = {} /\ shared = {}

-----------------------------------------------------------------------------
(* The board *)

At(r, place) == work[r].at = place
Folder(r) == work[r].folder
Working(r, f) == work[r].at \in Active /\ Folder(r) = f
Becomes(r, w) == work' = [work EXCEPT ![r] = w]
GoesOn(r, place, todo, failed) ==
    Becomes(r, [at |-> place, kind |-> work[r].kind, folder |-> Folder(r), wanted |-> work[r].wanted,
                todo |-> todo, failed |-> failed, card |-> None, refused |-> FALSE])
GoTo(r, place) == GoesOn(r, place, work[r].todo, work[r].failed)
Leave(r) == GoesOn(r, "over", {}, FALSE)

\* Is there a card for the folder, and is it running?
Running(f) == jobs[f] # None /\ cards[jobs[f]] = "downloading"

\* jobs.set: a new card, whatever was there.
Open(r, f) ==
    /\ jobs' = [jobs EXCEPT ![f] = r]
    /\ cards' = [cards EXCEPT ![r] = "downloading"]
    /\ LET others == {s \in Requests \ {r} : Working(s, f)} IN
       shared' = shared \cup others \cup {s \in {r} : others # {}}

\* const j = jobs.get(folder); if (j) ...
Card(r) == jobs[Folder(r)]
Close(c, status) == cards' = IF c = None THEN cards ELSE [cards EXCEPT ![c] = status]

-----------------------------------------------------------------------------
(* An add: what is decided before the answer *)

\* The row is read; a deleted series is taken back.
Look(r, kind, f, wanted) ==
    /\ At(r, "new") /\ kind \in MayBe[r] \ {"fill"}
    /\ IF row[f] = "shown"
       THEN GoTo(r, "over")
       ELSE Becomes(r, Begun("looked", kind, f, wanted))
    /\ row' = [row EXCEPT ![f] = IF @ = "deleted" THEN "shown" ELSE @]
    /\ UNCHANGED <<disk, jobs, cards, told, shared>>

\* The card; an add that is not awaited is answered here.
StartAdd(r) ==
    /\ At(r, "looked")
    /\ Open(r, Folder(r))
    /\ GoTo(r, "first")
    /\ UNCHANGED <<row, disk, told>>

-----------------------------------------------------------------------------
(* A fill *)

\* Mutant: only the fill's own kind of job counts as busy.
StartFillBesideAdds(r, f, wanted) ==
    /\ At(r, "new") /\ "fill" \in MayBe[r] /\ row[f] # "absent"
    /\ IF Running(f) /\ work[jobs[f]].kind = "fill"
       THEN GoTo(r, "over") /\ UNCHANGED <<jobs, cards, shared>>
       ELSE /\ Open(r, f)
            /\ Becomes(r, Begun("loop", "fill", f, wanted))
    /\ UNCHANGED <<row, disk, told>>

\* The running check and the card, with no await between them.
StartFill(r, f, wanted) ==
    /\ At(r, "new") /\ "fill" \in MayBe[r] /\ row[f] # "absent"
    /\ IF Running(f)
       THEN GoTo(r, "over") /\ UNCHANGED <<jobs, cards, shared>>
       ELSE /\ Open(r, f)
            /\ Becomes(r, Begun("loop", "fill", f, wanted))
    /\ UNCHANGED <<row, disk, told>>

-----------------------------------------------------------------------------
(* The worker *)

\* Chapter c is the next one, and it is not there.
Due(r, c) == c \in work[r].todo /\ \A d \in work[r].todo : c <= d
Missing(r, c) == Due(r, c) /\ c \notin disk[Folder(r)]

Lands(r, c) == disk' = [disk EXCEPT ![Folder(r)] = @ \cup {c}]

\* Mutant: the card of an awaited add that failed stays on the board.
FirstFailsQuietly(r) ==
    /\ At(r, "first") /\ \E c \in Chapters : Missing(r, c)
    /\ Close(IF work[r].kind = "add" THEN Card(r) ELSE None, "error")
    /\ told' = told \cup {s \in {r} : work[s].kind = "addAwaited"}
    /\ Leave(r)
    /\ UNCHANGED <<row, disk, jobs, shared>>

\* Nothing of the first chapter arrived: a detached add leaves the report on
\* the card, an awaited one takes the card away and answers.
FirstFails(r) ==
    /\ At(r, "first") /\ \E c \in Chapters : Missing(r, c)
    /\ IF work[r].kind = "add"
       THEN Close(Card(r), "error") /\ UNCHANGED <<jobs, told>>
       ELSE /\ jobs' = [jobs EXCEPT ![Folder(r)] = None]
            /\ told' = told \cup {r}
            /\ UNCHANGED cards
    /\ Leave(r)
    /\ UNCHANGED <<row, disk, shared>>

FirstLands(r) ==
    /\ At(r, "first")
    /\ \E c \in Chapters :
        /\ Due(r, c) /\ Lands(r, c)
        /\ GoesOn(r, "scan", work[r].todo \ {c}, work[r].failed)
    /\ UNCHANGED <<row, jobs, cards, told, shared>>

\* persistScan: the folder has a row from now on.  It may fail (.catch).
Scanned(f) == row' \in {row, [row EXCEPT ![f] = IF @ = "absent" /\ disk[f] # {} THEN "shown" ELSE @]}

FirstScan(r) ==
    /\ At(r, "scan")
    /\ Scanned(Folder(r))
    /\ GoTo(r, "loop")
    /\ UNCHANGED <<disk, jobs, cards, told, shared>>

\* A chapter arrives or is there already.
ChapterLands(r) ==
    /\ At(r, "loop")
    /\ \E c \in Chapters :
        /\ Due(r, c) /\ Lands(r, c)
        /\ GoesOn(r, "loop", work[r].todo \ {c}, work[r].failed)
    /\ UNCHANGED <<row, jobs, cards, told, shared>>

\* The chapter cannot be saved, for a reason of its own.
AddChapterFails(r) ==
    /\ At(r, "loop") /\ work[r].kind # "fill"
    /\ \E c \in Chapters :
        /\ Missing(r, c)
        /\ GoesOn(r, "loop", work[r].todo \ {c}, TRUE)
    /\ UNCHANGED <<row, disk, jobs, cards, told, shared>>

\* What ends a loop: the source refuses (an add), the disk is full (a fill).
Breaks(r) ==
    /\ At(r, "loop") /\ \E c \in Chapters : Missing(r, c)
    /\ Close(Card(r), "error")
    /\ GoTo(r, "tail")
    /\ UNCHANGED <<row, disk, jobs, told, shared>>

\* A fill takes hold of the card, and then writes to the ledger.
FillChapterFails(r) ==
    /\ At(r, "loop") /\ work[r].kind = "fill" /\ \E c \in Chapters : Missing(r, c)
    /\ \E refused \in BOOLEAN :
        Becomes(r, [work[r] EXCEPT !.at = "noting", !.card = Card(r), !.refused = refused, !.failed = TRUE])
    /\ UNCHANGED <<row, disk, jobs, cards, told, shared>>

\* After the ledger: a refusal ends the loop, on the card it took hold of.
FillNoted(r) ==
    /\ At(r, "noting")
    /\ IF work[r].refused
       THEN /\ Close(work[r].card, "error")
            /\ GoTo(r, "tail")
       ELSE /\ \E c \in Chapters : Due(r, c) /\ GoesOn(r, "loop", work[r].todo \ {c}, TRUE)
            /\ UNCHANGED cards
    /\ UNCHANGED <<row, disk, jobs, told, shared>>

LoopEnds(r) ==
    /\ At(r, "loop") /\ work[r].todo = {}
    /\ GoTo(r, "tail")
    /\ UNCHANGED <<row, disk, jobs, cards, told, shared>>

\* Mutant: the tick goes green whatever was lost on the way.
FinishGreen(r) ==
    /\ At(r, "tail")
    /\ Scanned(Folder(r))
    /\ Close(IF Card(r) # None /\ cards[Card(r)] # "error" THEN Card(r) ELSE None, "done")
    /\ Leave(r)
    /\ UNCHANGED <<disk, jobs, told, shared>>

\* The last scan, and then whatever card the folder has is closed.
Finish(r) ==
    /\ At(r, "tail")
    /\ Scanned(Folder(r))
    /\ Close(IF Card(r) # None /\ cards[Card(r)] # "error" THEN Card(r) ELSE None,
             IF work[r].failed THEN "error" ELSE "done")
    /\ Leave(r)
    /\ UNCHANGED <<disk, jobs, told, shared>>

Work(r) ==
    \/ StartAdd(r) \/ FirstFails(r) \/ FirstLands(r) \/ FirstScan(r)
    \/ ChapterLands(r) \/ AddChapterFails(r) \/ Breaks(r)
    \/ FillChapterFails(r) \/ FillNoted(r) \/ LoopEnds(r) \/ Finish(r)

-----------------------------------------------------------------------------
(* What people do, and time *)

\* DELETE /api/sources/jobs/:folder, and sweepJobs, for one that is done.
TakeOff(f) ==
    /\ jobs[f] # None /\ ~Running(f)
    /\ jobs' = [jobs EXCEPT ![f] = None]
    /\ UNCHANGED <<row, disk, cards, work, told, shared>>

\* An administrator deletes the series; the files stay.
Delete(f) ==
    /\ row[f] = "shown"
    /\ row' = [row EXCEPT ![f] = "deleted"]
    /\ UNCHANGED <<disk, jobs, cards, work, told, shared>>

Next ==
    \/ \E r \in Requests : Work(r)
    \/ \E r \in Requests, f \in Folders, n \in Chapters, kind \in Kinds : Look(r, kind, f, 1 .. n)
    \/ \E r \in Requests, f \in Folders, picked \in SUBSET Chapters \ {{}} : StartFill(r, f, picked)
    \/ \E f \in Folders : TakeOff(f) \/ Delete(f)

Spec == Init /\ [][Next]_vars

\* A download answers or times out, a scan ends: a worker that has begun goes on.
FairSpec == Spec /\ \A r \in Requests : WF_vars(Work(r))

-----------------------------------------------------------------------------
(* Properties *)

\* sources.ts:417, "Done has to mean everything landed": a card that
\* only its own worker wrote to says so only of a series that is whole, and
\* when a worker is through and a chapter is missing, either its caller or
\* its card has said that it failed.
CardTellsTheTruth(r) ==
    /\ cards[r] = "done" => work[r].wanted \subseteq disk[Folder(r)]
    /\ At(r, "over") /\ ~(work[r].wanted \subseteq disk[Folder(r)]) =>
          r \in told \/ cards[r] = "error"

CardsTellTheTruth == \A r \in Requests : Folder(r) # None /\ r \notin shared => CardTellsTheTruth(r)

Fetching(r, f) == Folder(r) = f /\ work[r].at \in {"first", "scan", "loop", "noting"}

\* sources.ts:747, the busy check: a fill begins beside a worker that is
\* still fetching into the folder only when that worker's card had already
\* been written by another.
BusyIsRespected ==
    [][\A r \in Requests, f \in Folders :
        At(r, "new") /\ Fetching(r, f)' /\ work[r]'.kind = "fill" =>
            \A s \in Requests \ {r} : Fetching(s, f) => s \in shared]_vars

\* fill.ts:8-12 (see Fill): whatever a fill can be authorised to fetch is
\* missing from the library and bracketed by it, or beyond it; of every library
\* and every list.
FillIsRepair == (\E r \in Requests : work[r].kind = "fill") => DecisionsAreSound

\* A card stops saying that it is downloading: its worker's tail comes round,
\* or somebody else's report closes it or takes it away.
JobsEnd == \A f \in Folders : Running(f) ~> ~Running(f)
=============================================================================
