------------------------------ MODULE Library ------------------------------
(***************************************************************************)
(* Folders on disk, and the rows that stand for them.                      *)
(*                                                                         *)
(* bff/src/lib/library.ts persistScan walks the two library roots and      *)
(* upserts a series row per folder and a book row per chapter, a           *)
(* transaction per folder; scans are started by every add, every sweep     *)
(* that downloaded something and the admin, and nothing keeps two of them  *)
(* apart.  Meanwhile an admin hides, restores, merges and renames series   *)
(* and deletes a hidden one's files (libraryAdmin.ts, routes/admin.ts), a  *)
(* download writes into the folder it read when it began, and a reader's   *)
(* progress is filed under the series its chapter was in when looked up.   *)
(*                                                                         *)
(* One library, one reader, LIBRARY_REMATCH off (its default), and one     *)
(* admin request at a time.  A book row is named by its (root, file) and   *)
(* keeps its contents when a rename moves it, as its id does.  Ids are     *)
(* handed out in order; 0 is no series.                                    *)
(***************************************************************************)
EXTENDS Integers, FiniteSets, FiniteSetsExt, Functions

CONSTANTS
    Folders,        \* folderRel
    Roots,          \* LIBRARY_ROOT and DL_ROOT
    DlRoot,         \* DL_ROOT
    Chapters,       \* file names in a folder
    Scanners,       \* persistScan calls that may be in flight together
    InitialFiles,   \* the files found at the first start
    Reading,        \* bound: the chapters somebody may read
    MaxChanges      \* bound on the admin's requests and downloads

None == 0

ASSUME RootsAssumption == DlRoot \in Roots /\ IsFiniteSet(Roots)
ASSUME FoldersAssumption == IsFiniteSet(Folders) /\ None \notin Folders
ASSUME FilesAssumption == InitialFiles \cup Reading \subseteq Roots \X Folders \X Chapters
ASSUME BoundAssumption == MaxChanges \in Nat

VARIABLES
    disk,       \* the files, <<root, folder, chapter>>
    row,        \* lib_series: folder, deleted_at, merged_into of each id
    book,       \* lib_books joined with read_progress, by (root, file)
    scan,       \* the locals of each persistScan
    request,    \* the locals of renameSeriesFolder or of deleteSeriesFiles
    job,        \* the folder a running download writes into
    changes,    \* changes left to make, a bound
    settled,    \* observation: a scan ended that nothing disturbed, and nothing happened since
    split       \* observation: a rename took effect under a scan, or of a row that was merged away

vars == <<disk, row, book, scan, request, job, changes, settled, split>>

Paths == Roots \X Folders \X Chapters
\* A folder has at most one row, so there are never more ids than folders.
Ids == 1 .. Cardinality(Folders)
NoRow == [folder |-> None, deleted |-> FALSE, merged |-> None]
NoBook == [series |-> None, opened |-> None, read |-> None]

FolderOf(p) == p[2]
FilesIn(root, f) == {p \in disk : p[1] = root /\ p[2] = f}
Rows == {s \in Ids : row[s] # NoRow}
RowsOf(f) == {s \in Rows : row[s].folder = f}
BooksOf(s) == {p \in Paths : book[p].series = s}
\* rootsOf: every root the series' books live under.
RootsOf(s) == {p[1] : p \in BooksOf(s)}
\* visibleToAll(s)
Visible(s) == s \in Rows /\ ~row[s].deleted /\ row[s].merged = None

Scans == [phase : {"idle", "walk", "folders", "apply"},
          roots : SUBSET Roots,                     \* still to walk
          root : Roots,                             \* being walked
          found : [Folders -> SUBSET Chapters],     \* findSeriesDirs(root)
          seen : [Folders -> {None} \cup Ids],      \* seenFolders
          folder : Folders \cup {None},
          merged : {None} \cup Ids,                 \* mergeTarget
          fresh : BOOLEAN]                          \* observation: undisturbed, as the scans it overlaps

TypeOK ==
    /\ disk \subseteq Paths
    /\ row \in [Ids -> [folder : Folders \cup {None}, deleted : BOOLEAN, merged : {None} \cup Ids]]
    /\ \A s, t \in Rows : row[s].folder = row[t].folder => s = t
    /\ book \in [Paths -> [series : {None} \cup Rows, opened : {None} \cup Rows, read : {None} \cup Rows]]
    /\ scan \in [Scanners -> Scans]
    /\ request \in [phase : {"idle", "moving", "undoing", "saving", "deleting"}, series : {None} \cup Rows,
                    from : Folders \cup {None}, to : Folders \cup {None},
                    roots : SUBSET Roots, todo : SUBSET Roots, done : SUBSET Roots,
                    before : SUBSET Paths]     \* of a rename, the folder's files when it began (observation);
                                               \* of a deletion, the books of the root it is at
    /\ job \in Folders \cup {None}
    /\ changes \in 0 .. MaxChanges
    /\ settled \in BOOLEAN
    /\ split \in BOOLEAN

NoRequest == [phase |-> "idle", series |-> None, from |-> None, to |-> None,
                roots |-> {}, todo |-> {}, done |-> {}, before |-> {}]
NotScanning == [phase |-> "idle", roots |-> {}, root |-> DlRoot, found |-> [f \in Folders |-> {}],
                seen |-> [f \in Folders |-> None], folder |-> None, merged |-> None, fresh |-> FALSE]

Init ==
    /\ disk = InitialFiles
    /\ row = [s \in Ids |-> NoRow]
    /\ book = [p \in Paths |-> NoBook]
    /\ scan = [c \in Scanners |-> NotScanning]
    /\ request = NoRequest
    /\ job = None
    /\ changes = MaxChanges
    /\ settled = FALSE
    /\ split = FALSE

\* Observation: what happens outside a scan is not in that scan's picture.
Disturb ==
    /\ scan' = [c \in Scanners |-> [scan[c] EXCEPT !.fresh = FALSE]]
    /\ settled' = FALSE

-----------------------------------------------------------------------------
(* persistScan *)

StartScan(c) ==
    /\ scan[c].phase = "idle"
    /\ scan' = [scan EXCEPT ![c] = [NotScanning EXCEPT !.phase = "walk", !.roots = Roots,
                                                     !.fresh = \A d \in Scanners : scan[d].phase # "idle" => scan[d].fresh]]
    /\ UNCHANGED <<disk, row, book, request, job, changes, settled, split>>

NoneLeft(c) == scan[c].phase = "folders" /\ \A f \in Folders : scan[c].found[f] = {}

\* findSeriesDirs for the next root, when the last one is done; the chapters
\* of each folder are read now and used until then.  LIBRARY_ROOT comes first.
WalkRoot(c) ==
    /\ scan[c].phase = "walk" \/ NoneLeft(c)
    /\ \E r \in scan[c].roots :
         /\ r = DlRoot => scan[c].roots = {DlRoot}
         /\ scan' = [scan EXCEPT ![c].phase = "folders", ![c].root = r, ![c].roots = @ \ {r},
                                 ![c].found = [f \in Folders |-> {p[3] : p \in FilesIn(r, f)}]]
    /\ UNCHANGED <<disk, row, book, request, job, changes, settled, split>>

Found(c, f) == scan[c].phase = "folders" /\ scan[c].found[f] # {}

\* The row of the folder is hidden: leave its files alone.
SkipHidden(c, f) ==
    /\ Found(c, f)
    /\ \E s \in RowsOf(f) : row[s].deleted
    /\ scan' = [scan EXCEPT ![c].found[f] = {}]
    /\ UNCHANGED <<disk, row, book, request, job, changes, settled, split>>

\* Mutant: merged_into is not asked for.
KnownRowUnmerged(c, f) ==
    /\ Found(c, f)
    /\ \A s \in RowsOf(f) : ~row[s].deleted
    /\ scan' = [scan EXCEPT ![c].phase = "apply", ![c].folder = f]
    /\ UNCHANGED <<disk, row, book, request, job, changes, settled, split>>

\* The folder's row, if any, read before and outside the transaction.
KnownRow(c, f) ==
    /\ Found(c, f)
    /\ \A s \in RowsOf(f) : ~row[s].deleted
    /\ scan' = [scan EXCEPT ![c].phase = "apply", ![c].folder = f,
                            ![c].merged = IF RowsOf(f) = {} THEN None ELSE row[CHOOSE s \in RowsOf(f) : TRUE].merged]
    /\ UNCHANGED <<disk, row, book, request, job, changes, settled, split>>

NewId == Min(Ids \ Rows)

\* The series the folder's files go to: the one the other root's copy went
\* to, else the survivor of a merge, else the folder's own row, minted by
\* the upsert when there is none.
SeriesFor(c) ==
    LET f == scan[c].folder IN
    IF scan[c].seen[f] # None THEN scan[c].seen[f]
    ELSE IF scan[c].merged # None THEN scan[c].merged
    ELSE IF RowsOf(f) # {} THEN CHOOSE s \in RowsOf(f) : TRUE
    ELSE NewId

\* One transaction: the series row, and every chapter of the walk's list,
\* whether or not the file is still there.
ApplyFolder(c) ==
    LET f == scan[c].folder
        s == SeriesFor(c)
    IN
    /\ scan[c].phase = "apply"
    /\ row' = IF s \in Rows THEN row ELSE [row EXCEPT ![s].folder = f]
    /\ book' = [p \in Paths |->
                  IF p \in {scan[c].root} \X {f} \X scan[c].found[f] THEN [book[p] EXCEPT !.series = s] ELSE book[p]]
    /\ scan' = [scan EXCEPT ![c].phase = "folders", ![c].folder = None, ![c].merged = None,
                            ![c].found[f] = {},
                            ![c].seen[f] = IF scan[c].merged # None THEN scan[c].merged ELSE s]
    /\ UNCHANGED <<disk, request, job, changes, settled, split>>

\* The rollups, which nothing here reads, and the return.
EndScan(c) ==
    /\ NoneLeft(c)
    /\ scan[c].roots = {}
    /\ scan' = [scan EXCEPT ![c] = NotScanning]
    /\ settled' = (settled \/ scan[c].fresh)
    /\ UNCHANGED <<disk, row, book, request, job, changes, split>>

Scan(c) ==
    \/ StartScan(c) \/ WalkRoot(c)
    \/ \E f \in Folders : SkipHidden(c, f) \/ KnownRow(c, f)
    \/ ApplyFolder(c) \/ EndScan(c)

-----------------------------------------------------------------------------
(* The admin *)

\* A change by the admin or a download: one fewer left to make.
Change ==
    /\ changes > 0
    /\ changes' = changes - 1
    /\ Disturb

\* The admin's requests follow one another.
AdminAsks == request.phase = "idle" /\ Change

\* DELETE /api/admin/series/:id, refused for a hidden or a merged row.
Hide(s) ==
    /\ AdminAsks
    /\ Visible(s)
    /\ row' = [row EXCEPT ![s].deleted = TRUE]
    /\ UNCHANGED <<disk, book, request, job, split>>

Restore(s) ==
    /\ AdminAsks
    /\ s \in Rows /\ row[s].deleted
    /\ row' = [row EXCEPT ![s].deleted = FALSE]
    /\ UNCHANGED <<disk, book, request, job, split>>

\* Mutant: the absorbed row does not point at its survivor.
MergeUnpointed(from, into) ==
    /\ AdminAsks
    /\ from # into
    /\ Visible(from) /\ Visible(into)
    /\ book' = [p \in Paths |->
                  [book[p] EXCEPT !.series = IF @ = from THEN into ELSE @, !.read = IF @ = from THEN into ELSE @]]
    /\ UNCHANGED <<disk, row, request, job, split>>

\* The books and everything filed under the absorbed series move; its row
\* stays and points at the survivor.  Neither may be hidden or merged away,
\* but either may be the survivor of an earlier merge.
Merge(from, into) ==
    /\ AdminAsks
    /\ from # into
    /\ Visible(from) /\ Visible(into)
    /\ row' = [row EXCEPT ![from].merged = into]
    /\ book' = [p \in Paths |->
                  [book[p] EXCEPT !.series = IF @ = from THEN into ELSE @, !.read = IF @ = from THEN into ELSE @]]
    /\ UNCHANGED <<disk, request, job, split>>

\* deleteSeriesFiles, of a hidden series whose books name a root.  The rows
\* stay.
DeleteFiles(s) ==
    /\ AdminAsks
    /\ s \in Rows /\ row[s].deleted
    /\ RootsOf(s) # {}
    /\ request' = [NoRequest EXCEPT !.phase = "deleting", !.series = s, !.from = row[s].folder, !.todo = RootsOf(s)]
    /\ UNCHANGED <<disk, row, book, job, split>>

\* The next root, and the books the series has there now.  Whatever could
\* not be removed from the last one stays: a failing rm is ignored.
DeleteInRoot(r) ==
    /\ request.phase = "deleting"
    /\ r \in request.todo
    /\ request' = [request EXCEPT !.todo = @ \ {r}, !.done = {r}, !.before = {p \in BooksOf(request.series) : p[1] = r}]
    /\ UNCHANGED <<disk, row, book, scan, job, changes, settled, split>>

\* One of those books, wherever it is, or a file of the series' own folder.
DeleteFile(p) ==
    /\ request.phase = "deleting"
    /\ p \in disk
    /\ p \in request.before \/ (p[1] \in request.done /\ FolderOf(p) = request.from)
    /\ disk' = disk \ {p}
    /\ Disturb
    /\ UNCHANGED <<row, book, request, job, changes, split>>

\* After the last root, or at the first folder that leads out of its root or
\* query that throws.
EndDelete ==
    /\ request.phase = "deleting"
    /\ request' = NoRequest
    /\ UNCHANGED <<disk, row, book, scan, job, changes, settled, split>>

Delete == (\E r \in Roots : DeleteInRoot(r)) \/ (\E p \in Paths : DeleteFile(p)) \/ EndDelete

\* renameSeriesFolder up to its first rename: a row whose books name a root,
\* to a name that is free on disk in each of those roots.  Nothing asks
\* whether the row is hidden or merged away.
AskRename(s, to) ==
    /\ AdminAsks
    /\ s \in Rows /\ to # row[s].folder
    /\ RootsOf(s) # {}
    /\ \A r \in RootsOf(s) : FilesIn(r, to) = {}
    /\ request' = [phase |-> "moving", series |-> s, from |-> row[s].folder, to |-> to,
                  roots |-> RootsOf(s), todo |-> RootsOf(s), done |-> {},
                  before |-> {p \in disk : FolderOf(p) = row[s].folder}]
    /\ UNCHANGED <<disk, row, book, job, split>>

\* rename(2) of a folder: it must be there, and nothing where it goes.
Moved(r, from, to) ==
    /\ FilesIn(r, from) # {} /\ FilesIn(r, to) = {}
    /\ disk' = (disk \ FilesIn(r, from)) \cup {<<r, to, p[3]>> : p \in FilesIn(r, from)}

MoveRoot(r) ==
    /\ request.phase = "moving"
    /\ r \in request.todo
    /\ Moved(r, request.from, request.to)
    /\ request' = [request EXCEPT !.todo = @ \ {r}, !.done = @ \cup {r},
                                !.phase = IF request.todo = {r} THEN "saving" ELSE "moving"]
    /\ Disturb
    /\ UNCHANGED <<row, book, job, changes, split>>

\* Mutant: a failed rename is reported without undoing the others.
MoveFailsAndStops(r) ==
    /\ request.phase = "moving"
    /\ r \in request.todo
    /\ request' = NoRequest
    /\ UNCHANGED <<disk, row, book, scan, job, changes, settled, split>>

\* A rename fails, for whatever reason: undo the ones that succeeded.
MoveFails(r) ==
    /\ request.phase = "moving"
    /\ r \in request.todo
    /\ request' = IF request.done = {} THEN NoRequest ELSE [request EXCEPT !.phase = "undoing"]
    /\ UNCHANGED <<disk, row, book, scan, job, changes, settled, split>>

UndoRoot(r) ==
    /\ request.phase = "undoing"
    /\ r \in request.done
    /\ Moved(r, request.to, request.from)
    /\ request' = IF request.done = {r} THEN NoRequest ELSE [request EXCEPT !.done = @ \ {r}]
    /\ Disturb
    /\ UNCHANGED <<row, book, job, changes, split>>

\* The answer says that the folders are now inconsistent.
UndoFails ==
    /\ request.phase = "undoing"
    /\ request' = NoRequest
    /\ UNCHANGED <<disk, row, book, scan, job, changes, settled, split>>

\* The books that a rename carries along: the series', under the old folder.
Moves(p) == p \in BooksOf(request.series) /\ FolderOf(p) = request.from
Renamed(p) == <<p[1], request.to, p[3]>>

\* Mutant: no unique index on (library_id, folder).
BookTaken == \E p \in Paths : Moves(p) /\ book[Renamed(p)].series # None

\* (library_id, folder) and (root, file) are unique.
NameTaken ==
    \/ \E s \in Rows \ {request.series} : row[s].folder = request.to
    \/ \E p \in Paths : Moves(p) /\ book[Renamed(p)].series # None

\* The series row and its books under the old folder, in one transaction.
SaveRename ==
    /\ request.phase = "saving"
    /\ ~NameTaken
    /\ row' = [row EXCEPT ![request.series].folder = request.to]
    /\ book' = [p \in Paths |->
                  IF \E q \in Paths : Moves(q) /\ Renamed(q) = p THEN book[<<p[1], request.from, p[3]>>]
                  ELSE IF Moves(p) THEN NoBook ELSE book[p]]
    /\ request' = NoRequest
    /\ split' = (split \/ (\E c \in Scanners : scan[c].phase # "idle") \/ row[request.series].merged # None)
    /\ Disturb
    /\ UNCHANGED <<disk, job, changes>>

\* The transaction fails, as it must when a unique index refuses it.  The
\* folders stay renamed.
SaveThrows ==
    /\ request.phase = "saving"
    /\ request' = NoRequest
    /\ UNCHANGED <<disk, row, book, scan, job, changes, settled, split>>

Rename ==
    \/ \E r \in Roots : MoveRoot(r) \/ MoveFails(r) \/ UndoRoot(r)
    \/ UndoFails \/ SaveRename \/ SaveThrows

-----------------------------------------------------------------------------
(* Downloads and the reader *)

\* updateSeries reads the row, and downloads into the folder it names.
StartUpdate(s) ==
    /\ job = None
    /\ Visible(s)
    /\ job' = row[s].folder
    /\ UNCHANGED <<disk, row, book, scan, request, changes, settled, split>>

\* addSeries: a hidden row is restored; any other is already in the library.
Add(f) ==
    /\ job = None
    /\ \A s \in RowsOf(f) : row[s].deleted
    /\ row' = [s \in Ids |-> IF s \in RowsOf(f) THEN [row[s] EXCEPT !.deleted = FALSE] ELSE row[s]]
    /\ job' = f
    /\ Change
    /\ UNCHANGED <<disk, book, request, split>>

\* The chapter lands in the folder, which is made if it is not there.
Land(ch) ==
    /\ job # None
    /\ <<DlRoot, job, ch>> \notin disk
    /\ disk' = disk \cup {<<DlRoot, job, ch>>}
    /\ job' = None
    /\ Change
    /\ UNCHANGED <<row, book, request, split>>

\* Nothing new, or a failure.
NothingLands ==
    /\ job # None
    /\ job' = None
    /\ UNCHANGED <<disk, row, book, scan, request, changes, settled, split>>

Download == (\E s \in Ids : StartUpdate(s)) \/ (\E f \in Folders : Add(f)) \/ (\E ch \in Chapters : Land(ch)) \/ NothingLands

\* PUT /api/books/:id/progress: the chapter is looked up, and answered 404
\* when its series is hidden or merged away.  Bound: each is read once.
OpenBook(p) ==
    /\ book[p].opened = None /\ book[p].read = None
    /\ Visible(book[p].series)
    /\ book' = [book EXCEPT ![p].opened = book[p].series]
    /\ UNCHANGED <<disk, row, scan, request, job, changes, settled, split>>

\* writeProgress: the row keeps the series it was first written with.
WriteProgress(p) ==
    /\ book[p].opened # None
    /\ book' = [book EXCEPT ![p].read = IF @ = None THEN book[p].opened ELSE @, ![p].opened = None]
    /\ UNCHANGED <<disk, row, scan, request, job, changes, settled, split>>

Admin ==
    \/ \E s \in Ids : Hide(s) \/ Restore(s) \/ DeleteFiles(s)
    \/ \E s, t \in Ids : Merge(s, t)
    \/ \E s \in Ids, f \in Folders : AskRename(s, f)
    \/ Delete

Next ==
    \/ \E c \in Scanners : Scan(c)
    \/ Admin \/ Rename \/ Download
    \/ \E p \in Reading : OpenBook(p)
    \/ \E p \in Paths : WriteProgress(p)

Spec == Init /\ [][Next]_vars

-----------------------------------------------------------------------------
(* Properties *)

\* A set of series that every merge out of it stays in.
Closed(S) == \A s \in S : row[s].merged \in S \cup {None}

\* s and the series it was merged into, directly or by way of others.
Survivors(s) == {t \in Ids : \A S \in SUBSET Ids : s \in S /\ Closed(S) => t \in S}

MergedInto(s) == IF row[s].merged = None THEN s ELSE row[s].merged

\* library.ts:440-475: after a scan that nothing disturbed, whatever other
\* scans ran alongside it, the files of a folder that is not hidden are all
\* books of one series, whichever root they are in: the folder's own, or if
\* that was merged away one that the merges lead to.  Not every one of those
\* is shown: the scan follows one step of a chain of merges.
ScanShelvesEverything ==
    settled => \A p \in disk :
        \E s \in RowsOf(FolderOf(p)) :
            \/ row[s].deleted
            \/ \E t \in Survivors(MergedInto(s)) :
                 \A q \in disk : FolderOf(q) = FolderOf(p) => book[q].series = t

\* libraryAdmin.ts:9-13: whatever scans, merges, hides, downloads, deletions
\* and renames do, a chapter that was read is in the series its progress is
\* filed under, or the two are merged together, directly or by way of
\* others.  It holds until a rename takes effect under a scan, whose list
\* then has the old name, or of a row that was merged away, whose books are
\* another's and keep the old name.
ReadStaysWithItsSeries ==
    ~split => \A p \in Paths :
        book[p].read # None =>
            book[p].series # None /\ Survivors(book[p].read) \cap Survivors(book[p].series) # {}

RenameOver == request.phase \in {"moving", "undoing", "saving"} /\ request'.phase = "idle"
\* The files that a rename knows of: those it found in the series' roots.
Renaming == {p \in request.before : p[1] \in request.roots}
Unmoved == Renaming \subseteq disk' /\ row' = row /\ book' = book
AllMoved == \A p \in Renaming : Renamed(p) \in disk'
Saved == row'[request.series].folder = request.to

\* libraryAdmin.ts:261-295: unless the answer says that the folders are
\* inconsistent, a rename that ends has moved the files of every root the
\* series' books are in and saved the new name, or has changed nothing,
\* whatever failed on the way; but when the transaction fails, the files
\* stay under a name that the database does not know.
RenamesKnownRootsOrNone ==
    [][RenameOver /\ ~UndoFails => Unmoved \/ (AllMoved /\ (Saved \/ SaveThrows))]_vars
=============================================================================
