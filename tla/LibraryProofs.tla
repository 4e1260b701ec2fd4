---------------------------- MODULE LibraryProofs ----------------------------
(***************************************************************************)
(* For any folders, roots and chapters, any number of scans at once and    *)
(* any changes: the rows stay one to a folder, an undisturbed scan shelves *)
(* every file, what was read stays with its series, and a rename that ends *)
(* has moved all it knew of or nothing.                                    *)
(***************************************************************************)
EXTENDS Library, FiniteSetTheorems, WellFoundedInduction, TLAPS

Known == {None} \cup Rows

\* A row has a folder of its own, and is merged into a row if at all.
RowsAreSound ==
    /\ row \in [Ids -> [folder : Folders \cup {None}, deleted : BOOLEAN, merged : {None} \cup Ids]]
    /\ \A s, t \in Rows : row[s].folder = row[t].folder => s = t
    /\ \A s \in Rows : row[s].folder # None
    /\ \A s \in Ids : row[s].merged \in Known

BooksAreSound == book \in [Paths -> [series : Known, opened : Known, read : Known]]

\* The ids a scan remembers are rows, and what it remembers fits its phase.
ScansAreSound ==
    /\ scan \in [Scanners -> Scans]
    /\ \A c \in Scanners :
        /\ scan[c].merged \in Known /\ \A f \in Folders : scan[c].seen[f] \in Known
        /\ scan[c].phase = "apply" => scan[c].folder \in Folders
        /\ scan[c].phase # "apply" => scan[c].merged = None
        /\ scan[c].phase = "walk" => scan[c].roots = Roots
        /\ scan[c].phase = "idle" => ~scan[c].fresh

\* A rename under way is one of a row, from a folder to another.
MidRename == request.phase \in {"moving", "undoing", "saving"}
RequestIsSound ==
    /\ request \in [phase : {"idle", "moving", "undoing", "saving", "deleting"}, series : Known,
                    from : Folders \cup {None}, to : Folders \cup {None},
                    roots : SUBSET Roots, todo : SUBSET Roots, done : SUBSET Roots, before : SUBSET Paths]
    /\ MidRename => /\ request.series \in Rows
                    /\ request.from \in Folders /\ request.to \in Folders /\ request.from # request.to

RestIsSound ==
    /\ disk \subseteq Paths /\ job \in Folders \cup {None}
    /\ changes \in 0 .. MaxChanges /\ settled \in BOOLEAN /\ split \in BOOLEAN

Sound == RowsAreSound /\ BooksAreSound /\ ScansAreSound /\ RequestIsSound /\ RestIsSound

\* Every file of a request's roots is where the renames that succeeded, and
\* the ones undone since, have put it.
RenameIsHalfWay ==
    MidRename =>
        /\ \A p \in request.before : FolderOf(p) = request.from
        /\ request.phase \in {"moving", "saving"} => request.roots = request.done \cup request.todo
        /\ request.phase = "saving" => request.todo = {}
        /\ request.done \cap request.todo = {}
        /\ \A p \in request.before : p[1] \in request.roots =>
              IF p[1] \in request.done THEN Renamed(p) \in disk ELSE p \in disk

\* The row has its old name until the end of a rename.
RenameIsOfRow == MidRename => row[request.series].folder = request.from

\* Where an undisturbed scan puts the files of the folder of row s.
Shelved(p) == \E s \in RowsOf(FolderOf(p)) : row[s].deleted \/ book[p].series = MergedInto(s)

\* Scans that overlap are all undisturbed or all disturbed, so that an
\* undisturbed one is overtaken by undisturbed ones only.
ScansAgree ==
    /\ \A c, d \in Scanners : scan[c].phase # "idle" /\ scan[d].phase # "idle" => scan[c].fresh = scan[d].fresh
    /\ settled => \A c \in Scanners : scan[c].phase # "idle" => scan[c].fresh

\* What an undisturbed scan remembers is still so ...
Remembers(c) ==
    /\ \A f \in Folders : scan[c].seen[f] # None => \E s \in RowsOf(f) : scan[c].seen[f] = MergedInto(s)
    /\ scan[c].phase = "apply" =>
          /\ \A s \in RowsOf(scan[c].folder) : row[s].merged = scan[c].merged
          /\ scan[c].merged # None => RowsOf(scan[c].folder) # {}

\* ... and every file is shelved or on its list.
ToCome(c, p) == p[1] \in scan[c].roots \/ (p[1] = scan[c].root /\ p[3] \in scan[c].found[FolderOf(p)])
FreshScans ==
    \A c \in Scanners : scan[c].fresh => Remembers(c) /\ \A p \in disk : ToCome(c, p) \/ Shelved(p)

SettledIsShelved == settled => \A p \in disk : Shelved(p)

\* While no rename split a series, all that a file's book or a scan knows of
\* one is the folder's own or one that was merged into, directly or not.
Kin(f) == UNION {Survivors(s) : s \in RowsOf(f)}
BookIsKin(p) ==
    /\ book[p].series \in {None} \cup Kin(FolderOf(p))
    /\ book[p].opened \in {None} \cup Kin(FolderOf(p))
    /\ book[p].read \in {None} \cup Kin(FolderOf(p))
    /\ book[p].opened # None \/ book[p].read # None => book[p].series # None
ScanIsKin(c) ==
    /\ scan[c].phase # "idle" => \A f \in Folders : scan[c].seen[f] \in {None} \cup Kin(f)
    /\ scan[c].phase = "apply" => scan[c].merged \in {None} \cup Kin(scan[c].folder)
AllIsKin == ~split => (\A p \in Paths : BookIsKin(p)) /\ (\A c \in Scanners : ScanIsKin(c))

IInv == Sound /\ RenameIsHalfWay /\ RenameIsOfRow /\ ScansAgree /\ FreshScans /\ SettledIsShelved /\ AllIsKin

-----------------------------------------------------------------------------
(* Ids and rows *)

LEMMA CountOfFolders == Cardinality(Folders) \in Nat /\ None \notin Ids /\ Ids \subseteq Nat
  BY FoldersAssumption, FS_CardinalityType DEF Ids, None

\* The least of a set of natural numbers is in it.
LEMMA MinInSet ==
    ASSUME NEW S \in SUBSET Nat, S # {}
    PROVE  Min(S) \in S
<1> DEFINE Less == {p \in Nat \X Nat : p[1] < p[2]}
<1>1. IsWellFoundedOn(Less, Nat)
  BY NatLessThanWellFounded DEF OpToRel
<1>2. PICK x \in S : \A y \in S : <<y, x>> \notin Less
  <2> HIDE DEF Less
  <2> QED BY <1>1, WFMin
<1>3. ASSUME NEW y \in S
      PROVE  x <= y
  <2>1. <<y, x>> \in Nat \X Nat /\ ~(y < x)
    BY <1>2
  <2> QED BY <2>1
<1> QED BY <1>3 DEF Min

\* While a folder has no row there is an id left for it.
LEMMA IdLeft ==
    ASSUME RowsAreSound, NEW f \in Folders, RowsOf(f) = {}
    PROVE  NewId \in Ids \ Rows
<1>1. Ids \ Rows # {}
  <2> SUFFICES ASSUME Ids \subseteq Rows PROVE FALSE
    OBVIOUS
  <2> DEFINE g == [s \in Ids |-> row[s].folder]
             Others == Folders \ {f}
  <2>1. g \in [Ids -> Others]
    <3>1. \A s \in Ids : row[s].folder \in Folders /\ row[s].folder # f
      BY DEF RowsAreSound, RowsOf
    <3> QED BY <3>1
  <2>2. IsFiniteSet(Ids) /\ Cardinality(Ids) = Cardinality(Folders)
    BY CountOfFolders, FS_Interval DEF Ids
  <2>3. IsFiniteSet(Others) /\ Cardinality(Others) = Cardinality(Folders) - 1
    BY FoldersAssumption, FS_RemoveElement
  <2>4. Cardinality(Others) < Cardinality(Ids)
    BY <2>2, <2>3, CountOfFolders
  <2> HIDE DEF g, Others
  <2>5. PICK s, t \in Ids : s # t /\ g[s] = g[t]
    BY <2>1, <2>2, <2>3, <2>4, FS_PigeonHole
  <2> QED BY <2>5 DEF g, RowsAreSound
<1> QED BY <1>1, MinInSet, CountOfFolders DEF NewId

\* The series of a scan's transaction is a row, or a new one for a folder
\* that has none.
LEMMA SeriesForFolder ==
    ASSUME Sound, NEW c \in Scanners, scan[c].phase = "apply"
    PROVE  /\ SeriesFor(c) \in Ids
           /\ SeriesFor(c) \in Rows \/ (SeriesFor(c) \notin Rows /\ RowsOf(scan[c].folder) = {}
                                        /\ scan[c].seen[scan[c].folder] = None /\ scan[c].merged = None)
<1> DEFINE f == scan[c].folder
<1>1. f \in Folders /\ scan[c].seen[f] \in Known /\ scan[c].merged \in Known
  BY DEF Sound, ScansAreSound
<1>2. RowsOf(f) = {} => NewId \in Ids \ Rows
  BY <1>1, IdLeft DEF Sound
<1>3. RowsOf(f) # {} => (CHOOSE s \in RowsOf(f) : TRUE) \in Rows
  BY DEF RowsOf
<1> QED BY <1>1, <1>2, <1>3 DEF SeriesFor, Known, Rows

-----------------------------------------------------------------------------
(* The rows *)

\* A change to flags and pointers of the rows there are.
LEMMA FlagsKeepRows ==
    ASSUME RowsAreSound, NEW new, row' = new,
           new \in [Ids -> [folder : Folders \cup {None}, deleted : BOOLEAN, merged : {None} \cup Ids]],
           \A s \in Ids : new[s].folder = row[s].folder,
           \A s \in Ids \ Rows : new[s] = row[s],
           \A s \in Rows : new[s].merged \in Known
    PROVE  RowsAreSound' /\ Rows' = Rows
<1>1. Rows' = Rows
  BY DEF Rows, NoRow, RowsAreSound
<1>2. \A s \in Ids : new[s].merged \in Known
  BY DEF RowsAreSound
<1>3. Rows \subseteq Ids /\ Known' = Known
  BY <1>1 DEF Rows, Known
<1>4. \A s \in Rows : row'[s].folder = row[s].folder
  BY <1>3
<1> QED BY <1>1, <1>2, <1>3, <1>4 DEF RowsAreSound

LEMMA RowStep ==
    ASSUME Sound, Next
    PROVE  RowsAreSound' /\ Rows \subseteq Rows'
<1> USE DEF Sound
<1>1. ASSUME NEW c \in Scanners, ApplyFolder(c)
      PROVE  RowsAreSound' /\ Rows \subseteq Rows'
  <2> DEFINE s == SeriesFor(c)
             f == scan[c].folder
  <2>1. s \in Ids /\ f \in Folders /\ (s \in Rows \/ (s \notin Rows /\ RowsOf(f) = {}))
    BY <1>1, SeriesForFolder DEF ApplyFolder, ScansAreSound
  <2>2. row' = IF s \in Rows THEN row ELSE [row EXCEPT ![s].folder = f]
    BY <1>1 DEF ApplyFolder
  <2> HIDE DEF s, f
  <2>3. CASE s \in Rows
    <3>1. row' = row
      BY <2>2, <2>3
    <3> QED BY <3>1 DEF RowsAreSound, Rows, Known
  <2>4. CASE s \notin Rows
    <3>1. row' = [row EXCEPT ![s].folder = f] /\ RowsOf(f) = {} /\ row[s] = NoRow
      BY <2>1, <2>2, <2>4 DEF Rows
    <3>2. row' \in [Ids -> [folder : Folders \cup {None}, deleted : BOOLEAN, merged : {None} \cup Ids]]
      BY <3>1, <2>1 DEF RowsAreSound
    <3>3. Rows' = Rows \cup {s}
      BY <3>1, <2>1, FoldersAssumption DEF Rows, NoRow, RowsAreSound
    <3>4. \A t \in Rows : row[t].folder # f
      BY <3>1 DEF RowsOf
    <3>5. \A t \in Ids : row'[t].merged = row[t].merged /\ (t # s => row'[t] = row[t])
      BY <3>1, <2>1 DEF RowsAreSound
    <3>6. row'[s].folder = f /\ f # None
      BY <3>1, <2>1, FoldersAssumption DEF RowsAreSound
    <3>7. Rows \subseteq Ids /\ Known \subseteq Known'
      BY <3>3 DEF Rows, Known
    <3>8. \A t, u \in Rows' : row'[t].folder = row'[u].folder => t = u
      BY <3>3, <3>4, <3>5, <3>6, <3>7 DEF RowsAreSound
    <3> QED BY <3>2, <3>3, <3>5, <3>6, <3>7, <3>8 DEF RowsAreSound
  <2> QED BY <2>3, <2>4
<1>2. ASSUME NEW s \in Ids, Hide(s) \/ Restore(s)
      PROVE  RowsAreSound' /\ Rows \subseteq Rows'
  <2>1. PICK b \in BOOLEAN : row' = [row EXCEPT ![s].deleted = b] /\ s \in Rows
    BY <1>2 DEF Hide, Restore, Visible
  <2> DEFINE new == [row EXCEPT ![s].deleted = b]
  <2>2. /\ new \in [Ids -> [folder : Folders \cup {None}, deleted : BOOLEAN, merged : {None} \cup Ids]]
        /\ \A t \in Ids : new[t].folder = row[t].folder /\ new[t].merged = row[t].merged
        /\ \A t \in Ids \ Rows : new[t] = row[t]
    BY <2>1 DEF RowsAreSound
  <2>3. \A t \in Rows : new[t].merged \in Known
    BY <2>2 DEF RowsAreSound, Rows
  <2> QED BY <2>1, <2>2, <2>3, FlagsKeepRows
<1>3. ASSUME NEW s \in Ids, NEW t \in Ids, Merge(s, t)
      PROVE  RowsAreSound' /\ Rows \subseteq Rows'
  <2>1. row' = [row EXCEPT ![s].merged = t] /\ s \in Rows /\ t \in Rows
    BY <1>3 DEF Merge, Visible
  <2> DEFINE new == [row EXCEPT ![s].merged = t]
  <2>2. /\ new \in [Ids -> [folder : Folders \cup {None}, deleted : BOOLEAN, merged : {None} \cup Ids]]
        /\ \A u \in Ids : new[u].folder = row[u].folder /\ (u # s => new[u] = row[u])
        /\ new[s].merged = t
    BY <2>1 DEF RowsAreSound
  <2>3. \A u \in Rows : new[u].merged \in Known
    BY <2>1, <2>2 DEF RowsAreSound, Rows, Known
  <2>4. \A u \in Ids \ Rows : new[u] = row[u]
    BY <2>1, <2>2
  <2>5. row' = new
    BY <2>1
  <2> HIDE DEF new
  <2> QED BY <2>2, <2>3, <2>4, <2>5, FlagsKeepRows
<1>4. ASSUME NEW f \in Folders, Add(f)
      PROVE  RowsAreSound' /\ Rows \subseteq Rows'
  <2>1. row' = [s \in Ids |-> IF s \in RowsOf(f) THEN [row[s] EXCEPT !.deleted = FALSE] ELSE row[s]]
    BY <1>4 DEF Add
  <2> DEFINE new == [s \in Ids |-> IF s \in RowsOf(f) THEN [row[s] EXCEPT !.deleted = FALSE] ELSE row[s]]
  <2>2. /\ new \in [Ids -> [folder : Folders \cup {None}, deleted : BOOLEAN, merged : {None} \cup Ids]]
        /\ \A t \in Ids : new[t].folder = row[t].folder /\ new[t].merged = row[t].merged
        /\ \A t \in Ids \ Rows : new[t] = row[t]
    BY DEF RowsAreSound, RowsOf
  <2>3. \A t \in Rows : new[t].merged \in Known
    BY <2>2 DEF RowsAreSound, Rows
  <2> QED BY <2>1, <2>2, <2>3, FlagsKeepRows
<1>5. ASSUME SaveRename
      PROVE  RowsAreSound' /\ Rows \subseteq Rows'
  <2> DEFINE s == request.series
             f == request.to
  <2>1. s \in Rows /\ s \in Ids /\ f \in Folders /\ \A t \in Rows \ {s} : row[t].folder # f
    BY <1>5 DEF SaveRename, NameTaken, RequestIsSound, MidRename, Rows
  <2>2. row' = [row EXCEPT ![s].folder = f]
    BY <1>5 DEF SaveRename
  <2> HIDE DEF s, f
  <2>3. row' \in [Ids -> [folder : Folders \cup {None}, deleted : BOOLEAN, merged : {None} \cup Ids]]
    BY <2>1, <2>2 DEF RowsAreSound
  <2>4. Rows' = Rows
    BY <2>1, <2>2, FoldersAssumption DEF Rows, NoRow, RowsAreSound
  <2>5. \A t \in Ids : row'[t].merged = row[t].merged /\ (t # s => row'[t] = row[t])
    BY <2>1, <2>2 DEF RowsAreSound
  <2>6. row'[s].folder = f /\ f # None
    BY <2>1, <2>2, FoldersAssumption DEF RowsAreSound
  <2>7. Rows \subseteq Ids /\ Known' = Known
    BY <2>4 DEF Rows, Known
  <2>8. \A t, u \in Rows' : row'[t].folder = row'[u].folder => t = u
    BY <2>1, <2>4, <2>5, <2>6, <2>7 DEF RowsAreSound
  <2> QED BY <2>3, <2>4, <2>5, <2>6, <2>7, <2>8 DEF RowsAreSound
<1>6. CASE UNCHANGED row
  BY <1>6 DEF RowsAreSound, Rows, Known
<1> QED BY <1>1, <1>2, <1>3, <1>4, <1>5, <1>6
        DEF Next, Scan, StartScan, WalkRoot, SkipHidden, KnownRow, EndScan, Admin, DeleteFiles, Delete,
            DeleteInRoot, DeleteFile, EndDelete, AskRename, Rename, MoveRoot, MoveFails, UndoRoot, UndoFails,
            SaveThrows, Download, StartUpdate, Land, NothingLands, OpenBook, WriteProgress

-----------------------------------------------------------------------------
(* The books, the scans, the rename and the rest *)

\* In every step but these three kinds the rows and books that the locals
\* name are only left alone or added to.
LEMMA KnownGrows == ASSUME Rows \subseteq Rows' PROVE Known \subseteq Known'
  BY DEF Known

LEMMA BookStep ==
    ASSUME Sound, Next, Rows \subseteq Rows'
    PROVE  BooksAreSound'
<1> USE DEF Sound
<1>1. Known \subseteq Known'
  BY KnownGrows
<1>2. ASSUME NEW c \in Scanners, ApplyFolder(c)
      PROVE  BooksAreSound'
  <2> DEFINE s == SeriesFor(c)
  <2>1. s \in Known'
    <3>1. s \in Ids /\ row' = IF s \in Rows THEN row ELSE [row EXCEPT ![s].folder = scan[c].folder]
      BY <1>2, SeriesForFolder DEF ApplyFolder
    <3>2. scan[c].folder \in Folders
      BY <1>2 DEF ApplyFolder, ScansAreSound
    <3> HIDE DEF s
    <3>3. s \in Rows'
      BY <3>1, <3>2, FoldersAssumption DEF Rows, NoRow, RowsAreSound
    <3> QED BY <3>3 DEF Known
  <2>2. book' = [p \in Paths |-> IF p \in {scan[c].root} \X {scan[c].folder} \X scan[c].found[scan[c].folder]
                                 THEN [book[p] EXCEPT !.series = s] ELSE book[p]]
    BY <1>2 DEF ApplyFolder
  <2> HIDE DEF s
  <2> QED BY <1>1, <2>1, <2>2 DEF BooksAreSound
<1>3. ASSUME NEW s \in Ids, NEW t \in Ids, Merge(s, t)
      PROVE  BooksAreSound'
  <2>1. t \in Known
    BY <1>3 DEF Merge, Visible, Known
  <2>2. book' = [p \in Paths |->
                  [book[p] EXCEPT !.series = IF @ = s THEN t ELSE @, !.read = IF @ = s THEN t ELSE @]]
    BY <1>3 DEF Merge
  <2> QED BY <1>1, <2>1, <2>2 DEF BooksAreSound
<1>4. ASSUME SaveRename
      PROVE  BooksAreSound'
  <2>1. \A p \in Paths : <<p[1], request.from, p[3]>> \in Paths
    BY <1>4 DEF SaveRename, RequestIsSound, MidRename, Paths
  <2>2. NoBook \in [series : Known', opened : Known', read : Known']
    BY DEF NoBook, Known
  <2>3. \A p \in Paths : book[p] \in [series : Known', opened : Known', read : Known']
    BY <1>1 DEF BooksAreSound
  <2> QED BY <1>4, <2>1, <2>2, <2>3 DEF SaveRename, BooksAreSound
<1>5. ASSUME NEW p \in Reading, OpenBook(p)
      PROVE  BooksAreSound'
  <2>1. book' = [book EXCEPT ![p].opened = book[p].series] /\ p \in Paths
    BY <1>5, FilesAssumption DEF OpenBook, Paths
  <2> QED BY <1>1, <2>1 DEF BooksAreSound
<1>6. ASSUME NEW p \in Paths, WriteProgress(p)
      PROVE  BooksAreSound'
  <2>1. book' = [book EXCEPT ![p].read = IF @ = None THEN book[p].opened ELSE @, ![p].opened = None]
    BY <1>6 DEF WriteProgress
  <2>2. None \in Known'
    BY DEF Known
  <2> QED BY <1>1, <2>1, <2>2 DEF BooksAreSound
<1>7. CASE UNCHANGED book
  BY <1>1, <1>7 DEF BooksAreSound
<1> QED BY <1>2, <1>3, <1>4, <1>5, <1>6, <1>7
        DEF Next, Scan, StartScan, WalkRoot, SkipHidden, KnownRow, EndScan, Admin, Hide, Restore, DeleteFiles,
            Delete, DeleteInRoot, DeleteFile, EndDelete, AskRename, Rename, MoveRoot, MoveFails, UndoRoot,
            UndoFails, SaveThrows, Download, StartUpdate, Add, Land, NothingLands

LEMMA NotScanningIsSound == NotScanning \in Scans
  BY RootsAssumption DEF NotScanning, Scans

\* A disturbance takes the freshness of every scan and nothing else.
LEMMA DisturbScans ==
    ASSUME ScansAreSound, Disturb
    PROVE  /\ scan' \in [Scanners -> Scans]
           /\ \A c \in Scanners : ~scan'[c].fresh
           /\ \A c \in Scanners : /\ scan'[c].phase = scan[c].phase /\ scan'[c].roots = scan[c].roots
                                  /\ scan'[c].root = scan[c].root /\ scan'[c].found = scan[c].found
                                  /\ scan'[c].seen = scan[c].seen /\ scan'[c].folder = scan[c].folder
                                  /\ scan'[c].merged = scan[c].merged
  BY DEF Disturb, ScansAreSound, Scans

\* A scan whose new locals are sound.
LEMMA ScanChange ==
    ASSUME Sound, Rows \subseteq Rows', NEW c \in Scanners, NEW new \in Scans,
           scan' = [scan EXCEPT ![c] = new],
           new.merged \in Known', \A f \in Folders : new.seen[f] \in Known',
           new.phase = "apply" => new.folder \in Folders,
           new.phase # "apply" => new.merged = None,
           new.phase = "walk" => new.roots = Roots,
           new.phase = "idle" => ~new.fresh
    PROVE  ScansAreSound'
<1>1. Known \subseteq Known'
  BY KnownGrows
<1>2. \A d \in Scanners : scan'[d] = IF d = c THEN new ELSE scan[d]
  BY DEF Sound, ScansAreSound
<1> QED BY <1>1, <1>2 DEF Sound, ScansAreSound

LEMMA ScanStep ==
    ASSUME Sound, Next, Rows \subseteq Rows'
    PROVE  ScansAreSound'
<1>1. Known \subseteq Known' /\ None \in Known'
  BY KnownGrows DEF Known
<1>2. ASSUME NEW c \in Scanners, StartScan(c)
      PROVE  ScansAreSound'
  <2> DEFINE b == \A d \in Scanners : scan[d].phase # "idle" => scan[d].fresh
             new == [NotScanning EXCEPT !.phase = "walk", !.roots = Roots, !.fresh = b]
  <2>1. scan' = [scan EXCEPT ![c] = new]
    BY <1>2 DEF StartScan
  <2>2. b \in BOOLEAN
    OBVIOUS
  <2> HIDE DEF b
  <2>3. /\ new \in Scans /\ new.phase = "walk" /\ new.roots = Roots /\ new.merged = None
        /\ \A f \in Folders : new.seen[f] = None
    BY <2>2, NotScanningIsSound DEF NotScanning, Scans
  <2> HIDE DEF new
  <2> QED BY <1>1, <2>1, <2>3, ScanChange
<1>9. ASSUME NEW c \in Scanners, EndScan(c)
      PROVE  ScansAreSound'
  <2>1. /\ NotScanning.phase = "idle" /\ NotScanning.merged = None /\ ~NotScanning.fresh
        /\ \A f \in Folders : NotScanning.seen[f] = None
    BY DEF NotScanning
  <2> QED BY <1>1, <1>9, <2>1, NotScanningIsSound, ScanChange DEF EndScan
<1>3. ASSUME NEW c \in Scanners, WalkRoot(c)
      PROVE  ScansAreSound'
  <2>1. PICK r \in scan[c].roots :
           scan' = [scan EXCEPT ![c].phase = "folders", ![c].root = r, ![c].roots = @ \ {r},
                                ![c].found = [f \in Folders |-> {p[3] : p \in FilesIn(r, f)}]]
    BY <1>3 DEF WalkRoot
  <2> DEFINE here == [f \in Folders |-> {p[3] : p \in FilesIn(r, f)}]
             new == [scan[c] EXCEPT !.phase = "folders", !.root = r, !.roots = @ \ {r}, !.found = here]
  <2>2. here \in [Folders -> SUBSET Chapters]
    BY DEF FilesIn, Sound, RestIsSound, Paths
  <2>3. scan' = [scan EXCEPT ![c] = new]
    BY <2>1
  <2>4. r \in Roots /\ scan[c] \in Scans /\ scan[c].merged = None /\ \A f \in Folders : scan[c].seen[f] \in Known
    BY <1>3 DEF Sound, ScansAreSound, Scans, WalkRoot, NoneLeft
  <2> HIDE DEF here
  <2>5. /\ new \in Scans /\ new.phase = "folders" /\ new.merged = None /\ new.seen = scan[c].seen
    BY <2>2, <2>4 DEF Scans
  <2> HIDE DEF new
  <2> QED BY <1>1, <2>3, <2>4, <2>5, ScanChange
<1>4. ASSUME NEW c \in Scanners, NEW f \in Folders, SkipHidden(c, f)
      PROVE  ScansAreSound'
  <2> DEFINE new == [scan[c] EXCEPT !.found = [@ EXCEPT ![f] = {}]]
  <2>1. /\ scan[c] \in Scans /\ scan[c].phase = "folders" /\ scan[c].merged = None
        /\ \A g \in Folders : scan[c].seen[g] \in Known
    BY <1>4 DEF SkipHidden, Found, Sound, ScansAreSound
  <2>2. scan' = [scan EXCEPT ![c] = new]
    BY <1>4 DEF SkipHidden
  <2>3. new \in Scans /\ new.phase = "folders" /\ new.merged = None /\ new.seen = scan[c].seen
    BY <2>1 DEF Scans
  <2> HIDE DEF new
  <2> QED BY <1>1, <2>1, <2>2, <2>3, ScanChange
<1>5. ASSUME NEW c \in Scanners, NEW f \in Folders, KnownRow(c, f)
      PROVE  ScansAreSound'
  <2> DEFINE m == IF RowsOf(f) = {} THEN None ELSE row[CHOOSE s \in RowsOf(f) : TRUE].merged
             new == [scan[c] EXCEPT !.phase = "apply", !.folder = f, !.merged = m]
  <2>1. m \in Known /\ m \in {None} \cup Ids
    BY DEF RowsOf, Rows, Sound, RowsAreSound, Known
  <2>2. scan' = [scan EXCEPT ![c] = new]
    BY <1>5 DEF KnownRow
  <2>3. scan[c] \in Scans /\ \A g \in Folders : scan[c].seen[g] \in Known
    BY DEF Sound, ScansAreSound
  <2> HIDE DEF m
  <2>4. new \in Scans /\ new.phase = "apply" /\ new.folder = f /\ new.merged = m /\ new.seen = scan[c].seen
    BY <2>1, <2>3 DEF Scans
  <2> HIDE DEF new
  <2> QED BY <1>1, <2>1, <2>2, <2>3, <2>4, ScanChange
<1>6. ASSUME NEW c \in Scanners, ApplyFolder(c)
      PROVE  ScansAreSound'
  <2> DEFINE f == scan[c].folder
             s == IF scan[c].merged # None THEN scan[c].merged ELSE SeriesFor(c)
             new == [scan[c] EXCEPT !.phase = "folders", !.folder = None, !.merged = None,
                                    !.found = [@ EXCEPT ![f] = {}], !.seen = [@ EXCEPT ![f] = s]]
  <2>1. f \in Folders /\ s \in Ids /\ scan[c].phase = "apply" /\ scan[c] \in Scans
    BY <1>6, SeriesForFolder DEF ApplyFolder, Sound, ScansAreSound, Known, Rows
  <2>2. s \in Known'
    <3>1. CASE scan[c].merged # None
      BY <3>1, <1>1 DEF Sound, ScansAreSound
    <3>2. CASE scan[c].merged = None
      <4>1. s \in Ids /\ row' = IF s \in Rows THEN row ELSE [row EXCEPT ![s].folder = f]
        BY <1>6, <3>2, <2>1 DEF ApplyFolder
      <4> HIDE DEF s, f
      <4> QED BY <4>1, <2>1, FoldersAssumption DEF Rows, NoRow, Sound, RowsAreSound, Known
    <3> QED BY <3>1, <3>2
  <2>3. scan' = [scan EXCEPT ![c] = new]
    <3>1. scan' = [scan EXCEPT ![c].phase = "folders", ![c].folder = None, ![c].merged = None,
                               ![c].found[f] = {}, ![c].seen[f] = s]
      BY <1>6 DEF ApplyFolder
    <3> HIDE DEF s, f
    <3> QED BY <3>1
  <2>4. \A g \in Folders : scan[c].seen[g] \in Known
    BY DEF Sound, ScansAreSound
  <2> HIDE DEF s, f
  <2>5. /\ new \in Scans /\ new.phase = "folders" /\ new.merged = None
        /\ \A g \in Folders : new.seen[g] = IF g = f THEN s ELSE scan[c].seen[g]
    BY <2>1 DEF Scans
  <2> HIDE DEF new
  <2> QED BY <1>1, <2>1, <2>2, <2>3, <2>4, <2>5, ScanChange
<1>7. CASE Disturb
  BY <1>1, <1>7, DisturbScans DEF Sound, ScansAreSound
<1>8. CASE UNCHANGED scan
  BY <1>1, <1>8 DEF Sound, ScansAreSound
<1> QED BY <1>2, <1>3, <1>4, <1>5, <1>6, <1>7, <1>8, <1>9
        DEF Next, Scan, Admin, AdminAsks, Change, Hide, Restore, Merge, DeleteFiles, Delete, DeleteInRoot,
            DeleteFile, EndDelete, AskRename, Rename, MoveRoot,
            MoveFails, UndoRoot, UndoFails, SaveRename, SaveThrows, Download, StartUpdate, Add, Land, NothingLands,
            OpenBook, WriteProgress

LEMMA RequestStep ==
    ASSUME Sound, Next, Rows \subseteq Rows'
    PROVE  RequestIsSound'
<1> USE DEF Sound
<1>1. Known \subseteq Known' /\ None \in Known'
  BY KnownGrows DEF Known
<1>2. request' = NoRequest => RequestIsSound'
  BY <1>1 DEF NoRequest, RequestIsSound, MidRename
<1>3. ASSUME NEW s \in Ids, NEW f \in Folders, AskRename(s, f)
      PROVE  RequestIsSound'
  <2>1. s \in Rows /\ s \in Rows' /\ row[s].folder \in Folders /\ row[s].folder # f
    BY <1>3 DEF AskRename, RowsAreSound, Rows
  <2>2. RootsOf(s) \subseteq Roots /\ {p \in disk : FolderOf(p) = row[s].folder} \subseteq Paths
    BY DEF RootsOf, BooksOf, Paths, RestIsSound
  <2>3. request' = [phase |-> "moving", series |-> s, from |-> row[s].folder, to |-> f,
                   roots |-> RootsOf(s), todo |-> RootsOf(s), done |-> {},
                   before |-> {p \in disk : FolderOf(p) = row[s].folder}]
    BY <1>3 DEF AskRename
  <2> QED BY <2>1, <2>2, <2>3 DEF RequestIsSound, MidRename, Known
<1>4. ASSUME NEW r \in Roots, MoveRoot(r) \/ MoveFails(r) \/ UndoRoot(r)
      PROVE  RequestIsSound'
  <2>1. CASE request' = NoRequest
    BY <1>2, <2>1
  <2>2. CASE MoveRoot(r)
    BY <1>1, <2>2 DEF MoveRoot, RequestIsSound, MidRename
  <2>3. CASE MoveFails(r) /\ request' # NoRequest
    BY <1>1, <2>3 DEF MoveFails, RequestIsSound, MidRename
  <2>4. CASE UndoRoot(r) /\ request' # NoRequest
    BY <1>1, <2>4 DEF UndoRoot, RequestIsSound, MidRename
  <2> QED BY <1>4, <2>1, <2>2, <2>3, <2>4
<1>5. CASE UndoFails \/ SaveRename \/ SaveThrows
  BY <1>2, <1>5 DEF UndoFails, SaveRename, SaveThrows
<1>6. CASE UNCHANGED request
  BY <1>1, <1>6 DEF RequestIsSound, MidRename
<1>7. ASSUME NEW s \in Ids, DeleteFiles(s)
      PROVE  RequestIsSound'
  <2>1. s \in Rows' /\ row[s].folder \in Folders \cup {None} /\ RootsOf(s) \subseteq Roots
    BY <1>7 DEF DeleteFiles, RowsAreSound, Rows, RootsOf, BooksOf, Paths
  <2>2. request' = [NoRequest EXCEPT !.phase = "deleting", !.series = s, !.from = row[s].folder, !.todo = RootsOf(s)]
    BY <1>7 DEF DeleteFiles
  <2>3. /\ request' \in [phase : {"deleting"}, series : Known',
                          from : Folders \cup {None}, to : Folders \cup {None},
                          roots : SUBSET Roots, todo : SUBSET Roots, done : SUBSET Roots, before : SUBSET Paths]
    BY <2>1, <2>2 DEF NoRequest, Known
  <2> QED BY <2>3 DEF RequestIsSound, MidRename
<1>8. ASSUME NEW r \in Roots, DeleteInRoot(r)
      PROVE  RequestIsSound'
  <2>1. /\ request.phase = "deleting"
        /\ request' = [request EXCEPT !.todo = @ \ {r}, !.done = {r},
                                      !.before = {p \in BooksOf(request.series) : p[1] = r}]
    BY <1>8 DEF DeleteInRoot
  <2>2. {p \in BooksOf(request.series) : p[1] = r} \subseteq Paths
    BY DEF BooksOf
  <2> QED BY <1>1, <2>1, <2>2 DEF RequestIsSound, MidRename
<1>9. CASE EndDelete
  BY <1>2, <1>9 DEF EndDelete
<1>10. ASSUME NEW p \in Paths, DeleteFile(p)
       PROVE  RequestIsSound'
  BY <1>6, <1>10 DEF DeleteFile
<1> QED BY <1>3, <1>4, <1>5, <1>6, <1>7, <1>8, <1>9, <1>10
        DEF Next, Scan, StartScan, WalkRoot, SkipHidden, KnownRow, ApplyFolder, EndScan, Admin, Hide, Restore, Merge,
            Delete, Rename, Download, StartUpdate, Add, Land, NothingLands, OpenBook, WriteProgress

LEMMA RestStep ==
    ASSUME Sound, Next
    PROVE  RestIsSound'
<1> USE DEF Sound
<1>1. changes' \in 0 .. MaxChanges
  <2>1. changes' = changes \/ (changes > 0 /\ changes' = changes - 1)
    BY DEF Next, Scan, StartScan, WalkRoot, SkipHidden, KnownRow, ApplyFolder, EndScan, Admin, AdminAsks, Change,
        Hide, Restore, Merge, DeleteFiles, Delete, DeleteInRoot, DeleteFile, EndDelete, AskRename, Rename, MoveRoot,
        MoveFails, UndoRoot, UndoFails, SaveRename, SaveThrows, Download, StartUpdate, Add, Land, NothingLands,
        OpenBook, WriteProgress
  <2> QED BY <2>1, BoundAssumption DEF RestIsSound
<1>2. settled' \in BOOLEAN /\ split' \in BOOLEAN
  <2>1. \A c \in Scanners : scan[c].fresh \in BOOLEAN
    BY DEF ScansAreSound, Scans
  <2> QED BY <2>1
     DEF Next, Scan, StartScan, WalkRoot, SkipHidden, KnownRow, ApplyFolder, EndScan, Admin, AdminAsks, Change,
         Disturb, Hide, Restore, Merge, DeleteFiles, Delete, DeleteInRoot, DeleteFile, EndDelete, AskRename, Rename,
         MoveRoot, MoveFails, UndoRoot, UndoFails, SaveRename, SaveThrows, Download, StartUpdate, Add, Land,
         NothingLands, OpenBook, WriteProgress, RestIsSound
<1>3. job' \in Folders \cup {None}
  <2>1. ASSUME NEW s \in Ids, StartUpdate(s) PROVE job' \in Folders \cup {None}
    BY <2>1 DEF StartUpdate, RowsAreSound
  <2>2. ASSUME NEW f \in Folders, Add(f) PROVE job' \in Folders \cup {None}
    BY <2>2 DEF Add
  <2>3. CASE job' = None \/ UNCHANGED job
    BY <2>3 DEF RestIsSound
  <2> QED BY <2>1, <2>2, <2>3
     DEF Next, Scan, StartScan, WalkRoot, SkipHidden, KnownRow, ApplyFolder, EndScan, Admin, Hide, Restore, Merge,
         DeleteFiles, Delete, DeleteInRoot, DeleteFile, EndDelete, AskRename, Rename, MoveRoot, MoveFails, UndoRoot,
         UndoFails, SaveRename, SaveThrows, Download, Land, NothingLands, OpenBook, WriteProgress
<1>4. disk' \subseteq Paths
  <2>1. ASSUME NEW r \in Roots, MoveRoot(r) \/ UndoRoot(r)
        PROVE  disk' \subseteq Paths
    <3>1. PICK from, to \in Folders : disk' = (disk \ FilesIn(r, from)) \cup {<<r, to, p[3]>> : p \in FilesIn(r, from)}
      BY <2>1 DEF MoveRoot, UndoRoot, Moved, RequestIsSound, MidRename
    <3>2. \A p \in FilesIn(r, from) : <<r, to, p[3]>> \in Paths
      BY DEF FilesIn, RestIsSound, Paths
    <3> QED BY <3>1, <3>2 DEF RestIsSound
  <2>2. ASSUME NEW ch \in Chapters, Land(ch)
        PROVE  disk' \subseteq Paths
    BY <2>2, RootsAssumption DEF Land, RestIsSound, Paths
  <2>3. CASE disk' \subseteq disk
    BY <2>3 DEF RestIsSound
  <2> QED BY <2>1, <2>2, <2>3
     DEF Next, Scan, StartScan, WalkRoot, SkipHidden, KnownRow, ApplyFolder, EndScan, Admin, Hide, Restore, Merge,
         DeleteFiles, Delete, DeleteInRoot, DeleteFile, EndDelete, AskRename, Rename, MoveFails, UndoFails,
         SaveRename, SaveThrows, Download, StartUpdate, Add, NothingLands, OpenBook, WriteProgress
<1> QED BY <1>1, <1>2, <1>3, <1>4 DEF RestIsSound

LEMMA SoundStep ==
    ASSUME Sound, Next
    PROVE  Sound' /\ Rows \subseteq Rows'
  BY RowStep, BookStep, ScanStep, RequestStep, RestStep DEF Sound

LEMMA SoundInit == Init => Sound
<1> SUFFICES ASSUME Init PROVE Sound
  OBVIOUS
<1>1. Rows = {}
  BY DEF Init, Rows
<1>2. RowsAreSound
  BY <1>1 DEF Init, NoRow, RowsAreSound, Known
<1>3. BooksAreSound
  BY DEF Init, NoBook, BooksAreSound, Known
<1>4. ScansAreSound
  BY NotScanningIsSound DEF Init, NotScanning, ScansAreSound, Known
<1>5. RequestIsSound
  BY DEF Init, NoRequest, RequestIsSound, MidRename, Known
<1>6. RestIsSound
  <2>1. disk \subseteq Paths
    BY FilesAssumption DEF Init, Paths
  <2>2. changes \in 0 .. MaxChanges
    BY BoundAssumption DEF Init
  <2> QED BY <2>1, <2>2 DEF Init, RestIsSound
<1> QED BY <1>2, <1>3, <1>4, <1>5, <1>6 DEF Sound

-----------------------------------------------------------------------------
(* A rename, root by root *)

LEMMA HalfWayStep ==
    ASSUME Sound, RenameIsHalfWay, Next
    PROVE  RenameIsHalfWay'
<1> USE DEF Sound
<1>1. request' = NoRequest => RenameIsHalfWay'
  BY DEF NoRequest, RenameIsHalfWay, MidRename
<1>2. ASSUME request' = request, disk \subseteq disk' \/ ~MidRename
      PROVE  RenameIsHalfWay'
  BY <1>2 DEF RenameIsHalfWay, MidRename, Renamed
<1>3. ASSUME NEW s \in Ids, NEW f \in Folders, AskRename(s, f)
      PROVE  RenameIsHalfWay'
  <2>1. /\ request'.phase = "moving" /\ request'.from = row[s].folder
        /\ request'.roots = RootsOf(s) /\ request'.todo = RootsOf(s) /\ request'.done = {}
        /\ request'.before = {p \in disk : FolderOf(p) = row[s].folder}
        /\ disk' = disk
    BY <1>3 DEF AskRename
  <2> QED BY <2>1 DEF RenameIsHalfWay, MidRename
<1>4. ASSUME NEW r \in Roots, MoveRoot(r)
      PROVE  RenameIsHalfWay'
  <2>1. /\ request.phase = "moving" /\ r \in request.todo
        /\ disk' = (disk \ FilesIn(r, request.from)) \cup {<<r, request.to, p[3]>> : p \in FilesIn(r, request.from)}
    BY <1>4 DEF MoveRoot, Moved
  <2>2. request' = [request EXCEPT !.todo = @ \ {r}, !.done = @ \cup {r},
                                 !.phase = IF request.todo = {r} THEN "saving" ELSE "moving"]
    BY <1>4 DEF MoveRoot
  <2>3. /\ request'.phase = (IF request.todo = {r} THEN "saving" ELSE "moving")
        /\ request'.todo = request.todo \ {r} /\ request'.done = request.done \cup {r}
        /\ request'.from = request.from /\ request'.to = request.to
        /\ request'.roots = request.roots /\ request'.before = request.before
    BY <2>2 DEF RequestIsSound
  <2>4. ASSUME NEW p \in request.before, p[1] \in request.roots
        PROVE  IF p[1] \in request.done \cup {r} THEN Renamed(p) \in disk' ELSE p \in disk'
    <3>1. p \in Paths /\ FolderOf(p) = request.from /\ request.from # request.to
      BY <2>1 DEF RenameIsHalfWay, MidRename, RequestIsSound
    <3>2. CASE p[1] = r
      <4>1. p \in disk
        BY <2>1, <2>4, <3>2 DEF RenameIsHalfWay, MidRename
      <4>2. p \in FilesIn(r, request.from)
        BY <3>1, <3>2, <4>1 DEF FilesIn, FolderOf
      <4> QED BY <2>1, <3>2, <4>2 DEF Renamed
    <3>3. CASE p[1] # r /\ p[1] \in request.done
      <4>1. Renamed(p) \in disk
        BY <2>1, <2>4, <3>3 DEF RenameIsHalfWay, MidRename
      <4>2. Renamed(p) \notin FilesIn(r, request.from)
        BY <3>3 DEF FilesIn, Renamed
      <4> QED BY <2>1, <3>3, <4>1, <4>2
    <3>4. CASE p[1] # r /\ p[1] \notin request.done
      <4>1. p \in disk /\ p \notin FilesIn(r, request.from)
        BY <2>1, <2>4, <3>4 DEF RenameIsHalfWay, MidRename, FilesIn
      <4> QED BY <2>1, <3>4, <4>1
    <3> QED BY <3>2, <3>3, <3>4
  <2>5. \A p : Renamed(p)' = Renamed(p)
    BY <2>3 DEF Renamed
  <2> QED BY <2>1, <2>3, <2>4, <2>5 DEF RenameIsHalfWay, MidRename
<1>5. ASSUME NEW r \in Roots, MoveFails(r), request' # NoRequest
      PROVE  RenameIsHalfWay'
  <2>1. /\ request.phase = "moving" /\ request' = [request EXCEPT !.phase = "undoing"] /\ disk' = disk
    BY <1>5 DEF MoveFails
  <2>2. /\ request'.phase = "undoing" /\ request'.todo = request.todo /\ request'.done = request.done
        /\ request'.from = request.from /\ request'.to = request.to
        /\ request'.roots = request.roots /\ request'.before = request.before
    BY <2>1 DEF RequestIsSound
  <2> QED BY <2>1, <2>2 DEF RenameIsHalfWay, MidRename, Renamed
<1>6. ASSUME NEW r \in Roots, UndoRoot(r), request' # NoRequest
      PROVE  RenameIsHalfWay'
  <2>1. /\ request.phase = "undoing" /\ r \in request.done /\ request' = [request EXCEPT !.done = @ \ {r}]
        /\ disk' = (disk \ FilesIn(r, request.to)) \cup {<<r, request.from, p[3]>> : p \in FilesIn(r, request.to)}
    BY <1>6 DEF UndoRoot, Moved
  <2>2. /\ request'.phase = "undoing" /\ request'.todo = request.todo /\ request'.done = request.done \ {r}
        /\ request'.from = request.from /\ request'.to = request.to
        /\ request'.roots = request.roots /\ request'.before = request.before
    BY <2>1 DEF RequestIsSound
  <2>3. ASSUME NEW p \in request.before, p[1] \in request.roots
        PROVE  IF p[1] \in request.done \ {r} THEN Renamed(p) \in disk' ELSE p \in disk'
    <3>1. p \in Paths /\ FolderOf(p) = request.from /\ request.from # request.to
      BY <2>1 DEF RenameIsHalfWay, MidRename, RequestIsSound
    <3>2. CASE p[1] = r
      <4>1. Renamed(p) \in disk
        BY <2>1, <2>3, <3>2 DEF RenameIsHalfWay, MidRename
      <4>2. Renamed(p) \in FilesIn(r, request.to) /\ Renamed(p)[3] = p[3]
        BY <3>2, <4>1 DEF FilesIn, Renamed
      <4>3. p = <<r, request.from, p[3]>>
        BY <3>1, <3>2 DEF Paths, FolderOf
      <4> QED BY <2>1, <3>2, <4>2, <4>3
    <3>3. CASE p[1] # r /\ p[1] \in request.done
      <4>1. Renamed(p) \in disk
        BY <2>1, <2>3, <3>3 DEF RenameIsHalfWay, MidRename
      <4>2. Renamed(p) \notin FilesIn(r, request.to)
        BY <3>3 DEF FilesIn, Renamed
      <4> QED BY <2>1, <3>3, <4>1, <4>2
    <3>4. CASE p[1] # r /\ p[1] \notin request.done
      <4>1. p \in disk /\ p \notin FilesIn(r, request.to)
        BY <2>1, <2>3, <3>4 DEF RenameIsHalfWay, MidRename, FilesIn
      <4> QED BY <2>1, <3>4, <4>1
    <3> QED BY <3>2, <3>3, <3>4
  <2>4. \A p : Renamed(p)' = Renamed(p)
    BY <2>2 DEF Renamed
  <2> QED BY <2>1, <2>2, <2>3, <2>4 DEF RenameIsHalfWay, MidRename
<1>7. CASE UndoFails \/ SaveRename \/ SaveThrows
  BY <1>1, <1>7 DEF UndoFails, SaveRename, SaveThrows
<1>8. CASE request'.phase = "deleting" \/ EndDelete
  BY <1>1, <1>8 DEF EndDelete, RenameIsHalfWay, MidRename
<1>11. ASSUME NEW s \in Ids, DeleteFiles(s)
       PROVE  request'.phase = "deleting"
  BY <1>11 DEF DeleteFiles, NoRequest
<1>12. ASSUME NEW r \in Roots, DeleteInRoot(r)
       PROVE  request'.phase = "deleting"
  BY <1>12 DEF DeleteInRoot, RequestIsSound
<1>13. ASSUME NEW p \in Paths, DeleteFile(p)
       PROVE  request'.phase = "deleting"
  BY <1>13 DEF DeleteFile
<1>9. ASSUME NEW ch \in Chapters, Land(ch)
      PROVE  RenameIsHalfWay'
  BY <1>2, <1>9 DEF Land
<1>10. CASE UNCHANGED <<request, disk>>
  BY <1>2, <1>10
<1> QED BY <1>1, <1>3, <1>4, <1>5, <1>6, <1>7, <1>8, <1>9, <1>10, <1>11, <1>12, <1>13
        DEF Next, Scan, StartScan, WalkRoot, SkipHidden, KnownRow, ApplyFolder, EndScan, Admin, Hide, Restore, Merge,
            Delete, Rename, Download, StartUpdate, Add, NothingLands, OpenBook, WriteProgress

\* The files of the roots it knew of are all in place or all moved, when a
\* rename is over, unless an undo failed; and the row goes with them, unless
\* the transaction failed.
LEMMA RenameEnds ==
    ASSUME Sound, RenameIsHalfWay, Next, RenameOver, ~UndoFails
    PROVE  Unmoved \/ (AllMoved /\ (Saved \/ SaveThrows))
<1> USE DEF Sound
<1>1. MidRename /\ request'.phase = "idle"
  BY DEF RenameOver, MidRename
<1>2. ASSUME NEW r \in Roots, MoveFails(r)
      PROVE  Unmoved
  <2>1. request.done = {} /\ disk' = disk /\ row' = row /\ book' = book
    BY <1>1, <1>2 DEF MoveFails
  <2> QED BY <1>1, <2>1 DEF RenameIsHalfWay, Unmoved, Renaming
<1>3. ASSUME NEW r \in Roots, UndoRoot(r)
      PROVE  Unmoved
  <2>1. /\ request.done = {r} /\ request.phase = "undoing" /\ row' = row /\ book' = book
        /\ disk' = (disk \ FilesIn(r, request.to)) \cup {<<r, request.from, p[3]>> : p \in FilesIn(r, request.to)}
    BY <1>1, <1>3 DEF UndoRoot, Moved, RequestIsSound
  <2>2. ASSUME NEW p \in Renaming PROVE p \in disk'
    <3>1. p \in Paths /\ FolderOf(p) = request.from /\ request.from # request.to
      BY <1>1 DEF RenameIsHalfWay, RequestIsSound, Renaming
    <3>2. CASE p[1] = r
      <4>1. Renamed(p) \in FilesIn(r, request.to) /\ Renamed(p)[3] = p[3]
        BY <1>1, <2>1, <3>2 DEF RenameIsHalfWay, FilesIn, Renamed, Renaming
      <4>2. p = <<r, request.from, p[3]>>
        BY <3>1, <3>2 DEF Paths, FolderOf
      <4> QED BY <2>1, <4>1, <4>2
    <3>3. CASE p[1] # r
      BY <1>1, <2>1, <3>3 DEF RenameIsHalfWay, FilesIn, Renaming
    <3> QED BY <3>2, <3>3
  <2> QED BY <2>1, <2>2 DEF Unmoved
<1>4. CASE SaveRename \/ SaveThrows
  <2>1. request.phase = "saving" /\ request.done = request.roots /\ disk' = disk
    BY <1>1, <1>4 DEF SaveRename, SaveThrows, RenameIsHalfWay
  <2>2. AllMoved
    BY <1>1, <2>1 DEF RenameIsHalfWay, AllMoved, Renaming
  <2>3. SaveRename => Saved
    <3>1. request.series \in Ids
      BY <1>1 DEF RequestIsSound, Rows
    <3> QED BY <3>1 DEF SaveRename, Saved, RowsAreSound
  <2> QED BY <1>4, <2>2, <2>3
<1>5. ASSUME NEW r \in Roots, MoveRoot(r)
      PROVE  FALSE
  BY <1>1, <1>5 DEF MoveRoot, RequestIsSound
<1>6. ASSUME Delete PROVE FALSE
  BY <1>1, <1>6 DEF Delete, DeleteInRoot, DeleteFile, EndDelete, MidRename
<1> QED BY <1>1, <1>2, <1>3, <1>4, <1>5, <1>6
        DEF Next, Scan, StartScan, WalkRoot, SkipHidden, KnownRow, ApplyFolder, EndScan, Admin, AdminAsks, Hide,
            Restore, Merge, DeleteFiles, AskRename, Rename, Download, StartUpdate, Add, Land, NothingLands,
            OpenBook, WriteProgress, MidRename

-----------------------------------------------------------------------------
(* Undisturbed scans *)

\* What a folder's transaction does to the rows: at most one more, of the
\* scan's folder, which had none.
LEMMA ApplyRows ==
    ASSUME Sound, NEW c \in Scanners, ApplyFolder(c)
    PROVE  /\ \A t \in Rows : t \in Rows' /\ row'[t] = row[t]
           /\ SeriesFor(c) \in Rows'
           /\ \A t \in Rows' \ Rows : /\ t = SeriesFor(c) /\ RowsOf(scan[c].folder) = {}
                                      /\ row'[t].folder = scan[c].folder /\ ~row'[t].deleted
                                      /\ row'[t].merged = None
<1> DEFINE s == SeriesFor(c)
           f == scan[c].folder
<1>1. s \in Ids /\ f \in Folders /\ (s \in Rows \/ (s \notin Rows /\ RowsOf(f) = {}))
  BY SeriesForFolder DEF ApplyFolder, Sound, ScansAreSound
<1>2. row' = IF s \in Rows THEN row ELSE [row EXCEPT ![s].folder = f]
  BY DEF ApplyFolder
<1> HIDE DEF s, f
<1>3. CASE s \in Rows
  <2>1. row' = row /\ Rows' = Rows
    BY <1>2, <1>3 DEF Rows
  <2> QED BY <1>3, <2>1 DEF s
<1>4. CASE s \notin Rows
  <2>1. row' = [row EXCEPT ![s].folder = f] /\ RowsOf(f) = {} /\ row[s] = NoRow
    BY <1>1, <1>2, <1>4 DEF Rows
  <2>2. Rows' = Rows \cup {s}
    BY <2>1, <1>1, FoldersAssumption DEF Rows, NoRow, Sound, RowsAreSound
  <2>3. row'[s].folder = f /\ ~row'[s].deleted /\ row'[s].merged = None /\ \A t \in Ids \ {s} : row'[t] = row[t]
    BY <2>1, <1>1 DEF NoRow, Sound, RowsAreSound
  <2> QED BY <1>4, <2>1, <2>2, <2>3 DEF Rows, s, f
<1> QED BY <1>3, <1>4 DEF s, f

\* An undisturbed scan's transaction shelves its folder where it belongs.
LEMMA FreshApply ==
    ASSUME Sound, NEW c \in Scanners, ApplyFolder(c), Remembers(c)
    PROVE  \E t \in Rows' :
              /\ row'[t].folder = scan[c].folder
              /\ SeriesFor(c) = MergedInto(t)'
              /\ scan'[c].seen = [scan[c].seen EXCEPT ![scan[c].folder] = MergedInto(t)']
<1> DEFINE s == SeriesFor(c)
           f == scan[c].folder
           m == scan[c].merged
<1>1. f \in Folders /\ scan[c].phase = "apply"
  BY DEF ApplyFolder, Sound, ScansAreSound
<1>2. scan'[c].seen = [scan[c].seen EXCEPT ![f] = IF m # None THEN m ELSE s]
  BY DEF ApplyFolder, Sound, ScansAreSound
<1>3. \A t \in RowsOf(f) : t \in Rows' /\ row'[t].folder = f /\ MergedInto(t)' = MergedInto(t)
                           /\ MergedInto(t) = IF m = None THEN t ELSE m
  BY <1>1, ApplyRows DEF RowsOf, MergedInto, Remembers
<1>4. CASE RowsOf(f) = {}
  <2>1. s \in Rows' \ Rows \/ scan[c].seen[f] # None \/ m # None
    BY <1>4, ApplyRows, SeriesForFolder, <1>1, IdLeft DEF SeriesFor, Sound
  <2>2. s \in Rows' \ Rows /\ m = None
    BY <1>1, <1>4, <2>1 DEF Remembers
  <2>3. row'[s].folder = f /\ row'[s].merged = None
    BY <2>2, ApplyRows
  <2> QED BY <1>2, <2>2, <2>3 DEF MergedInto
<1>5. CASE RowsOf(f) # {}
  <2>1. PICK t \in RowsOf(f) : s = MergedInto(t)
    <3>1. CASE scan[c].seen[f] # None
      BY <1>1, <3>1 DEF Remembers, SeriesFor
    <3>2. CASE scan[c].seen[f] = None /\ m # None
      BY <1>1, <1>3, <1>5, <3>2 DEF SeriesFor
    <3>3. CASE scan[c].seen[f] = None /\ m = None
      BY <1>1, <1>3, <1>5, <3>3 DEF SeriesFor
    <3> QED BY <3>1, <3>2, <3>3
  <2>2. (IF m # None THEN m ELSE s) = MergedInto(t)
    BY <1>3, <2>1
  <2> HIDE DEF s, f, m
  <2>3. t \in Rows' /\ row'[t].folder = f /\ s = MergedInto(t)'
        /\ scan'[c].seen = [scan[c].seen EXCEPT ![f] = MergedInto(t)']
    BY <1>2, <1>3, <2>1, <2>2
  <2> QED BY <2>3 DEF s, f
<1> QED BY <1>4, <1>5

\* ... and leaves what was shelved so.
LEMMA FreshApplyShelves ==
    ASSUME Sound, NEW c \in Scanners, ApplyFolder(c), Remembers(c), NEW p \in Paths,
           \/ Shelved(p)
           \/ p[1] = scan[c].root /\ FolderOf(p) = scan[c].folder /\ p[3] \in scan[c].found[scan[c].folder]
    PROVE  Shelved(p)'
<1> DEFINE s == SeriesFor(c)
           written == {scan[c].root} \X {scan[c].folder} \X scan[c].found[scan[c].folder]
<1>1. book' = [q \in Paths |-> IF q \in written THEN [book[q] EXCEPT !.series = s] ELSE book[q]]
  BY DEF ApplyFolder
<1>2. CASE p \in written
  <2>1. book'[p].series = s
    BY <1>1, <1>2 DEF Sound, BooksAreSound
  <2>2. PICK t \in Rows' : row'[t].folder = scan[c].folder /\ s = MergedInto(t)'
    BY FreshApply
  <2> QED BY <1>2, <2>1, <2>2 DEF Shelved, RowsOf, FolderOf
<1>3. CASE p \notin written
  <2>1. book'[p] = book[p]
    BY <1>1, <1>3
  <2>2. Shelved(p)
    <3>1. p = <<p[1], p[2], p[3]>>
      BY DEF Paths
    <3> QED BY <1>3, <3>1 DEF FolderOf
  <2>3. PICK t \in RowsOf(FolderOf(p)) : row[t].deleted \/ book[p].series = MergedInto(t)
    BY <2>2 DEF Shelved
  <2>4. t \in Rows' /\ row'[t] = row[t]
    BY <2>3, ApplyRows DEF RowsOf
  <2> QED BY <2>1, <2>3, <2>4 DEF Shelved, RowsOf, MergedInto
<1> QED BY <1>2, <1>3

\* A step that touches neither files nor rows nor the shelves.
Calm == row' = row /\ disk' = disk /\ \A p \in Paths : book'[p].series = book[p].series

LEMMA CalmKeeps ==
    ASSUME Sound, Calm
    PROVE  /\ \A p \in Paths : Shelved(p)' <=> Shelved(p)
           /\ \A c \in Scanners : scan'[c] = scan[c] /\ Remembers(c) => Remembers(c)'
           /\ \A c \in Scanners, p \in Paths : scan'[c] = scan[c] /\ ToCome(c, p) => ToCome(c, p)'
<1>1. \A f : RowsOf(f)' = RowsOf(f)
  BY DEF Calm, RowsOf, Rows
<1>2. \A t : MergedInto(t)' = MergedInto(t)
  BY DEF Calm, MergedInto
<1>3. \A p \in Paths : Shelved(p)' <=> Shelved(p)
  BY <1>1, <1>2 DEF Calm, Shelved
<1>4. \A c \in Scanners : scan'[c] = scan[c] /\ Remembers(c) => Remembers(c)'
  BY <1>1, <1>2 DEF Calm, Remembers
<1>5. \A c \in Scanners, p \in Paths : scan'[c] = scan[c] /\ ToCome(c, p) => ToCome(c, p)'
  BY DEF ToCome
<1> QED BY <1>3, <1>4, <1>5

LEMMA AgreeStep ==
    ASSUME Sound, ScansAgree, Next
    PROVE  ScansAgree'
<1> USE DEF Sound
<1>1. ASSUME NEW c \in Scanners, StartScan(c)
      PROVE  ScansAgree'
  <2> DEFINE b == \A d \in Scanners : scan[d].phase # "idle" => scan[d].fresh
             new == [NotScanning EXCEPT !.phase = "walk", !.roots = Roots, !.fresh = b]
  <2>1. scan' = [scan EXCEPT ![c] = new] /\ settled' = settled /\ scan[c].phase = "idle"
    BY <1>1 DEF StartScan
  <2>2. new.fresh = b
    BY DEF NotScanning
  <2>3. \A d \in Scanners : scan'[d] = IF d = c THEN new ELSE scan[d]
    BY <2>1 DEF ScansAreSound
  <2>4. \A d \in Scanners : scan[d].fresh \in BOOLEAN
    BY DEF ScansAreSound, Scans
  <2>5. \A d \in Scanners : scan[d].phase # "idle" => scan[d].fresh = b
    BY <2>4 DEF ScansAgree
  <2>6. settled => b
    BY DEF ScansAgree
  <2> HIDE DEF new, b
  <2>7. \A d \in Scanners : scan'[d].phase # "idle" => scan'[d].fresh = b
    BY <2>2, <2>3, <2>5
  <2> QED BY <2>1, <2>6, <2>7 DEF ScansAgree
<1>2. ASSUME NEW c \in Scanners, scan[c].phase # "idle", settled' = settled,
             \A d \in Scanners : scan'[d].fresh = scan[d].fresh /\ (d # c => scan'[d].phase = scan[d].phase)
      PROVE  ScansAgree'
  BY <1>2 DEF ScansAgree
<1>3. ASSUME NEW c \in Scanners, WalkRoot(c)
      PROVE  ScansAgree'
  BY <1>2, <1>3 DEF WalkRoot, NoneLeft, ScansAreSound, Scans
<1>4. ASSUME NEW c \in Scanners, NEW f \in Folders, SkipHidden(c, f) \/ KnownRow(c, f)
      PROVE  ScansAgree'
  BY <1>2, <1>4 DEF SkipHidden, KnownRow, Found, ScansAreSound, Scans
<1>5. ASSUME NEW c \in Scanners, ApplyFolder(c)
      PROVE  ScansAgree'
  BY <1>2, <1>5 DEF ApplyFolder, ScansAreSound, Scans
<1>6. ASSUME NEW c \in Scanners, EndScan(c)
      PROVE  ScansAgree'
  <2>1. /\ \A d \in Scanners : scan'[d] = IF d = c THEN NotScanning ELSE scan[d]
        /\ scan[c].phase # "idle" /\ settled' = (settled \/ scan[c].fresh)
    BY <1>6 DEF EndScan, NoneLeft, ScansAreSound
  <2>2. NotScanning.phase = "idle" /\ \A d \in Scanners : scan[d].fresh \in BOOLEAN
    BY DEF NotScanning, ScansAreSound, Scans
  <2> HIDE DEF NotScanning
  <2> QED BY <2>1, <2>2 DEF ScansAgree
<1>7. CASE Disturb
  <2>1. \A c \in Scanners : scan'[c].fresh = FALSE
    BY <1>7, DisturbScans DEF Scans
  <2>2. settled' = FALSE
    BY <1>7 DEF Disturb
  <2> QED BY <2>1, <2>2 DEF ScansAgree
<1>8. CASE UNCHANGED <<scan, settled>>
  BY <1>8 DEF ScansAgree
<1> QED BY <1>1, <1>3, <1>4, <1>5, <1>6, <1>7, <1>8
        DEF Next, Scan, Admin, AdminAsks, Change, Hide, Restore, Merge, DeleteFiles, Delete, DeleteInRoot,
            DeleteFile, EndDelete, AskRename, Rename, MoveRoot,
            MoveFails, UndoRoot, UndoFails, SaveRename, SaveThrows, Download, StartUpdate, Add, Land, NothingLands,
            OpenBook, WriteProgress

\* The picture of one scan.
Picture(c) == Remembers(c) /\ \A p \in disk : ToCome(c, p) \/ Shelved(p)

LEMMA OwnStep ==
    ASSUME Sound, ScansAgree, FreshScans, NEW c \in Scanners, Scan(c), scan'[c].fresh = TRUE
    PROVE  Picture(c)'
<1> USE DEF Sound
<1>1. CASE StartScan(c)
  <2> DEFINE b == \A d \in Scanners : scan[d].phase # "idle" => scan[d].fresh
             new == [NotScanning EXCEPT !.phase = "walk", !.roots = Roots, !.fresh = b]
  <2>1. scan'[c] = new /\ disk' = disk
    BY <1>1 DEF StartScan, ScansAreSound
  <2>2. new.phase = "walk" /\ new.roots = Roots /\ \A f \in Folders : new.seen[f] = None
    BY DEF NotScanning
  <2> HIDE DEF new
  <2>3. \A p \in disk : p[1] \in Roots
    BY DEF RestIsSound, Paths
  <2> QED BY <2>1, <2>2, <2>3 DEF Picture, Remembers, ToCome
<1>2. CASE WalkRoot(c)
  <2>1. PICK r \in scan[c].roots :
           scan' = [scan EXCEPT ![c].phase = "folders", ![c].root = r, ![c].roots = @ \ {r},
                                ![c].found = [f \in Folders |-> {p[3] : p \in FilesIn(r, f)}]]
    BY <1>2 DEF WalkRoot
  <2> DEFINE here == [f \in Folders |-> {p[3] : p \in FilesIn(r, f)}]
  <2>2. /\ scan'[c].phase = "folders" /\ scan'[c].root = r /\ scan'[c].roots = scan[c].roots \ {r}
        /\ scan'[c].seen = scan[c].seen /\ scan'[c].fresh = scan[c].fresh
        /\ \A f \in Folders : scan'[c].found[f] = {p[3] : p \in FilesIn(r, f)}
    BY <2>1 DEF ScansAreSound, Scans
  <2>3. Calm
    BY <1>2 DEF WalkRoot, Calm
  <2>4. Remembers(c) /\ \A p \in disk : ToCome(c, p) \/ Shelved(p)
    BY <2>2 DEF FreshScans
  <2>5. ASSUME NEW p \in disk PROVE ToCome(c, p)' \/ Shelved(p)'
    <3>1. p \in Paths /\ FolderOf(p) \in Folders
      BY DEF RestIsSound, Paths, FolderOf
    <3>2. CASE p[1] = r
      <4>1. p \in FilesIn(r, FolderOf(p))
        BY <3>2 DEF FilesIn, FolderOf
      <4> QED BY <2>2, <3>1, <3>2, <4>1 DEF ToCome
    <3>3. CASE p[1] # r /\ p[1] \in scan[c].roots
      BY <2>2, <3>3 DEF ToCome
    <3>4. CASE p[1] \notin scan[c].roots
      <4>1. Shelved(p)
        BY <1>2, <2>4, <3>1, <3>4 DEF WalkRoot, NoneLeft, ToCome, ScansAreSound, RestIsSound, Paths
      <4> QED BY <2>3, <3>1, <4>1, CalmKeeps
    <3> QED BY <3>2, <3>3, <3>4
  <2>6. Remembers(c)'
    <3>1. \A f : RowsOf(f)' = RowsOf(f)
      BY <2>3 DEF Calm, RowsOf, Rows
    <3>2. \A t : MergedInto(t)' = MergedInto(t)
      BY <2>3 DEF Calm, MergedInto
    <3> QED BY <2>2, <2>4, <3>1, <3>2 DEF Remembers
  <2> QED BY <2>3, <2>5, <2>6 DEF Picture, Calm
<1>3. ASSUME NEW f \in Folders, SkipHidden(c, f)
      PROVE  Picture(c)'
  <2>1. scan' = [scan EXCEPT ![c].found[f] = {}] /\ scan[c].phase = "folders"
    BY <1>3 DEF SkipHidden, Found
  <2>2. /\ scan'[c].phase = "folders" /\ scan'[c].root = scan[c].root /\ scan'[c].roots = scan[c].roots
        /\ scan'[c].seen = scan[c].seen /\ scan'[c].fresh = scan[c].fresh
        /\ \A g \in Folders : g # f => scan'[c].found[g] = scan[c].found[g]
    BY <2>1 DEF ScansAreSound, Scans
  <2>3. Calm
    BY <1>3 DEF SkipHidden, Calm
  <2>4. Remembers(c) /\ \A p \in disk : ToCome(c, p) \/ Shelved(p)
    BY <2>2 DEF FreshScans
  <2>5. ASSUME NEW p \in disk PROVE ToCome(c, p)' \/ Shelved(p)'
    <3>1. p \in Paths /\ FolderOf(p) \in Folders
      BY DEF RestIsSound, Paths, FolderOf
    <3>2. CASE FolderOf(p) = f
      <4>1. Shelved(p)
        BY <1>3, <3>2 DEF SkipHidden, Shelved
      <4> QED BY <2>3, <3>1, <4>1, CalmKeeps
    <3>3. CASE FolderOf(p) # f
      BY <2>2, <2>3, <2>4, <3>1, <3>3, CalmKeeps DEF ToCome
    <3> QED BY <3>2, <3>3
  <2>6. Remembers(c)'
    <3>1. \A g : RowsOf(g)' = RowsOf(g)
      BY <2>3 DEF Calm, RowsOf, Rows
    <3>2. \A t : MergedInto(t)' = MergedInto(t)
      BY <2>3 DEF Calm, MergedInto
    <3> QED BY <2>2, <2>4, <3>1, <3>2 DEF Remembers
  <2> QED BY <2>3, <2>5, <2>6 DEF Picture, Calm
<1>4. ASSUME NEW f \in Folders, KnownRow(c, f)
      PROVE  Picture(c)'
  <2> DEFINE m == IF RowsOf(f) = {} THEN None ELSE row[CHOOSE s \in RowsOf(f) : TRUE].merged
  <2>1. scan' = [scan EXCEPT ![c].phase = "apply", ![c].folder = f, ![c].merged = m]
    BY <1>4 DEF KnownRow
  <2>7. /\ \A s \in RowsOf(f) : row[s].merged = m
        /\ m # None => RowsOf(f) # {}
    BY DEF RowsOf, RowsAreSound
  <2> HIDE DEF m
  <2>2. /\ scan'[c].phase = "apply" /\ scan'[c].root = scan[c].root /\ scan'[c].roots = scan[c].roots
        /\ scan'[c].seen = scan[c].seen /\ scan'[c].fresh = scan[c].fresh /\ scan'[c].found = scan[c].found
        /\ scan'[c].folder = f /\ scan'[c].merged = m
    BY <2>1 DEF ScansAreSound, Scans
  <2>3. Calm
    BY <1>4 DEF KnownRow, Calm
  <2>4. Remembers(c) /\ \A p \in disk : ToCome(c, p) \/ Shelved(p)
    BY <2>2 DEF FreshScans
  <2>5. ASSUME NEW p \in disk PROVE ToCome(c, p)' \/ Shelved(p)'
    <3>1. p \in Paths
      BY DEF RestIsSound
    <3> QED BY <2>2, <2>3, <2>4, <3>1, CalmKeeps DEF ToCome
  <2>6. Remembers(c)'
    <3>1. \A g : RowsOf(g)' = RowsOf(g)
      BY <2>3 DEF Calm, RowsOf, Rows
    <3>2. \A t : MergedInto(t)' = MergedInto(t) /\ row' = row
      BY <2>3 DEF Calm, MergedInto
    <3> QED BY <2>2, <2>4, <2>7, <3>1, <3>2 DEF Remembers
  <2> QED BY <2>3, <2>5, <2>6 DEF Picture, Calm
<1>5. CASE ApplyFolder(c)
  <2> DEFINE f == scan[c].folder
  <2>1. /\ scan'[c].phase = "folders" /\ scan'[c].root = scan[c].root /\ scan'[c].roots = scan[c].roots
        /\ scan'[c].fresh = scan[c].fresh /\ disk' = disk /\ f \in Folders
        /\ \A g \in Folders : g # f => scan'[c].found[g] = scan[c].found[g]
    <3> DEFINE s == IF scan[c].merged # None THEN scan[c].merged ELSE SeriesFor(c)
    <3>1. scan' = [scan EXCEPT ![c].phase = "folders", ![c].folder = None, ![c].merged = None,
                               ![c].found[f] = {}, ![c].seen[f] = s]
      BY <1>5 DEF ApplyFolder
    <3>2. disk' = disk /\ scan[c] \in Scans /\ f \in Folders
      BY <1>5 DEF ApplyFolder, ScansAreSound
    <3> HIDE DEF s, f
    <3> QED BY <3>1, <3>2 DEF ScansAreSound, Scans
  <2>2. Remembers(c) /\ \A p \in disk : ToCome(c, p) \/ Shelved(p)
    BY <2>1 DEF FreshScans
  <2>3. ASSUME NEW p \in disk PROVE ToCome(c, p)' \/ Shelved(p)'
    <3>1. p \in Paths /\ FolderOf(p) \in Folders
      BY DEF RestIsSound, Paths, FolderOf
    <3>2. CASE Shelved(p) \/ (p[1] = scan[c].root /\ FolderOf(p) = f /\ p[3] \in scan[c].found[f])
      BY <1>5, <2>2, <3>1, <3>2, FreshApplyShelves
    <3>3. CASE ToCome(c, p) /\ ~(p[1] = scan[c].root /\ FolderOf(p) = f /\ p[3] \in scan[c].found[f])
      BY <2>1, <3>1, <3>3 DEF ToCome
    <3> QED BY <2>2, <3>2, <3>3
  <2>4. Remembers(c)'
    <3>1. PICK t \in Rows' : row'[t].folder = f /\ scan'[c].seen = [scan[c].seen EXCEPT ![f] = MergedInto(t)']
      BY <1>5, <2>2, FreshApply
    <3>2. ASSUME NEW g \in Folders, scan'[c].seen[g] # None
          PROVE  \E u \in RowsOf(g)' : scan'[c].seen[g] = MergedInto(u)'
      <4>1. CASE g = f
        BY <3>1, <4>1 DEF RowsOf, ScansAreSound, Scans
      <4>2. CASE g # f
        <5>1. scan'[c].seen[g] = scan[c].seen[g]
          BY <3>1, <4>2 DEF ScansAreSound, Scans
        <5>2. PICK u \in RowsOf(g) : scan[c].seen[g] = MergedInto(u)
          BY <2>2, <3>2, <5>1 DEF Remembers
        <5>3. u \in Rows' /\ row'[u] = row[u]
          BY <1>5, <5>2, ApplyRows DEF RowsOf
        <5> QED BY <5>1, <5>2, <5>3 DEF RowsOf, MergedInto
      <4> QED BY <4>1, <4>2
    <3> QED BY <2>1, <3>2 DEF Remembers
  <2> QED BY <2>1, <2>3, <2>4 DEF Picture
<1>6. CASE EndScan(c)
  BY <1>6 DEF EndScan, NotScanning, ScansAreSound
<1> QED BY <1>1, <1>2, <1>3, <1>4, <1>5, <1>6 DEF Scan

\* Every step disturbs the scans, is a folder's transaction, or is calm.
LEMMA StepKinds ==
    ASSUME Sound, Next
    PROVE  Disturb \/ (\E c \in Scanners : ApplyFolder(c)) \/ Calm
<1>1. ASSUME NEW p \in Reading, OpenBook(p)
      PROVE  Calm
  <2>1. book' = [book EXCEPT ![p].opened = book[p].series] /\ row' = row /\ disk' = disk
    BY <1>1 DEF OpenBook
  <2> QED BY <2>1 DEF Calm, Sound, BooksAreSound
<1>2. ASSUME NEW p \in Paths, WriteProgress(p)
      PROVE  Calm
  <2>1. /\ book' = [book EXCEPT ![p].read = IF @ = None THEN book[p].opened ELSE @, ![p].opened = None]
        /\ row' = row /\ disk' = disk
    BY <1>2 DEF WriteProgress
  <2> QED BY <2>1 DEF Calm, Sound, BooksAreSound
<1> QED BY <1>1, <1>2
        DEF Next, Scan, StartScan, WalkRoot, SkipHidden, KnownRow, EndScan, Admin, AdminAsks, Change, Hide, Restore,
            Merge, DeleteFiles, Delete, DeleteInRoot, DeleteFile, EndDelete, AskRename, Rename, MoveRoot, MoveFails,
            UndoRoot, UndoFails, SaveRename, SaveThrows, Download, StartUpdate, Add, Land, NothingLands, Calm

\* An undisturbed scan that did not move keeps its picture.
LEMMA OthersStep ==
    ASSUME Sound, ScansAgree, FreshScans, Next, NEW d \in Scanners, scan[d].fresh = TRUE, scan'[d] = scan[d]
    PROVE  Picture(d)'
<1> USE DEF Sound
<1>1. Remembers(d) /\ (\A p \in disk : ToCome(d, p) \/ Shelved(p)) /\ disk \subseteq Paths /\ scan[d].phase # "idle"
  BY DEF FreshScans, RestIsSound, ScansAreSound
<1>2. CASE Disturb
  BY <1>2, DisturbScans
<1>3. CASE Calm
  BY <1>1, <1>3, CalmKeeps DEF Picture, Calm
<1>4. ASSUME NEW c \in Scanners, ApplyFolder(c)
      PROVE  Picture(d)'
  <2>1. Remembers(c) /\ disk' = disk
    <3>1. scan[c].phase # "idle" /\ disk' = disk
      BY <1>4 DEF ApplyFolder
    <3>2. scan[c].fresh = TRUE
      BY <1>1, <3>1 DEF ScansAgree
    <3> QED BY <3>1, <3>2 DEF FreshScans
  <2>2. ASSUME NEW p \in disk PROVE ToCome(d, p)' \/ Shelved(p)'
    <3>1. CASE Shelved(p)
      BY <1>1, <1>4, <2>1, <3>1, FreshApplyShelves
    <3>2. CASE ToCome(d, p)
      BY <3>2 DEF ToCome
    <3> QED BY <1>1, <3>1, <3>2
  <2>3. ASSUME NEW g \in Folders, scan[d].seen[g] # None
        PROVE  \E u \in RowsOf(g)' : scan[d].seen[g] = MergedInto(u)'
    <3>1. PICK u \in RowsOf(g) : scan[d].seen[g] = MergedInto(u)
      BY <1>1, <2>3 DEF Remembers
    <3>2. u \in Rows' /\ row'[u] = row[u]
      BY <1>4, <3>1, ApplyRows DEF RowsOf
    <3> QED BY <3>1, <3>2 DEF RowsOf, MergedInto
  <2>4. ASSUME scan[d].phase = "apply"
        PROVE  /\ \A t \in RowsOf(scan[d].folder)' : row'[t].merged = scan[d].merged
               /\ scan[d].merged # None => RowsOf(scan[d].folder)' # {}
    <3> DEFINE f == scan[d].folder
               m == scan[d].merged
    <3>1. (\A t \in RowsOf(f) : row[t].merged = m) /\ (m # None => RowsOf(f) # {})
      BY <1>1, <2>4 DEF Remembers
    <3> HIDE DEF m
    <3>2. \A t \in RowsOf(f) : t \in Rows' /\ row'[t] = row[t] /\ row'[t].folder = f
      BY <1>4, ApplyRows DEF RowsOf
    <3>3. ASSUME NEW t \in Rows', row'[t].folder = f
          PROVE  row'[t].merged = m
      <4>1. CASE t \in Rows
        <5>1. row'[t] = row[t] /\ t \in RowsOf(f)
          BY <1>4, <3>3, <4>1, ApplyRows DEF RowsOf
        <5> QED BY <3>1, <5>1
      <4>2. CASE t \notin Rows
        <5>1. row'[t].merged = None /\ RowsOf(f) = {}
          BY <1>4, <3>3, <4>2, ApplyRows
        <5> QED BY <3>1, <5>1
      <4> QED BY <4>1, <4>2
    <3> QED BY <3>1, <3>2, <3>3 DEF RowsOf, m
  <2> QED BY <2>1, <2>2, <2>3, <2>4 DEF Picture, Remembers
<1> QED BY <1>2, <1>3, <1>4, StepKinds

LEMMA FreshStep ==
    ASSUME Sound, ScansAgree, FreshScans, Next
    PROVE  FreshScans'
<1> SUFFICES ASSUME NEW d \in Scanners, scan'[d].fresh = TRUE
             PROVE  Picture(d)'
  <2>1. Sound'
    BY SoundStep
  <2>2. \A d \in Scanners : scan'[d].fresh \in BOOLEAN
    BY <2>1 DEF Sound, ScansAreSound, Scans
  <2> QED BY <2>2 DEF FreshScans, Picture
<1>1. CASE Scan(d)
  BY <1>1, OwnStep
<1>2. ~Disturb
  BY DisturbScans DEF Sound
<1>3. CASE scan'[d] = scan[d]
  BY <1>3, OthersStep
<1>4. ASSUME NEW c \in Scanners, Scan(c), c # d
      PROVE  scan'[d] = scan[d]
  BY <1>4 DEF Scan, StartScan, WalkRoot, SkipHidden, KnownRow, ApplyFolder, EndScan, Sound, ScansAreSound
<1> QED BY <1>1, <1>2, <1>3, <1>4
        DEF Next, Admin, AdminAsks, Change, Hide, Restore, Merge, DeleteFiles, Delete, DeleteInRoot, DeleteFile,
            EndDelete, AskRename, Rename, MoveRoot, MoveFails, UndoRoot, UndoFails, SaveRename, SaveThrows,
            Download, StartUpdate, Add, Land, NothingLands, OpenBook, WriteProgress

LEMMA SettledStep ==
    ASSUME Sound, ScansAgree, FreshScans, SettledIsShelved, Next
    PROVE  SettledIsShelved'
<1> USE DEF Sound
<1> SUFFICES ASSUME settled', NEW p \in disk' PROVE Shelved(p)'
  BY DEF SettledIsShelved
<1>1. ~Disturb
  BY DEF Disturb
<1>2. CASE settled
  <2>1. CASE Calm
    <3>1. p \in Paths /\ Shelved(p)
      BY <1>2, <2>1 DEF Calm, SettledIsShelved, RestIsSound
    <3> QED BY <2>1, <3>1, CalmKeeps
  <2>2. ASSUME NEW c \in Scanners, ApplyFolder(c) PROVE Shelved(p)'
    <3>1. scan[c].fresh /\ disk' = disk
      BY <1>2, <2>2 DEF ScansAgree, ApplyFolder
    <3>2. Remembers(c)
      BY <3>1 DEF FreshScans
    <3>3. p \in Paths /\ Shelved(p)
      BY <1>2, <3>1 DEF SettledIsShelved, RestIsSound
    <3> QED BY <2>2, <3>2, <3>3, FreshApplyShelves
  <2> QED BY <1>1, <2>1, <2>2, StepKinds
<1>3. CASE ~settled
  <2>1. PICK c \in Scanners : EndScan(c)
    BY <1>1, <1>3
       DEF Next, Scan, StartScan, WalkRoot, SkipHidden, KnownRow, ApplyFolder, Admin, AdminAsks, Change, Hide,
           Restore, Merge, DeleteFiles, Delete, DeleteInRoot, DeleteFile, EndDelete, AskRename, Rename, MoveRoot,
           MoveFails, UndoRoot, UndoFails, SaveRename, SaveThrows, Download, StartUpdate, Add, Land, NothingLands,
           OpenBook, WriteProgress
  <2>2. /\ scan[c].fresh /\ scan[c].roots = {} /\ \A f \in Folders : scan[c].found[f] = {}
        /\ Calm
    BY <1>3, <2>1 DEF EndScan, NoneLeft, Calm
  <2>3. p \in disk /\ p \in Paths /\ FolderOf(p) \in Folders
    BY <2>2 DEF Calm, RestIsSound, Paths, FolderOf
  <2>4. Shelved(p)
    BY <2>2, <2>3 DEF FreshScans, ToCome
  <2> QED BY <2>2, <2>3, <2>4, CalmKeeps
<1> QED BY <1>2, <1>3

-----------------------------------------------------------------------------
(* The way of the merges *)

LEMMA SurvivesItself ==
    ASSUME NEW s \in Ids
    PROVE  s \in Survivors(s)
  BY DEF Survivors

LEMMA SurvivorsClosed ==
    ASSUME Sound, NEW s, NEW t \in Survivors(s), row[t].merged # None
    PROVE  row[t].merged \in Survivors(s)
<1>1. t \in Ids /\ row[t].merged \in Ids
  BY DEF Survivors, Sound, RowsAreSound, Known, Rows
<1> QED BY <1>1 DEF Survivors, Closed

LEMMA SurvivorsPass ==
    ASSUME NEW s, NEW t \in Survivors(s)
    PROVE  Survivors(t) \subseteq Survivors(s)
  BY DEF Survivors

\* Beyond itself, a series has the survivors of the one it was merged into.
LEMMA SurvivorsAhead ==
    ASSUME Sound, NEW t \in Ids, NEW a \in Survivors(t), a # t
    PROVE  row[t].merged # None /\ a \in Survivors(row[t].merged)
<1> DEFINE u == row[t].merged
           S == {t} \cup (IF u = None THEN {} ELSE Survivors(u))
<1>1. u = None \/ u \in Ids
  BY DEF Sound, RowsAreSound, Known, Rows
<1>2. S \in SUBSET Ids
  BY DEF Survivors
<1>3. Closed(S)
  <2>1. u \in S \cup {None}
    BY <1>1, SurvivesItself
  <2>2. ASSUME u # None, NEW v \in Survivors(u) PROVE row[v].merged \in S \cup {None}
    BY <2>2, SurvivorsClosed
  <2> QED BY <2>1, <2>2 DEF Closed
<1>4. t \in S
  OBVIOUS
<1> HIDE DEF S
<1>5. a \in S
  BY <1>2, <1>3, <1>4 DEF Survivors
<1> QED BY <1>5 DEF S

\* Merges never part: of two survivors of a series one comes after the other.
LEMMA SurvivorsInLine ==
    ASSUME Sound, NEW o \in Ids, NEW a \in Survivors(o), NEW b \in Survivors(o)
    PROVE  b \in Survivors(a) \/ a \in Survivors(b)
<1> DEFINE S == {t \in Survivors(o) : a \in Survivors(t) \/ t \in Survivors(a)}
<1>1. S \in SUBSET Ids /\ o \in S /\ a \in Ids /\ b \in Ids
  BY SurvivesItself DEF Survivors
<1>2. Closed(S)
  <2> SUFFICES ASSUME NEW t \in S, row[t].merged # None PROVE row[t].merged \in S
    BY DEF Closed
  <2>1. t \in Ids /\ row[t].merged \in Survivors(o)
    BY SurvivorsClosed DEF Survivors
  <2>2. CASE t \in Survivors(a)
    BY <2>1, <2>2, SurvivorsClosed
  <2>3. CASE a \in Survivors(t) /\ a # t
    BY <2>1, <2>3, SurvivorsAhead
  <2>4. CASE a = t
    BY <1>1, <2>1, <2>4, SurvivesItself, SurvivorsClosed
  <2> QED BY <2>2, <2>3, <2>4
<1> HIDE DEF S
<1>3. b \in S
  BY <1>1, <1>2 DEF Survivors
<1> QED BY <1>3 DEF S

\* A step that makes no pointer point elsewhere loses no survivor.
LEMMA SurvivorsGrow ==
    ASSUME \A s \in Ids : row'[s].merged = row[s].merged \/ row[s].merged = None, NEW s
    PROVE  Survivors(s) \subseteq Survivors(s)'
<1> SUFFICES ASSUME NEW t \in Survivors(s), NEW S \in SUBSET Ids, s \in S, Closed(S)'
             PROVE  t \in S
  BY DEF Survivors
<1>1. Closed(S)
  BY DEF Closed
<1> QED BY <1>1 DEF Survivors

\* Only a rename that takes effect changes a row's folder.
LEMMA FoldersStay ==
    ASSUME Sound, Next, ~SaveRename
    PROVE  \A s \in Rows : row'[s].folder = row[s].folder
<1> USE DEF Sound
<1>1. ASSUME NEW c \in Scanners, ApplyFolder(c)
      PROVE  \A s \in Rows : row'[s].folder = row[s].folder
  BY <1>1, ApplyRows
<1>2. ASSUME NEW s \in Ids, NEW t \in Ids, Merge(s, t)
      PROVE  \A u \in Ids : row'[u].folder = row[u].folder
  BY <1>2 DEF Merge, RowsAreSound
<1>3. ASSUME NEW s \in Ids, Hide(s) \/ Restore(s)
      PROVE  \A u \in Ids : row'[u].folder = row[u].folder
  BY <1>3 DEF Hide, Restore, RowsAreSound
<1>4. ASSUME NEW g \in Folders, Add(g)
      PROVE  \A u \in Ids : row'[u].folder = row[u].folder
  BY <1>4 DEF Add, RowsAreSound
<1>5. CASE UNCHANGED row
  BY <1>5
<1>6. Rows \subseteq Ids
  BY DEF Rows
<1> QED BY <1>1, <1>2, <1>3, <1>4, <1>5, <1>6
        DEF Next, Scan, StartScan, WalkRoot, SkipHidden, KnownRow, EndScan, Admin, DeleteFiles, Delete,
            DeleteInRoot, DeleteFile, EndDelete, AskRename, Rename, MoveRoot, MoveFails, UndoRoot, UndoFails,
            SaveThrows, Download, StartUpdate, Land, NothingLands, OpenBook, WriteProgress

LEMMA KinGrows ==
    ASSUME Sound, Next, ~SaveRename, NEW f
    PROVE  Kin(f) \subseteq Kin(f)'
<1> USE DEF Sound
<1>1. \A s \in Ids : row'[s].merged = row[s].merged \/ row[s].merged = None
  <2>1. ASSUME NEW c \in Scanners, ApplyFolder(c), NEW s \in Ids
        PROVE  row'[s].merged = row[s].merged \/ row[s].merged = None
    BY <2>1, ApplyRows DEF Rows, NoRow
  <2>2. ASSUME NEW s \in Ids, NEW t \in Ids, Merge(s, t)
        PROVE  \A u \in Ids : row'[u].merged = row[u].merged \/ row[u].merged = None
    BY <2>2 DEF Merge, Visible, RowsAreSound
  <2>3. ASSUME NEW s \in Ids, Hide(s) \/ Restore(s)
        PROVE  \A u \in Ids : row'[u].merged = row[u].merged
    BY <2>3 DEF Hide, Restore, RowsAreSound
  <2>4. ASSUME NEW g \in Folders, Add(g)
        PROVE  \A u \in Ids : row'[u].merged = row[u].merged
    BY <2>4 DEF Add, RowsAreSound
  <2>5. CASE UNCHANGED row
    BY <2>5
  <2> QED BY <2>1, <2>2, <2>3, <2>4, <2>5
          DEF Next, Scan, StartScan, WalkRoot, SkipHidden, KnownRow, EndScan, Admin, DeleteFiles, Delete,
              DeleteInRoot, DeleteFile, EndDelete, AskRename, Rename, MoveRoot, MoveFails, UndoRoot, UndoFails,
              SaveThrows, Download, StartUpdate, Land, NothingLands, OpenBook, WriteProgress
<1>2. \A s \in Rows : row'[s].folder = row[s].folder
  BY FoldersStay
<1>3. Rows \subseteq Rows'
  BY SoundStep
<1>4. RowsOf(f) \subseteq RowsOf(f)'
  BY <1>2, <1>3 DEF RowsOf
<1>5. \A s : Survivors(s) \subseteq Survivors(s)'
  BY <1>1, SurvivorsGrow
<1> QED BY <1>4, <1>5 DEF Kin

-----------------------------------------------------------------------------
(* Books, scans and kin *)

\* The folder's own row is kin.
LEMMA OwnIsKin ==
    ASSUME NEW f, NEW s \in RowsOf(f)
    PROVE  s \in Kin(f)
  BY SurvivesItself DEF Kin, RowsOf, Rows

\* What a scan's transaction files a folder under is kin.
LEMMA AppliedIsKin ==
    ASSUME Sound, AllIsKin, ~split, Next, ~SaveRename, NEW c \in Scanners, ApplyFolder(c),
           NEW f, f = scan[c].folder, NEW s, s = SeriesFor(c)
    PROVE  s \in Kin(f)' /\ s # None
<1> USE DEF Sound
<1>1. f \in Folders /\ scan[c].phase = "apply" /\ s \in Ids
  BY SeriesForFolder DEF ApplyFolder, ScansAreSound
<1>2. s # None
  BY <1>1, CountOfFolders
<1>3. CASE s \in Rows' /\ s \notin Rows
  <2>1. row'[s].folder = f
    BY <1>3, ApplyRows
  <2>2. s \in RowsOf(f)' /\ s \in Survivors(s)'
    BY <1>1, <1>3, <2>1 DEF RowsOf, Survivors
  <2> QED BY <1>2, <2>2 DEF Kin
<1>4. CASE s \in Rows
  <2>1. s \in {scan[c].seen[f], scan[c].merged} \ {None} \/ s \in RowsOf(f)
    BY <1>1, <1>4, IdLeft DEF SeriesFor
  <2>2. s \in Kin(f)
    BY <1>1, <2>1, OwnIsKin DEF AllIsKin, ScanIsKin
  <2>3. Kin(f) \subseteq Kin(f)'
    BY KinGrows
  <2> QED BY <1>2, <2>2, <2>3
<1> QED BY <1>3, <1>4, ApplyRows

LEMMA BooksKinStep ==
    ASSUME Sound, AllIsKin, ~split, Next, ~SaveRename, NEW p \in Paths
    PROVE  BookIsKin(p)'
<1> USE DEF Sound, BooksAreSound
<1> DEFINE kin == {None} \cup Kin(FolderOf(p))
           new == {None} \cup Kin(FolderOf(p))'
<1>1. kin \subseteq new
  BY KinGrows
<1>2. /\ book[p].series \in kin /\ book[p].opened \in kin /\ book[p].read \in kin
      /\ book[p].opened # None \/ book[p].read # None => book[p].series # None
  BY DEF AllIsKin, BookIsKin
<1>3. ASSUME /\ book'[p].series \in new /\ book'[p].opened \in new /\ book'[p].read \in new
             /\ book'[p].opened # None \/ book'[p].read # None => book'[p].series # None
      PROVE  BookIsKin(p)'
  BY <1>3 DEF BookIsKin, FolderOf
<1> HIDE DEF kin, new
<1>4. CASE book'[p] = book[p]
  BY <1>1, <1>2, <1>3, <1>4
<1>5. ASSUME NEW c \in Scanners, ApplyFolder(c) PROVE BookIsKin(p)'
  <2> DEFINE written == {scan[c].root} \X {scan[c].folder} \X scan[c].found[scan[c].folder]
  <2>0. PICK s : s = SeriesFor(c)
    OBVIOUS
  <2>1. book'[p] = IF p \in written THEN [book[p] EXCEPT !.series = s] ELSE book[p]
    BY <1>5, <2>0 DEF ApplyFolder
  <2>2. p \in written => FolderOf(p) = scan[c].folder
    BY DEF FolderOf
  <2>3. p \in written => s \in new /\ s # None
    <3> SUFFICES ASSUME p \in written PROVE s \in Kin(FolderOf(p))' /\ s # None
      BY DEF new
    <3>1. PICK f : f = scan[c].folder
      OBVIOUS
    <3>2. f = FolderOf(p)
      BY <2>2, <3>1
    <3>3. s \in Kin(f)' /\ s # None
      BY <1>5, <2>0, <3>1, AppliedIsKin
    <3> QED BY <3>2, <3>3 DEF FolderOf
  <2> HIDE DEF written
  <2>4. CASE p \in written
    <3>1. book'[p].series = s /\ book'[p].opened = book[p].opened /\ book'[p].read = book[p].read
      BY <2>1, <2>4
    <3> QED BY <1>1, <1>2, <1>3, <2>3, <2>4, <3>1
  <2> QED BY <1>4, <2>1, <2>4
<1>6. ASSUME NEW s \in Ids, NEW t \in Ids, Merge(s, t) PROVE BookIsKin(p)'
  <2>1. row'[s].merged = t /\ t # None
    <3>1. row' = [row EXCEPT ![s].merged = t] /\ t \in Ids
      BY <1>6 DEF Merge
    <3>2. row'[s].merged = t
      BY <3>1 DEF RowsAreSound
    <3> QED BY <3>1, <3>2, CountOfFolders
  <2>2. book'[p] = [book[p] EXCEPT !.series = IF @ = s THEN t ELSE @, !.read = IF @ = s THEN t ELSE @]
    BY <1>6 DEF Merge
  <2>3. s \in new => t \in new
    <3> SUFFICES ASSUME s \in Kin(FolderOf(p))' PROVE t \in Kin(FolderOf(p))'
      BY CountOfFolders DEF new
    <3>1. PICK o \in RowsOf(FolderOf(p))' : s \in Survivors(o)'
      BY DEF Kin
    <3>2. t \in Survivors(o)'
      BY <2>1, <3>1 DEF Survivors, Closed
    <3> QED BY <3>1, <3>2 DEF Kin
  <2>4. /\ book'[p].series = IF book[p].series = s THEN t ELSE book[p].series
        /\ book'[p].read = IF book[p].read = s THEN t ELSE book[p].read
        /\ book'[p].opened = book[p].opened
    BY <2>2
  <2>5. s # None
    BY CountOfFolders
  <2> QED BY <1>1, <1>2, <1>3, <2>1, <2>3, <2>4, <2>5
<1>7. ASSUME NEW q \in Reading, OpenBook(q) PROVE BookIsKin(p)'
  <2>1. book' = [book EXCEPT ![q].opened = book[q].series] /\ q \in Paths /\ book[q].series # None
    BY <1>7, FilesAssumption, CountOfFolders DEF OpenBook, Visible, Rows, Paths
  <2>2. CASE q = p
    <3>1. book'[p].series = book[p].series /\ book'[p].opened = book[p].series /\ book'[p].read = book[p].read
      BY <2>1, <2>2
    <3> QED BY <1>1, <1>2, <1>3, <2>1, <2>2, <3>1
  <2> QED BY <1>4, <2>1, <2>2
<1>8. ASSUME NEW q \in Paths, WriteProgress(q) PROVE BookIsKin(p)'
  <2>1. /\ book' = [book EXCEPT ![q].read = IF @ = None THEN book[q].opened ELSE @, ![q].opened = None]
        /\ book[q].opened # None
    BY <1>8 DEF WriteProgress
  <2>2. CASE q = p
    <3>1. /\ book'[p].series = book[p].series /\ book'[p].opened = None
          /\ book'[p].read = IF book[p].read = None THEN book[p].opened ELSE book[p].read
      BY <2>1, <2>2
    <3>2. None \in new
      BY DEF new
    <3> QED BY <1>1, <1>2, <1>3, <2>1, <2>2, <3>1, <3>2
  <2> QED BY <1>4, <2>1, <2>2
<1>9. CASE UNCHANGED book
  BY <1>4, <1>9
<1> QED BY <1>5, <1>6, <1>7, <1>8, <1>9
        DEF Next, Scan, StartScan, WalkRoot, SkipHidden, KnownRow, EndScan, Admin, Hide, Restore, DeleteFiles,
            Delete, DeleteInRoot, DeleteFile, EndDelete, AskRename, Rename, MoveRoot, MoveFails, UndoRoot,
            UndoFails, SaveThrows, Download, StartUpdate, Add, Land, NothingLands

\* What a scan reads of a folder's row is kin.
LEMMA MergedIsKin ==
    ASSUME Sound, NEW f, NEW s \in RowsOf(f), row[s].merged # None
    PROVE  row[s].merged \in Kin(f)
<1>1. s \in Survivors(s)
  BY SurvivesItself DEF RowsOf, Rows
<1>2. row[s].merged \in Survivors(s)
  BY <1>1, SurvivorsClosed
<1> QED BY <1>2 DEF Kin

LEMMA ScansKinStep ==
    ASSUME Sound, AllIsKin, ~split, Next, ~SaveRename, NEW d \in Scanners
    PROVE  ScanIsKin(d)'
<1> USE DEF Sound, ScansAreSound
<1>1. \A f : Kin(f) \subseteq Kin(f)'
  BY KinGrows
<1>2. /\ scan[d].phase # "idle" => \A f \in Folders : scan[d].seen[f] \in {None} \cup Kin(f)
      /\ scan[d].phase = "apply" => scan[d].merged \in {None} \cup Kin(scan[d].folder)
  BY DEF AllIsKin, ScanIsKin
<1>3. ASSUME scan'[d].seen = scan[d].seen,
             scan'[d].phase # "idle" => scan[d].phase # "idle",
             scan'[d].phase = "apply" =>
                /\ scan[d].phase = "apply" /\ scan'[d].merged = scan[d].merged /\ scan'[d].folder = scan[d].folder
      PROVE  ScanIsKin(d)'
  BY <1>1, <1>2, <1>3 DEF ScanIsKin
<1>4. CASE scan'[d] = scan[d]
  BY <1>3, <1>4
<1>5. CASE StartScan(d) \/ EndScan(d)
  <2>1. scan'[d].seen = NotScanning.seen /\ scan'[d].phase \in {"walk", "idle"}
    <3>1. NotScanning.phase = "idle"
      BY DEF NotScanning
    <3>2. CASE StartScan(d)
      <4> DEFINE new == [NotScanning EXCEPT !.phase = "walk", !.roots = Roots,
                                            !.fresh = \A c \in Scanners : scan[c].phase # "idle" => scan[c].fresh]
      <4>1. new.seen = NotScanning.seen /\ new.phase = "walk"
        BY DEF NotScanning
      <4>2. scan'[d] = new
        BY <3>2 DEF StartScan
      <4> HIDE DEF new
      <4> QED BY <4>1, <4>2
    <3>3. CASE EndScan(d)
      BY <3>1, <3>3 DEF EndScan
    <3> QED BY <1>5, <3>2, <3>3
  <2>2. \A f \in Folders : scan'[d].seen[f] = None
    BY <2>1 DEF NotScanning
  <2> QED BY <2>1, <2>2 DEF ScanIsKin
<1>6. CASE WalkRoot(d) \/ \E f \in Folders : SkipHidden(d, f)
  <2>1. scan'[d].seen = scan[d].seen /\ scan'[d].phase = "folders" /\ scan[d].phase # "idle"
    <3>1. ASSUME WalkRoot(d)
          PROVE  scan'[d].seen = scan[d].seen /\ scan'[d].phase = "folders" /\ scan[d].phase # "idle"
      BY <3>1 DEF WalkRoot, NoneLeft, Scans
    <3>2. ASSUME NEW f \in Folders, SkipHidden(d, f)
          PROVE  scan'[d].seen = scan[d].seen /\ scan'[d].phase = "folders" /\ scan[d].phase # "idle"
      BY <3>2 DEF SkipHidden, Found, Scans
    <3> QED BY <1>6, <3>1, <3>2
  <2> QED BY <1>3, <2>1
<1>7. ASSUME NEW f \in Folders, KnownRow(d, f) PROVE ScanIsKin(d)'
  <2> DEFINE m == IF RowsOf(f) = {} THEN None ELSE row[CHOOSE s \in RowsOf(f) : TRUE].merged
  <2>1. scan' = [scan EXCEPT ![d].phase = "apply", ![d].folder = f, ![d].merged = m]
    BY <1>7 DEF KnownRow
  <2>2. m \in {None} \cup Kin(f)
    <3> DEFINE s == CHOOSE s \in RowsOf(f) : TRUE
    <3>1. RowsOf(f) # {} => s \in RowsOf(f)
      OBVIOUS
    <3>2. m = IF RowsOf(f) = {} THEN None ELSE row[s].merged
      OBVIOUS
    <3> HIDE DEF m, s
    <3> QED BY <3>1, <3>2, MergedIsKin
  <2> HIDE DEF m
  <2>3. scan'[d].seen = scan[d].seen /\ scan'[d].folder = f /\ scan'[d].merged = m /\ scan[d].phase # "idle"
    BY <1>7, <2>1 DEF KnownRow, Found, Scans
  <2> QED BY <1>1, <1>2, <2>2, <2>3 DEF ScanIsKin
<1>8. CASE ApplyFolder(d)
  <2>1. PICK f, s : f = scan[d].folder /\ s = SeriesFor(d)
    OBVIOUS
  <2>2. f \in Folders /\ s \in Kin(f)' /\ scan[d].phase = "apply"
    BY <1>8, <2>1, AppliedIsKin DEF ApplyFolder
  <2>3. PICK m : m = IF scan[d].merged # None THEN scan[d].merged ELSE s
    OBVIOUS
  <2>4. m \in Kin(f)'
    BY <1>1, <1>2, <2>1, <2>2, <2>3
  <2>5. scan' = [scan EXCEPT ![d].phase = "folders", ![d].folder = None, ![d].merged = None,
                             ![d].found[f] = {}, ![d].seen[f] = m]
    BY <1>8, <2>1, <2>3 DEF ApplyFolder
  <2>6. /\ \A g \in Folders : scan'[d].seen[g] = IF g = f THEN m ELSE scan[d].seen[g]
        /\ scan'[d].phase = "folders"
    BY <2>2, <2>5 DEF Scans
  <2>7. \A g \in Folders : scan'[d].seen[g] \in {None} \cup Kin(g)'
    BY <1>1, <1>2, <2>2, <2>4, <2>6
  <2> QED BY <2>6, <2>7 DEF ScanIsKin
<1>9. CASE Disturb
  BY <1>3, <1>9, DisturbScans
<1>10. CASE UNCHANGED scan
  BY <1>4, <1>10
<1>11. ASSUME NEW c \in Scanners, Scan(c), c # d
       PROVE  scan'[d] = scan[d]
  BY <1>11 DEF Scan, StartScan, WalkRoot, SkipHidden, KnownRow, ApplyFolder, EndScan
<1> QED BY <1>4, <1>5, <1>6, <1>7, <1>8, <1>9, <1>10, <1>11
        DEF Next, Scan, Admin, AdminAsks, Change, Hide, Restore, Merge, DeleteFiles, Delete, DeleteInRoot,
            DeleteFile, EndDelete, AskRename, Rename, MoveRoot,
            MoveFails, UndoRoot, UndoFails, SaveThrows, Download, StartUpdate, Add, Land, NothingLands, OpenBook,
            WriteProgress

\* A rename of a series that nothing was merged with, while no scan runs,
\* takes every book and every progress row of the folder along.
LEMMA QuietRename ==
    ASSUME Sound, RenameIsOfRow, AllIsKin, ~split, SaveRename, ~split'
    PROVE  AllIsKin'
<1> USE DEF Sound
<1>0. PICK s, from, to : s = request.series /\ from = request.from /\ to = request.to
  OBVIOUS
<1>1. /\ s \in Rows /\ s \in Ids /\ s # None /\ from \in Folders /\ to \in Folders /\ from # to
      /\ row[s].folder = from /\ row[s].merged = None
      /\ \A c \in Scanners : scan[c].phase = "idle"
  BY <1>0, CountOfFolders DEF SaveRename, RequestIsSound, MidRename, RenameIsOfRow, Rows
<1>2. Kin(from) = {s}
  <2>1. RowsOf(from) = {s}
    BY <1>1 DEF RowsOf, RowsAreSound
  <2>2. Survivors(s) = {s}
    <3>1. Closed({s})
      BY <1>1 DEF Closed
    <3> QED BY <1>1, <3>1 DEF Survivors
  <2> QED BY <2>1, <2>2 DEF Kin
<1>3. Kin(to) = {}
  BY <1>0, <1>1 DEF Kin, RowsOf, SaveRename, NameTaken
<1>4. /\ row' = [row EXCEPT ![s].folder = to]
      /\ book' = [p \in Paths |->
                    IF \E q \in Paths : Moves(q) /\ Renamed(q) = p THEN book[<<p[1], from, p[3]>>]
                    ELSE IF Moves(p) THEN NoBook ELSE book[p]]
  BY <1>0 DEF SaveRename
<1>5. \A p \in Paths : BookIsKin(p)
  BY DEF AllIsKin
<1>6. \A p \in Paths : FolderOf(p) = from => Moves(p) \/ book[p] = NoBook
  <2> SUFFICES ASSUME NEW p \in Paths, FolderOf(p) = from, book[p].series # s
               PROVE  book[p] = NoBook
    BY <1>0 DEF Moves, BooksOf
  <2>1. book[p].series = None /\ book[p].opened = None /\ book[p].read = None
    BY <1>2, <1>5 DEF BookIsKin
  <2> QED BY <2>1 DEF BooksAreSound, NoBook
<1>7. Rows' = Rows /\ \A t \in Ids : row'[t].merged = row[t].merged /\ (t # s => row'[t] = row[t])
  BY <1>1, <1>4, FoldersAssumption DEF Rows, NoRow, RowsAreSound
<1>8. \A t : Survivors(t)' = Survivors(t)
  BY <1>7 DEF Survivors, Closed
<1>9. row'[s].folder = to
  BY <1>1, <1>4 DEF RowsAreSound
<1>10. s \in Kin(to)'
  <2>1. s \in Survivors(s)' /\ s \in RowsOf(to)'
    BY <1>1, <1>7, <1>8, <1>9, SurvivesItself DEF RowsOf
  <2> QED BY <2>1 DEF Kin
<1>11. \A f : f \notin {from, to} => Kin(f) \subseteq Kin(f)'
  <2>1. ASSUME NEW f, f \notin {from, to}, NEW t \in RowsOf(f) PROVE t \in RowsOf(f)'
    BY <1>1, <1>7, <2>1 DEF RowsOf, Rows
  <2> QED BY <1>8, <2>1 DEF Kin
<1>12. ASSUME NEW p \in Paths PROVE BookIsKin(p)'
  <2>1. CASE FolderOf(p) = from
    <3>1. ~ \E q \in Paths : Moves(q) /\ Renamed(q) = p
      BY <1>0, <1>1, <2>1 DEF Renamed, FolderOf
    <3>2. book'[p] = NoBook
      BY <1>4, <1>6, <2>1, <3>1
    <3> QED BY <3>2 DEF BookIsKin, NoBook
  <2>2. CASE FolderOf(p) = to
    <3> DEFINE o == <<p[1], from, p[3]>>
    <3>1. o \in Paths /\ FolderOf(o) = from
      BY <1>1 DEF Paths, FolderOf
    <3>2. book[p].series = None /\ book[p].opened = None /\ book[p].read = None
      BY <1>3, <1>5, <2>2 DEF BookIsKin
    <3>3. ~Moves(p)
      BY <1>0, <1>1, <2>2 DEF Moves
    <3>4. book'[p] = book[o] \/ book'[p] = book[p]
      BY <1>4, <3>3
    <3>5. CASE book'[p] = book[p]
      BY <3>2, <3>5 DEF BookIsKin
    <3>6. CASE book'[p] = book[o]
      <4>1. /\ book[o].series \in {None, s} /\ book[o].opened \in {None, s} /\ book[o].read \in {None, s}
            /\ book[o].opened # None \/ book[o].read # None => book[o].series # None
        BY <1>2, <1>5, <3>1 DEF BookIsKin
      <4> HIDE DEF o
      <4>2. /\ book'[p].series \in {None} \cup Kin(to)' /\ book'[p].opened \in {None} \cup Kin(to)'
            /\ book'[p].read \in {None} \cup Kin(to)'
            /\ book'[p].opened # None \/ book'[p].read # None => book'[p].series # None
        BY <1>10, <3>6, <4>1
      <4>3. Kin(FolderOf(p))' = Kin(to)'
        BY <2>2 DEF FolderOf
      <4> QED BY <4>2, <4>3 DEF BookIsKin, FolderOf
    <3> QED BY <3>4, <3>5, <3>6
  <2>3. CASE FolderOf(p) \notin {from, to}
    <3>1. ~Moves(p) /\ ~ \E q \in Paths : Moves(q) /\ Renamed(q) = p
      BY <1>0, <2>3 DEF Moves, Renamed, FolderOf
    <3>2. book'[p] = book[p]
      BY <1>4, <3>1
    <3>3. Kin(FolderOf(p)) \subseteq Kin(FolderOf(p))'
      BY <1>11, <2>3
    <3> QED BY <1>5, <3>2, <3>3 DEF BookIsKin, FolderOf
  <2> QED BY <2>1, <2>2, <2>3
<1>13. \A c \in Scanners : scan'[c].phase = "idle"
  BY <1>1, DisturbScans DEF SaveRename
<1>14. \A c \in Scanners : ScanIsKin(c)'
  BY <1>13 DEF ScanIsKin
<1> QED BY <1>12, <1>14 DEF AllIsKin, Paths

LEMMA KinStep ==
    ASSUME Sound, RenameIsOfRow, AllIsKin, Next
    PROVE  AllIsKin'
<1>1. CASE SaveRename
  <2>1. ~split' => ~split
    BY <1>1 DEF SaveRename
  <2> QED BY <1>1, <2>1, QuietRename DEF AllIsKin
<1>2. CASE ~SaveRename
  <2>1. split' = split
    BY <1>2
       DEF Next, Scan, StartScan, WalkRoot, SkipHidden, KnownRow, ApplyFolder, EndScan, Admin, Hide, Restore, Merge,
           DeleteFiles, Delete, DeleteInRoot, DeleteFile, EndDelete, AskRename, Rename, MoveRoot, MoveFails, UndoRoot,
           UndoFails, SaveThrows, Download, StartUpdate, Add, Land, NothingLands, OpenBook, WriteProgress
  <2> QED BY <1>2, <2>1, BooksKinStep, ScansKinStep DEF AllIsKin, Paths
<1> QED BY <1>1, <1>2

LEMMA OfRowStep ==
    ASSUME Sound, RenameIsOfRow, Next
    PROVE  RenameIsOfRow'
<1> USE DEF Sound
<1>1. ASSUME NEW s \in Ids, NEW f \in Folders, AskRename(s, f)
      PROVE  RenameIsOfRow'
  BY <1>1 DEF AskRename, RenameIsOfRow
<1>2. CASE request'.phase \in {"idle", "deleting"}
  BY <1>2 DEF RenameIsOfRow, MidRename
<1>3. ASSUME ~SaveRename, MidRename, request'.series = request.series, request'.from = request.from
      PROVE  RenameIsOfRow'
  BY <1>3, FoldersStay DEF RenameIsOfRow, RequestIsSound
<1>4. CASE SaveRename \/ UndoFails \/ SaveThrows \/ EndDelete
  BY <1>2, <1>4 DEF SaveRename, UndoFails, SaveThrows, EndDelete, NoRequest
<1>5. ASSUME NEW r \in Roots, MoveRoot(r) \/ MoveFails(r) \/ UndoRoot(r), ~SaveRename
      PROVE  RenameIsOfRow'
  <2>1. CASE request' = NoRequest
    BY <1>2, <2>1 DEF NoRequest
  <2>2. CASE request' # NoRequest
    <3>1. MidRename /\ request'.series = request.series /\ request'.from = request.from
      BY <1>5, <2>2 DEF MoveRoot, MoveFails, UndoRoot, MidRename, RequestIsSound
    <3> QED BY <1>3, <1>5, <3>1
  <2> QED BY <2>1, <2>2
<1>6. ASSUME NEW r \in Roots, DeleteInRoot(r)
      PROVE  RenameIsOfRow'
  BY <1>2, <1>6 DEF DeleteInRoot, RequestIsSound
<1>7. ASSUME NEW s \in Ids, DeleteFiles(s)
      PROVE  RenameIsOfRow'
  BY <1>2, <1>7 DEF DeleteFiles, NoRequest
<1>8. CASE UNCHANGED request /\ ~SaveRename
  <2>1. CASE MidRename
    BY <1>3, <1>8, <2>1
  <2>2. CASE ~MidRename
    BY <1>8, <2>2 DEF RenameIsOfRow, MidRename
  <2> QED BY <2>1, <2>2
<1> QED BY <1>1, <1>4, <1>5, <1>6, <1>7, <1>8
        DEF Next, Scan, StartScan, WalkRoot, SkipHidden, KnownRow, ApplyFolder, EndScan, Admin, Hide, Restore, Merge,
            Delete, DeleteFile, Rename, Download, StartUpdate, Add, Land, NothingLands, OpenBook, WriteProgress

-----------------------------------------------------------------------------
(* The inductive invariant *)

LEMMA InitIInv == Init => IInv
<1> SUFFICES ASSUME Init PROVE IInv
  OBVIOUS
<1>1. Sound
  BY SoundInit
<1>2. RenameIsHalfWay /\ RenameIsOfRow
  BY DEF Init, RenameIsHalfWay, RenameIsOfRow, MidRename, NoRequest
<1>3. \A c \in Scanners : scan[c] = NotScanning
  BY DEF Init
<1>4. ScansAgree /\ FreshScans /\ SettledIsShelved
  BY <1>3 DEF Init, ScansAgree, FreshScans, SettledIsShelved, NotScanning
<1>5. \A p \in Paths : BookIsKin(p)
  BY DEF Init, BookIsKin, NoBook
<1>6. \A c \in Scanners : ScanIsKin(c)
  BY <1>3 DEF ScanIsKin, NotScanning
<1> QED BY <1>1, <1>2, <1>4, <1>5, <1>6 DEF IInv, AllIsKin

LEMMA NextIInv == IInv /\ [Next]_vars => IInv'
<1> SUFFICES ASSUME IInv, [Next]_vars PROVE IInv'
  OBVIOUS
<1>1. CASE Next
  BY <1>1, SoundStep, HalfWayStep, OfRowStep, AgreeStep, FreshStep, SettledStep, KinStep DEF IInv
<1>2. CASE UNCHANGED vars
  <2> USE <1>2 DEF vars
  <2>1. Rows' = Rows /\ \A f : RowsOf(f)' = RowsOf(f)
    BY DEF Rows, RowsOf
  <2>2. Sound'
    BY <2>1 DEF IInv, Sound, Known, RowsAreSound, BooksAreSound, ScansAreSound, RequestIsSound, MidRename, RestIsSound
  <2>3. RenameIsHalfWay' /\ RenameIsOfRow'
    BY DEF IInv, RenameIsHalfWay, RenameIsOfRow, MidRename, Renamed, FolderOf
  <2>4. ScansAgree'
    BY DEF IInv, ScansAgree
  <2>5. \A p : Shelved(p)' = Shelved(p)
    BY <2>1 DEF Shelved, MergedInto, FolderOf
  <2>6. FreshScans'
    BY <2>1, <2>5 DEF IInv, FreshScans, Remembers, MergedInto, ToCome, FolderOf
  <2>7. SettledIsShelved'
    BY <2>5 DEF IInv, SettledIsShelved
  <2>8. AllIsKin'
    <3>1. \A f : Kin(f)' = Kin(f)
      BY <2>1 DEF Kin, Survivors, Closed
    <3> QED BY <3>1 DEF IInv, AllIsKin, BookIsKin, ScanIsKin, FolderOf
  <2> QED BY <2>2, <2>3, <2>4, <2>6, <2>7, <2>8 DEF IInv
<1> QED BY <1>1, <1>2

LEMMA InductiveInvariant == Spec => []IInv
  BY InitIInv, NextIInv, PTL DEF Spec

-----------------------------------------------------------------------------
(* The theorems *)

\* migrate.ts, lib_series and lib_books: whatever scans, merges, renames,
\* downloads and reads overlap, a folder has one row at most, every book and
\* every progress row names a series that is there, and a request or a scan
\* in flight holds what its phase says.
THEOREM TypeCorrect == Spec => []TypeOK
<1>1. Sound => TypeOK
  BY DEF Sound, TypeOK, RowsAreSound, BooksAreSound, ScansAreSound, RequestIsSound, RestIsSound, Known
<1> QED BY <1>1, InductiveInvariant, PTL DEF IInv

\* library.ts:440-475: a scan that nothing disturbed leaves no file of a
\* shown folder without its book, nor two roots' copies in two series, even
\* when other scans of the same folders ran between its transactions; and
\* the series is the folder's own or one that it was merged into.
THEOREM ScansShelve == Spec => []ScanShelvesEverything
<1>1. ASSUME Sound, SettledIsShelved
      PROVE  ScanShelvesEverything
  <2> SUFFICES ASSUME settled, NEW p \in disk
               PROVE  \E s \in RowsOf(FolderOf(p)) :
                        \/ row[s].deleted
                        \/ \E t \in Survivors(MergedInto(s)) :
                             \A q \in disk : FolderOf(q) = FolderOf(p) => book[q].series = t
    BY DEF ScanShelvesEverything
  <2>1. PICK s \in RowsOf(FolderOf(p)) : row[s].deleted \/ book[p].series = MergedInto(s)
    BY <1>1 DEF SettledIsShelved, Shelved
  <2>2. CASE ~row[s].deleted
    <3>1. MergedInto(s) \in Survivors(MergedInto(s))
      <4>1. MergedInto(s) \in Ids
        BY <1>1 DEF MergedInto, RowsOf, Rows, Sound, RowsAreSound, Known
      <4> QED BY <4>1, SurvivesItself
    <3>2. ASSUME NEW q \in disk, FolderOf(q) = FolderOf(p)
          PROVE  book[q].series = MergedInto(s)
      <4>1. PICK u \in RowsOf(FolderOf(p)) : row[u].deleted \/ book[q].series = MergedInto(u)
        BY <1>1, <3>2 DEF SettledIsShelved, Shelved
      <4>2. u = s
        BY <1>1 DEF Sound, RowsAreSound, RowsOf
      <4> QED BY <2>2, <4>1, <4>2
    <3> QED BY <3>1, <3>2
  <2> QED BY <2>1, <2>2
<1> QED BY <1>1, InductiveInvariant, PTL DEF IInv

\* libraryAdmin.ts:9-13: progress that was filed under a series is in the one
\* its chapter is in now, or merges lead the two together, however many
\* merges, scans, renames and late writes came between; until a rename takes
\* effect under a scan or of a row that was merged away.
THEOREM ReadStays == Spec => []ReadStaysWithItsSeries
<1>1. ASSUME Sound, AllIsKin
      PROVE  ReadStaysWithItsSeries
  <2> SUFFICES ASSUME ~split, NEW p \in Paths, book[p].read # None
               PROVE  /\ book[p].series # None
                      /\ Survivors(book[p].read) \cap Survivors(book[p].series) # {}
    BY DEF ReadStaysWithItsSeries
  <2> DEFINE a == book[p].read
             b == book[p].series
  <2>1. b # None /\ a \in Kin(FolderOf(p)) /\ b \in Kin(FolderOf(p))
    BY <1>1 DEF AllIsKin, BookIsKin
  <2>2. PICK o \in RowsOf(FolderOf(p)) : a \in Survivors(o)
    BY <2>1 DEF Kin
  <2>3. PICK q \in RowsOf(FolderOf(p)) : b \in Survivors(q)
    BY <2>1 DEF Kin
  <2>4. q = o /\ o \in Ids
    BY <1>1 DEF Sound, RowsAreSound, RowsOf, Rows
  <2>5. a \in Ids /\ b \in Ids
    BY <2>2, <2>3 DEF Survivors
  <2> HIDE DEF a, b
  <2>6. b \in Survivors(a) \/ a \in Survivors(b)
    BY <1>1, <2>2, <2>3, <2>4, SurvivorsInLine
  <2>7. Survivors(a) \cap Survivors(b) # {}
    BY <2>5, <2>6, SurvivesItself
  <2> QED BY <2>1, <2>7 DEF a, b
<1> QED BY <1>1, InductiveInvariant, PTL DEF IInv

\* libraryAdmin.ts:261-295: a rename that ends has moved the files of all the
\* roots it knew of, and its row and books are saved, or it has changed
\* nothing, whichever roots they are and whatever landed meanwhile.  Only the
\* answer "inconsistent" ends one half way, and only a transaction that fails
\* leaves files moved and the row behind.
THEOREM RenamesAllOrNone == Spec => RenamesKnownRootsOrNone
<1>1. ASSUME IInv, [Next]_vars, RenameOver, ~UndoFails
      PROVE  Unmoved \/ (AllMoved /\ (Saved \/ SaveThrows))
  <2>1. CASE Next
    BY <1>1, <2>1, RenameEnds DEF IInv
  <2>2. CASE UNCHANGED vars
    BY <1>1, <2>2 DEF vars, RenameOver
  <2> QED BY <1>1, <2>1, <2>2
<1>2. IInv /\ [Next]_vars =>
        [RenameOver /\ ~UndoFails => Unmoved \/ (AllMoved /\ (Saved \/ SaveThrows))]_vars
  BY <1>1
<1> QED BY <1>2, InductiveInvariant, PTL DEF Spec, RenamesKnownRootsOrNone

=============================================================================
