----------------------------- MODULE JobsProofs -----------------------------
(***************************************************************************)
(* For any requests, folders and chapters: a card tells the truth, and the *)
(* busy check holds back a fill.  For any library and any list of numbers: *)
(* what a fill is authorised to fetch repairs the library.                 *)
(***************************************************************************)
EXTENDS Jobs, FiniteSetTheorems, TLAPS

-----------------------------------------------------------------------------
(* The decisions of fill.ts *)

Numbers == SUBSET Nat

LEMMA Halves ==
    /\ \A m \in Nat : m \div 2 \in Nat /\ 2 * (m \div 2) <= m /\ m <= 2 * (m \div 2) + 1
    /\ \A m \in Nat : ~Fraction(m) => m = 2 * (m \div 2)
  BY DEF Fraction

\* A hole lies between two neighbours of the list.
LEMMA HolesLieBetween ==
    ASSUME NEW whole \in Numbers, NEW g \in Holes(whole)
    PROVE  \E a \in whole, b \in whole :
              a + 1 < b /\ whole \cap (a + 1 .. b - 1) = {} /\ g.lo = a + 1 /\ g.hi = b - 1
<1>1. PICK ab \in whole \X whole :
          /\ ab[1] + 1 < ab[2] /\ whole \cap (ab[1] + 1 .. ab[2] - 1) = {}
          /\ g = [lo |-> ab[1] + 1, hi |-> ab[2] - 1]
  BY DEF Holes
<1> QED BY <1>1

LEMMA RepairsAll == ASSUME NEW have \in Numbers, NEW theirs \in Numbers PROVE Repairs(have, theirs)
<1> DEFINE ours == Whole(have)
           them == Whole(theirs)
<1>1. ours \in Numbers /\ them \in Numbers
  BY Halves DEF Whole, Numbers
<1> SUFFICES ASSUME NEW n \in them, NEW c \in authorise(have, theirs, {n})
             PROVE  /\ c = 2 * n /\ n \notin ours
                    /\ \/ \A m \in have : m < c
                       \/ \E a \in ours \cap them, b \in ours \cap them :
                            a < n /\ n < b /\ ours \cap (a + 1 .. b - 1) = {}
  BY DEF Repairs
<1>2. c = 2 * n /\ n \in Offered(have, theirs)
  BY DEF authorise
<1>3. CASE n \in assess(have, theirs).newer
  <2>1. \A m \in have : m < 2 * n
    BY <1>3 DEF assess
  <2>2. n \notin ours
    <3> SUFFICES ASSUME NEW m \in have, n = m \div 2 PROVE FALSE
      BY DEF Whole
    <3>1. m \in Nat /\ n \in Nat /\ 2 * n <= m /\ m < 2 * n
      BY <2>1, <1>1, Halves DEF Numbers
    <3> QED BY <3>1
  <2> QED BY <1>2, <2>1, <2>2
<1>4. CASE n \in assess(have, theirs).fillable
  <2>1. PICK g \in gapsOf(have) : g.lo - 1 \in them /\ g.hi + 1 \in them /\ n \in g.lo .. g.hi
    BY <1>4 DEF assess
  <2>2. PICK a \in ours, b \in ours :
            a + 1 < b /\ ours \cap (a + 1 .. b - 1) = {} /\ g.lo = a + 1 /\ g.hi = b - 1
    <3>1. ours \in Numbers /\ g \in Holes(ours)
      BY <1>1, <2>1 DEF gapsOf
    <3> HIDE DEF ours
    <3> QED BY <3>1, HolesLieBetween
  <2>3. a \in Nat /\ b \in Nat /\ n \in Nat
    BY <1>1 DEF Numbers
  <2>4. a \in them /\ b \in them /\ a < n /\ n < b /\ n \notin ours
    BY <2>1, <2>2, <2>3
  <2> QED BY <1>2, <2>2, <2>4
<1> QED BY <1>2, <1>3, <1>4 DEF Offered

LEMMA KeepsAll == ASSUME NEW have \in Numbers, NEW theirs \in Numbers PROVE Keeps(have, theirs)
<1> SUFFICES ASSUME verdict(have, theirs) = "ok", \A c \in theirs : ~Fraction(c), NEW n \in Offered(have, theirs)
             PROVE  authorise(have, theirs, {n}) = {2 * n}
  BY DEF Keeps
<1>1. n \in Whole(theirs)
  BY DEF Offered, assess
<1>2. 2 * n \in theirs
  BY <1>1, Halves DEF Whole, Numbers
<1> QED BY <1>2 DEF authorise

-----------------------------------------------------------------------------
(* The inductive invariant of the jobs *)

\* A request that has not begun has no card.
Waiting ==
    \A r \in Requests :
        /\ work[r].at \in {"new", "looked"} => cards[r] = "unused"
        /\ At(r, "new") => Folder(r) = None
        /\ work[r].at \in {"new", "looked"} => work[r].todo = work[r].wanted

\* Whoever works on a folder beside the card on the board shares it.
OnBoard ==
    \A f \in Folders : jobs[f] # None =>
        /\ cards[jobs[f]] # "unused" /\ Folder(jobs[f]) = f
        /\ \A s \in Requests \ {jobs[f]} : Working(s, f) => jobs[f] \in shared

Together == \A f \in Folders, r, s \in Requests : r # s /\ Working(r, f) /\ Working(s, f) => r \in shared

\* A card that a fill took hold of is its own or a shared one.
Held ==
    \A s \in Requests : work[s].card # None =>
        /\ cards[work[s].card] # "unused"
        /\ work[s].card # s => work[s].card \in shared

\* A card that is not shared is on the board, and says so, while its worker works.
OwnCard ==
    \A r \in Requests \ shared :
        /\ work[r].at \in {"first", "scan", "loop", "noting"} => jobs[Folder(r)] = r /\ cards[r] = "downloading"
        /\ At(r, "noting") => work[r].card = r
        /\ At(r, "tail") => \/ cards[r] = "error"
                            \/ jobs[Folder(r)] = r /\ cards[r] = "downloading" /\ work[r].todo = {}

\* A chapter that was asked for is there, is still to come, or has failed.
Accounted ==
    \A r \in Requests : work[r].at \in Active =>
        work[r].failed \/ work[r].wanted \subseteq disk[Folder(r)] \cup work[r].todo

IInv == TypeOK /\ Waiting /\ OnBoard /\ Together /\ Held /\ OwnCard /\ Accounted /\ CardsTellTheTruth

Statuses == {"unused", "downloading", "done", "error"}

LEMMA InitIInv == Init => IInv
<1> SUFFICES ASSUME Init PROVE IInv
  OBVIOUS
<1>1. \A r \in Requests : work[r] = NoWork /\ NoWork \in WorkType /\ NoWork.at = "new" /\ NoWork.folder = None
                          /\ NoWork.todo = {} /\ NoWork.wanted = {} /\ NoWork.card = None
  BY DEF Init, NoWork, Begun, WorkType, Places, Kinds
<1>2. TypeOK
  <2>1. work \in [Requests -> WorkType]
    BY <1>1 DEF Init
  <2> QED BY <2>1, <1>1 DEF Init, TypeOK, Active
<1>3. Waiting /\ OnBoard /\ Together /\ Held /\ OwnCard /\ Accounted /\ CardsTellTheTruth
  BY <1>1 DEF Init, Waiting, OnBoard, Together, Held, OwnCard, Accounted, CardsTellTheTruth, At, Folder, Working, Active
<1> QED BY <1>2, <1>3 DEF IInv

-----------------------------------------------------------------------------
(* What a worker may do *)

Others(r) == \A s \in Requests : s # r => work'[s] = work[s]

\* What every step of a worker does with its own record ...
Moves(r, place) ==
    /\ work' \in [Requests -> WorkType] /\ Others(r)
    /\ work'[r].at = place
    /\ work'[r].folder = work[r].folder /\ work'[r].wanted = work[r].wanted
    /\ work'[r].todo \subseteq work[r].todo
    /\ work'[r].card # None =>
          cards[work'[r].card] # "unused" /\ (work'[r].card # r => work'[r].card \in shared)

\* ... with files and rows ...
Stays ==
    /\ row' \in [Folders -> {"absent", "shown", "deleted"}]
    /\ disk' \in [Folders -> SUBSET Chapters]
    /\ \A f \in Folders : disk[f] \subseteq disk'[f]

\* ... and with the board: no card but its own and shared ones is written,
\* and none is taken off but the one of its folder.
Reports(r) ==
    /\ jobs' \in [Folders -> Requests \cup {None}]
    /\ \A f \in Folders : jobs'[f] = jobs[f] \/ (jobs'[f] = None /\ f = work[r].folder)
    /\ shared' = shared /\ told' \subseteq Requests /\ told \subseteq told'
    /\ cards' \in [Requests -> Statuses]
    /\ \A c \in Requests : cards'[c] = cards[c]
                           \/ ((c = r \/ c \in shared) /\ cards[c] # "unused" /\ cards'[c] # "unused")

\* What it must answer for itself.
Answers(r) ==
    /\ r \notin shared =>
          /\ work'[r].at \in {"first", "scan", "loop", "noting"} =>
                jobs'[work[r].folder] = r /\ cards'[r] = "downloading"
          /\ work'[r].at = "noting" => work'[r].card = r
          /\ work'[r].at = "tail" =>
                cards'[r] = "error" \/ (jobs'[work[r].folder] = r /\ cards'[r] = "downloading" /\ work'[r].todo = {})
          /\ cards'[r] = "done" => work[r].wanted \subseteq disk'[work[r].folder]
          /\ work'[r].at = "over" /\ ~(work[r].wanted \subseteq disk'[work[r].folder]) =>
                r \in told' \/ cards'[r] = "error"
    /\ work'[r].at \in Active =>
          work'[r].failed \/ work[r].wanted \subseteq disk'[work[r].folder] \cup work'[r].todo

LEMMA AtWork ==
    ASSUME IInv, NEW r \in Requests, work[r].at \in Active, NEW place \in Active \cup {"over"},
           Moves(r, place), Stays, Reports(r), Answers(r)
    PROVE  IInv'
<1> USE DEF Moves, Stays, Reports
<1>0. Active = {"first", "scan", "loop", "noting", "tail"} /\ None \notin Requests \cup Folders
      /\ work[r].folder \in Folders
  BY NoneAssumption DEF Active, IInv, TypeOK
<1>1. TypeOK'
  BY <1>0 DEF IInv, TypeOK, Others, Statuses
<1>2. Waiting'
  BY <1>0 DEF IInv, Waiting, Others, At, Folder
<1>3. \A f \in Folders, s \in Requests : Working(s, f)' => Working(s, f)
  BY <1>0 DEF Working, Folder, Others
<1>4. OnBoard'
  <2> SUFFICES ASSUME NEW f \in Folders, jobs'[f] # None
               PROVE  /\ cards'[jobs'[f]] # "unused" /\ work'[jobs'[f]].folder = f
                      /\ \A s \in Requests \ {jobs'[f]} : Working(s, f)' => jobs'[f] \in shared'
    BY DEF OnBoard, Folder
  <2>1. jobs'[f] = jobs[f] /\ jobs[f] \in Requests
    BY DEF IInv, TypeOK
  <2>2. cards[jobs[f]] # "unused" /\ Folder(jobs[f]) = f
        /\ \A s \in Requests \ {jobs[f]} : Working(s, f) => jobs[f] \in shared
    BY <2>1 DEF IInv, OnBoard
  <2>3. cards'[jobs[f]] # "unused"
    BY <2>1, <2>2
  <2>4. work'[jobs[f]].folder = f
    BY <2>1, <2>2 DEF Folder, Others
  <2> QED BY <2>1, <2>2, <2>3, <2>4, <1>3
<1>5. Together'
  BY <1>3 DEF IInv, Together
<1>6. Held'
  <2> SUFFICES ASSUME NEW s \in Requests, work'[s].card # None
               PROVE  cards'[work'[s].card] # "unused" /\ (work'[s].card # s => work'[s].card \in shared')
    BY DEF Held
  <2>1. cards[work'[s].card] # "unused" /\ (work'[s].card # s => work'[s].card \in shared)
    BY DEF IInv, Held, Others
  <2>2. work'[s].card \in Requests
    BY DEF WorkType
  <2> QED BY <2>1, <2>2
<1>7. OwnCard'
  <2> SUFFICES ASSUME NEW s \in Requests, s \notin shared
               PROVE  /\ work'[s].at \in {"first", "scan", "loop", "noting"} => jobs'[work'[s].folder] = s /\ cards'[s] = "downloading"
                      /\ work'[s].at = "noting" => work'[s].card = s
                      /\ work'[s].at = "tail" => \/ cards'[s] = "error"
                                                 \/ jobs'[work'[s].folder] = s /\ cards'[s] = "downloading" /\ work'[s].todo = {}
    BY DEF OwnCard, At, Folder
  <2>1. CASE s = r
    BY <2>1 DEF Answers
  <2>2. CASE s # r
    <3>1. work'[s] = work[s] /\ cards'[s] = cards[s]
      BY <2>2 DEF Others
    <3>2. work[s].at \in Active => work[s].folder \in Folders /\ work[s].folder # work[r].folder
      BY <2>2, <1>0 DEF IInv, TypeOK, Together, Working, Folder
    <3>3. work[s].at \in Active => jobs'[work[s].folder] = jobs[work[s].folder]
      BY <3>2
    <3> QED BY <1>0, <3>1, <3>3 DEF IInv, OwnCard, At, Folder
  <2> QED BY <2>1, <2>2
<1>8. Accounted'
  <2> SUFFICES ASSUME NEW s \in Requests, work'[s].at \in Active
               PROVE  work'[s].failed \/ work'[s].wanted \subseteq disk'[work'[s].folder] \cup work'[s].todo
    BY DEF Accounted, Folder, Active
  <2>1. CASE s = r
    BY <2>1 DEF Answers
  <2>2. CASE s # r
    <3>1. work'[s] = work[s] /\ work[s].folder \in Folders
      BY <2>2 DEF Others, IInv, TypeOK
    <3> QED BY <3>1 DEF IInv, Accounted, Folder
  <2> QED BY <2>1, <2>2
<1>9. CardsTellTheTruth'
  <2> SUFFICES ASSUME NEW s \in Requests, work'[s].folder # None, s \notin shared PROVE CardTellsTheTruth(s)'
    BY DEF CardsTellTheTruth, Folder
  <2>1. CASE s = r
    BY <2>1 DEF Answers, CardTellsTheTruth, At, Folder
  <2>2. CASE s # r
    <3>1. work'[s] = work[s] /\ cards'[s] = cards[s] /\ work[s] \in WorkType
      BY <2>2 DEF Others, IInv, TypeOK
    <3>2. work[s].folder \in Folders
      BY <3>1 DEF WorkType
    <3>3. CardTellsTheTruth(s)
      BY <3>1 DEF IInv, CardsTellTheTruth, Folder
    <3> QED BY <3>1, <3>2, <3>3 DEF CardTellsTheTruth, At, Folder
  <2> QED BY <2>1, <2>2
<1> QED BY <1>1, <1>2, <1>4, <1>5, <1>6, <1>7, <1>8, <1>9 DEF IInv

\* The card on the board of a worker's folder is its own or a shared one, and
\* what the worker writes on it keeps the statuses.
LEMMA CardOfWorker ==
    ASSUME IInv, NEW r \in Requests, work[r].at \in Active
    PROVE  /\ Card(r) # None => Card(r) \in Requests /\ cards[Card(r)] # "unused"
                                /\ (Card(r) # r => Card(r) \in shared)
           /\ work[r].folder \in Folders
           /\ work[r].card # None => work[r].card \in Requests /\ cards[work[r].card] # "unused"
                                     /\ (work[r].card # r => work[r].card \in shared)
<1>1. work[r].folder \in Folders /\ work[r] \in WorkType
  BY DEF IInv, TypeOK
<1>2. Card(r) \in Requests \cup {None} /\ work[r].card \in Requests \cup {None}
  BY <1>1 DEF IInv, TypeOK, Card, Folder, WorkType
<1>3. Working(r, work[r].folder)
  BY DEF Working, Folder
<1> QED BY <1>1, <1>2, <1>3 DEF IInv, OnBoard, Held, Card, Folder

LEMMA Untouched ==
    ASSUME IInv, NEW r \in Requests
    PROVE  /\ UNCHANGED <<row, disk>> => Stays
           /\ UNCHANGED <<jobs, cards, told, shared>> => Reports(r)
  BY DEF IInv, TypeOK, Stays, Reports, Statuses

\* A report on a card.
LEMMA Closing ==
    ASSUME IInv, NEW r \in Requests, work[r].at \in Active,
           NEW c \in {Card(r), work[r].card}, NEW status \in {"done", "error"}, Close(c, status),
           UNCHANGED <<jobs, told, shared>>
    PROVE  /\ Reports(r)
           /\ c = r => cards'[r] = status
<1>1. c # None => c \in Requests /\ cards[c] # "unused" /\ (c = r \/ c \in shared)
  BY CardOfWorker
<1>2. cards \in [Requests -> Statuses] /\ jobs \in [Folders -> Requests \cup {None}] /\ told \subseteq Requests
  BY DEF IInv, TypeOK, Statuses
<1>3. r # None
  BY NoneAssumption
<1>4. cards' \in [Requests -> Statuses] /\ (c = r => cards'[r] = status)
  BY <1>2, <1>3 DEF Close, Statuses
<1>5. \A d \in Requests : cards'[d] = cards[d] \/ ((d = r \/ d \in shared) /\ cards[d] # "unused" /\ cards'[d] # "unused")
  BY <1>1, <1>2 DEF Close
<1> QED BY <1>2, <1>4, <1>5 DEF Reports

LEMMA FailedIsBoolean == ASSUME IInv, NEW r \in Requests PROVE work[r].failed \in BOOLEAN
  BY DEF IInv, TypeOK, WorkType

\* A worker that goes on, with no more to do than before.
LEMMA MovesOn ==
    ASSUME IInv, NEW r \in Requests, work[r].at \in Active,
           NEW place \in Active \cup {"over"}, NEW todo \in SUBSET work[r].todo, NEW failed \in BOOLEAN,
           GoesOn(r, place, todo, failed)
    PROVE  Moves(r, place) /\ (work'[r].failed <=> failed) /\ work'[r].todo = todo
<1>1. work \in [Requests -> WorkType] /\ todo \in SUBSET Chapters /\ place \in Places /\ work[r] \in WorkType
  BY DEF IInv, TypeOK, WorkType, Active, Places
<1>2. work' = [work EXCEPT ![r] = [at |-> place, kind |-> work[r].kind, folder |-> work[r].folder,
                                   wanted |-> work[r].wanted, todo |-> todo, failed |-> failed,
                                   card |-> None, refused |-> FALSE]]
  BY DEF GoesOn, Becomes, Folder
<1>3. [at |-> place, kind |-> work[r].kind, folder |-> work[r].folder, wanted |-> work[r].wanted,
       todo |-> todo, failed |-> failed, card |-> None, refused |-> FALSE] \in WorkType
  BY <1>1 DEF WorkType
<1> QED BY <1>1, <1>2, <1>3 DEF Moves, Others

LEMMA FirstFailsStep == ASSUME IInv, NEW r \in Requests, FirstFails(r) PROVE IInv'
<1> USE DEF FirstFails
<1>0. work[r].at = "first" /\ work[r].at \in Active /\ "over" \in Active \cup {"over"} /\ "over" \notin Active
  BY DEF At, Active
<1>1. Moves(r, "over")
  BY <1>0, FailedIsBoolean, MovesOn DEF Leave
<1>2. Stays
  BY Untouched
<1>3. r \notin shared => jobs[work[r].folder] = r
  BY <1>0 DEF IInv, OwnCard, Folder
<1>4. CASE work[r].kind = "add"
  <2>1. UNCHANGED <<jobs, told, shared>> /\ Close(Card(r), "error")
    BY <1>4
  <2>2. Reports(r) /\ (r \notin shared => cards'[r] = "error")
    BY <1>0, <1>3, <2>1, Closing DEF Card, Folder
  <2>3. Answers(r)
    BY <1>0, <1>1, <2>2 DEF Answers, Moves
  <2> QED BY <1>0, <1>1, <1>2, <2>2, <2>3, AtWork
<1>5. CASE work[r].kind # "add"
  <2>1. cards' = cards /\ told' = told \cup {r} /\ shared' = shared /\ jobs' = [jobs EXCEPT ![work[r].folder] = None]
    BY <1>5 DEF Folder
  <2>2. cards \in [Requests -> Statuses] /\ jobs \in [Folders -> Requests \cup {None}] /\ told \subseteq Requests
    BY DEF IInv, TypeOK, Statuses
  <2>3. Reports(r)
    BY <2>1, <2>2 DEF Reports
  <2>4. r \notin shared => cards[r] = "downloading"
    BY <1>0 DEF IInv, OwnCard
  <2>5. Answers(r)
    BY <1>0, <1>1, <2>1, <2>4 DEF Answers, Moves
  <2> QED BY <1>0, <1>1, <1>2, <2>3, <2>5, AtWork
<1> QED BY <1>4, <1>5

\* A chapter lands.
LEMMA Landed ==
    ASSUME IInv, NEW r \in Requests, work[r].at \in Active, NEW c \in Chapters, Lands(r, c), row' = row
    PROVE  Stays /\ c \in disk'[work[r].folder]
  BY CardOfWorker DEF IInv, TypeOK, Lands, Folder, Stays

LEMMA FirstLandsStep == ASSUME IInv, NEW r \in Requests, FirstLands(r) PROVE IInv'
<1> USE DEF FirstLands
<1>0. work[r].at = "first" /\ work[r].at \in Active /\ "scan" \in Active
  BY DEF At, Active
<1> PICK c \in Chapters :
        Lands(r, c) /\ GoesOn(r, "scan", work[r].todo \ {c}, work[r].failed)
  OBVIOUS
<1>1. Moves(r, "scan") /\ (work'[r].failed <=> work[r].failed) /\ work'[r].todo = work[r].todo \ {c}
  BY <1>0, FailedIsBoolean, MovesOn
<1>2. r \notin shared => jobs[work[r].folder] = r /\ cards[r] = "downloading"
  BY <1>0 DEF IInv, OwnCard, Folder
<1>3. Stays /\ c \in disk'[work[r].folder] /\ work[r].folder \in Folders
  BY <1>0, Landed, CardOfWorker
<1>4. Answers(r)
  BY <1>0, <1>1, <1>2, <1>3 DEF Answers, IInv, Accounted, Folder, Moves, Stays
<1> QED BY <1>0, <1>1, <1>3, <1>4, Untouched, AtWork

\* A scan may give the folder a row.
LEMMA ScannedStays ==
    ASSUME IInv, NEW f, Scanned(f), disk' = disk
    PROVE  Stays
  BY DEF IInv, TypeOK, Scanned, Stays

LEMMA FirstScanStep == ASSUME IInv, NEW r \in Requests, FirstScan(r) PROVE IInv'
<1> USE DEF FirstScan
<1>0. work[r].at = "scan" /\ work[r].at \in Active /\ "loop" \in Active
  BY DEF At, Active
<1>1. Moves(r, "loop") /\ (work'[r].failed <=> work[r].failed) /\ work'[r].todo = work[r].todo
  BY <1>0, FailedIsBoolean, MovesOn DEF GoTo
<1>2. r \notin shared => jobs[work[r].folder] = r /\ cards[r] = "downloading"
  BY <1>0 DEF IInv, OwnCard, Folder
<1>3. Stays
  BY ScannedStays
<1>4. Answers(r)
  BY <1>0, <1>1, <1>2 DEF Answers, IInv, Accounted, Folder, Moves
<1> QED BY <1>0, <1>1, <1>3, <1>4, Untouched, AtWork

LEMMA ChapterLandsStep == ASSUME IInv, NEW r \in Requests, ChapterLands(r) PROVE IInv'
<1> USE DEF ChapterLands
<1>0. work[r].at = "loop" /\ work[r].at \in Active /\ "loop" \in Active
  BY DEF At, Active
<1> PICK c \in Chapters : Lands(r, c) /\ GoesOn(r, "loop", work[r].todo \ {c}, work[r].failed)
  OBVIOUS
<1>1. Moves(r, "loop") /\ (work'[r].failed <=> work[r].failed) /\ work'[r].todo = work[r].todo \ {c}
  BY <1>0, FailedIsBoolean, MovesOn
<1>2. r \notin shared => jobs[work[r].folder] = r /\ cards[r] = "downloading"
  BY <1>0 DEF IInv, OwnCard, Folder
<1>3. Stays /\ c \in disk'[work[r].folder] /\ work[r].folder \in Folders
  BY <1>0, Landed, CardOfWorker
<1>4. Answers(r)
  BY <1>0, <1>1, <1>2, <1>3 DEF Answers, IInv, Accounted, Folder, Moves, Stays
<1> QED BY <1>0, <1>1, <1>3, <1>4, Untouched, AtWork

LEMMA AddChapterFailsStep == ASSUME IInv, NEW r \in Requests, AddChapterFails(r) PROVE IInv'
<1> USE DEF AddChapterFails
<1>0. work[r].at = "loop" /\ work[r].at \in Active /\ "loop" \in Active
  BY DEF At, Active
<1> PICK c \in Chapters : GoesOn(r, "loop", work[r].todo \ {c}, TRUE)
  OBVIOUS
<1>1. Moves(r, "loop") /\ work'[r].failed
  BY <1>0, FailedIsBoolean, MovesOn
<1>2. r \notin shared => jobs[work[r].folder] = r /\ cards[r] = "downloading"
  BY <1>0 DEF IInv, OwnCard, Folder
<1>3. Answers(r)
  BY <1>0, <1>1, <1>2 DEF Answers, Moves
<1> QED BY <1>0, <1>1, <1>3, Untouched, AtWork

LEMMA BreaksStep == ASSUME IInv, NEW r \in Requests, Breaks(r) PROVE IInv'
<1> USE DEF Breaks
<1>0. work[r].at = "loop" /\ work[r].at \in Active /\ "tail" \in Active
  BY DEF At, Active
<1>1. Moves(r, "tail") /\ (work'[r].failed <=> work[r].failed) /\ work'[r].todo = work[r].todo
  BY <1>0, FailedIsBoolean, MovesOn DEF GoTo
<1>2. r \notin shared => Card(r) = r
  BY <1>0 DEF IInv, OwnCard, Card, Folder
<1>3. Reports(r) /\ (r \notin shared => cards'[r] = "error")
  BY <1>0, <1>2, Closing
<1>4. Answers(r)
  BY <1>0, <1>1, <1>3 DEF Answers, IInv, Accounted, Folder, Moves
<1> QED BY <1>0, <1>1, <1>3, <1>4, Untouched, AtWork

LEMMA FillChapterFailsStep == ASSUME IInv, NEW r \in Requests, FillChapterFails(r) PROVE IInv'
<1> USE DEF FillChapterFails
<1>0. work[r].at = "loop" /\ work[r].at \in Active /\ "noting" \in Active
  BY DEF At, Active
<1> PICK refused \in BOOLEAN :
        Becomes(r, [work[r] EXCEPT !.at = "noting", !.card = Card(r), !.refused = refused, !.failed = TRUE])
  OBVIOUS
<1>1. Card(r) \in Requests \cup {None}
        /\ (Card(r) # None => cards[Card(r)] # "unused" /\ (Card(r) # r => Card(r) \in shared))
  BY <1>0, CardOfWorker DEF IInv, TypeOK, Card, Folder
<1>2. Moves(r, "noting") /\ work'[r].failed /\ work'[r].card = Card(r)
  BY <1>0, <1>1 DEF IInv, TypeOK, WorkType, Places, Becomes, Moves, Others
<1>3. r \notin shared => jobs[work[r].folder] = r /\ cards[r] = "downloading" /\ Card(r) = r
  BY <1>0 DEF IInv, OwnCard, Card, Folder
<1>4. Answers(r)
  BY <1>0, <1>2, <1>3 DEF Answers, Moves
<1> QED BY <1>0, <1>2, <1>4, Untouched, AtWork

LEMMA FillNotedStep == ASSUME IInv, NEW r \in Requests, FillNoted(r) PROVE IInv'
<1> USE DEF FillNoted
<1>0. work[r].at = "noting" /\ work[r].at \in Active /\ "tail" \in Active /\ "loop" \in Active
  BY DEF At, Active
<1>1. r \notin shared => jobs[work[r].folder] = r /\ cards[r] = "downloading" /\ work[r].card = r
  BY <1>0 DEF IInv, OwnCard, At, Folder
<1>2. CASE work[r].refused
  <2>1. Moves(r, "tail") /\ (work'[r].failed <=> work[r].failed) /\ work'[r].todo = work[r].todo
    BY <1>0, <1>2, FailedIsBoolean, MovesOn DEF GoTo
  <2>2. Reports(r) /\ (r \notin shared => cards'[r] = "error")
    BY <1>0, <1>1, <1>2, Closing
  <2>3. Answers(r)
    BY <1>0, <2>1, <2>2 DEF Answers, IInv, Accounted, Folder, Moves
  <2> QED BY <1>0, <2>1, <2>2, <2>3, Untouched, AtWork
<1>3. CASE ~work[r].refused
  <2> PICK c \in Chapters : GoesOn(r, "loop", work[r].todo \ {c}, TRUE)
    BY <1>3
  <2>1. Moves(r, "loop") /\ work'[r].failed
    BY <1>0, MovesOn
  <2>2. UNCHANGED <<jobs, cards, told, shared>>
    BY <1>3
  <2>3. Answers(r)
    BY <1>0, <1>1, <2>1, <2>2 DEF Answers, Moves
  <2> QED BY <1>0, <2>1, <2>2, <2>3, Untouched, AtWork
<1> QED BY <1>2, <1>3

LEMMA LoopEndsStep == ASSUME IInv, NEW r \in Requests, LoopEnds(r) PROVE IInv'
<1> USE DEF LoopEnds
<1>0. work[r].at = "loop" /\ work[r].at \in Active /\ "tail" \in Active /\ work[r].todo = {}
  BY DEF At, Active
<1>1. Moves(r, "tail") /\ (work'[r].failed <=> work[r].failed) /\ work'[r].todo = work[r].todo
  BY <1>0, FailedIsBoolean, MovesOn DEF GoTo
<1>2. r \notin shared => jobs[work[r].folder] = r /\ cards[r] = "downloading"
  BY <1>0 DEF IInv, OwnCard, Folder
<1>3. Answers(r)
  BY <1>0, <1>1, <1>2 DEF Answers, IInv, Accounted, Folder, Moves
<1> QED BY <1>0, <1>1, <1>3, Untouched, AtWork

LEMMA FinishStep == ASSUME IInv, NEW r \in Requests, Finish(r) PROVE IInv'
<1> USE DEF Finish
<1>0. work[r].at = "tail" /\ work[r].at \in Active /\ "over" \in Active \cup {"over"} /\ "over" \notin Active
  BY DEF At, Active
<1>1. Moves(r, "over")
  BY <1>0, MovesOn DEF Leave
<1>2. Stays
  BY ScannedStays
<1>3. r \notin shared => \/ cards[r] = "error"
                         \/ Card(r) = r /\ cards[r] = "downloading" /\ work[r].todo = {}
  BY <1>0 DEF IInv, OwnCard, At, Card, Folder
<1>4. work[r].failed \/ work[r].wanted \subseteq disk[work[r].folder] \cup work[r].todo
  BY <1>0 DEF IInv, Accounted, Folder
<1>5. UNCHANGED <<jobs, told, shared>>
  OBVIOUS
<1>6. CASE Card(r) # None /\ cards[Card(r)] # "error"
  <2>1. PICK status \in {"done", "error"} : Close(Card(r), status) /\ status = IF work[r].failed THEN "error" ELSE "done"
    BY <1>6
  <2>2. Reports(r) /\ (Card(r) = r => cards'[r] = status)
    BY <1>0, <1>5, <2>1, Closing
  <2>3. Answers(r)
    <3>1. CASE r \in shared
      BY <1>0, <1>1, <3>1 DEF Answers, Moves
    <3>2. CASE r \notin shared /\ Card(r) = r
      <4>1. cards'[r] = status /\ cards[r] # "error"
        BY <1>6, <2>2, <3>2
      <4>2. status = "done" => work[r].wanted \subseteq disk[work[r].folder]
        BY <1>3, <1>4, <2>1, <3>2, <4>1
      <4> QED BY <1>0, <1>1, <4>1, <4>2 DEF Answers, Moves
    <3>3. CASE r \notin shared /\ Card(r) # r
      <4>1. cards[r] = "error" /\ r \in Requests /\ Card(r) \in Requests
        BY <1>0, <1>3, <1>6, <3>3, CardOfWorker
      <4>2. cards'[r] = "error"
        BY <1>6, <2>1, <3>3, <4>1 DEF Close, IInv, TypeOK
      <4> QED BY <1>0, <1>1, <4>2 DEF Answers, Moves
    <3> QED BY <3>1, <3>2, <3>3
  <2> QED BY <1>0, <1>1, <1>2, <2>2, <2>3, AtWork
<1>7. CASE ~(Card(r) # None /\ cards[Card(r)] # "error")
  <2>1. cards' = cards
    BY <1>7 DEF Close
  <2>2. r \notin shared => cards[r] = "error"
    BY <1>3, <1>7, NoneAssumption
  <2>3. Answers(r)
    BY <1>0, <1>1, <2>1, <2>2 DEF Answers, Moves
  <2> QED BY <1>0, <1>1, <1>2, <1>5, <2>1, <2>3, Untouched, AtWork
<1> QED BY <1>6, <1>7

-----------------------------------------------------------------------------
(* How a request begins *)

\* A request that puts a card on the board, and starts.
LEMMA Opening ==
    ASSUME IInv, NEW r \in Requests, NEW f \in Folders, work[r].at \in {"new", "looked"}, Open(r, f),
           work' \in [Requests -> WorkType], Others(r),
           work'[r].at \in {"first", "loop"}, work'[r].folder = f, work'[r].todo = work'[r].wanted,
           work'[r].card = None, UNCHANGED <<row, disk, told>>
    PROVE  IInv'
<1> DEFINE others == {s \in Requests \ {r} : Working(s, f)}
<1>0. /\ Active = {"first", "scan", "loop", "noting", "tail"} /\ None \notin Requests \cup Folders
      /\ cards[r] = "unused" /\ work[r].at \notin Active
  BY NoneAssumption DEF Active, IInv, Waiting
<1>1. /\ jobs' = [jobs EXCEPT ![f] = r] /\ cards' = [cards EXCEPT ![r] = "downloading"]
      /\ shared' = shared \cup others \cup {s \in {r} : others # {}}
  BY DEF Open
<1>2. cards \in [Requests -> Statuses] /\ jobs \in [Folders -> Requests \cup {None}] /\ shared \subseteq Requests
  BY DEF IInv, TypeOK, Statuses
<1>3. /\ jobs'[f] = r /\ \A g \in Folders : g # f => jobs'[g] = jobs[g]
      /\ cards'[r] = "downloading" /\ \A s \in Requests : s # r => cards'[s] = cards[s]
  BY <1>1, <1>2
<1>4. \A g \in Folders, s \in Requests : s # r => Working(s, g)' = Working(s, g)
  BY DEF Working, Folder, Others
<1>5. \A g \in Folders : Working(r, g)' => g = f
  BY DEF Working, Folder
<1>6. \A s \in Requests : s # r /\ Working(s, f) => s \in shared' /\ r \in shared'
  BY <1>1
<1>7. TypeOK'
  <2>1. jobs' \in [Folders -> Requests \cup {None}] /\ cards' \in [Requests -> Statuses] /\ shared' \subseteq Requests
    BY <1>1, <1>2 DEF Statuses
  <2> QED BY <2>1, <1>0 DEF IInv, TypeOK, Others, Statuses
<1>8. Waiting'
  BY <1>0, <1>3 DEF IInv, Waiting, Others, At, Folder
<1>9. OnBoard'
  <2> SUFFICES ASSUME NEW g \in Folders, jobs'[g] # None
               PROVE  /\ cards'[jobs'[g]] # "unused" /\ work'[jobs'[g]].folder = g
                      /\ \A s \in Requests \ {jobs'[g]} : Working(s, g)' => jobs'[g] \in shared'
    BY DEF OnBoard, Folder
  <2>1. CASE g = f
    BY <2>1, <1>3, <1>4, <1>6
  <2>2. CASE g # f
    <3>1. jobs'[g] = jobs[g] /\ jobs[g] \in Requests /\ jobs[g] # r
      BY <2>2, <1>0, <1>2, <1>3 DEF IInv, OnBoard
    <3>2. cards[jobs[g]] # "unused" /\ work[jobs[g]].folder = g
          /\ \A s \in Requests \ {jobs[g]} : Working(s, g) => jobs[g] \in shared
      BY <3>1 DEF IInv, OnBoard, Folder
    <3>3. \A s \in Requests : Working(s, g)' => Working(s, g)
      BY <2>2, <1>4, <1>5
    <3> QED BY <3>1, <3>2, <3>3, <1>1, <1>3 DEF Others
  <2> QED BY <2>1, <2>2
<1>10. Together'
  <2> SUFFICES ASSUME NEW g \in Folders, NEW a \in Requests, NEW b \in Requests,
                      a # b, Working(a, g)', Working(b, g)'
               PROVE  a \in shared'
    BY DEF Together
  <2>1. CASE a # r /\ b # r
    BY <2>1, <1>1, <1>4 DEF IInv, Together
  <2>2. CASE a = r \/ b = r
    BY <2>2, <1>4, <1>5, <1>6
  <2> QED BY <2>1, <2>2
<1>11. Held'
  <2> SUFFICES ASSUME NEW s \in Requests, work'[s].card # None
               PROVE  cards'[work'[s].card] # "unused" /\ (work'[s].card # s => work'[s].card \in shared')
    BY DEF Held
  <2>1. s # r /\ work'[s] = work[s] /\ work'[s].card \in Requests
    BY DEF Others, WorkType
  <2>2. cards[work[s].card] # "unused" /\ (work[s].card # s => work[s].card \in shared)
    BY <2>1 DEF IInv, Held
  <2> QED BY <2>1, <2>2, <1>1, <1>3
<1>12. OwnCard'
  <2> SUFFICES ASSUME NEW s \in Requests, s \notin shared'
               PROVE  /\ work'[s].at \in {"first", "scan", "loop", "noting"} => jobs'[work'[s].folder] = s /\ cards'[s] = "downloading"
                      /\ work'[s].at = "noting" => work'[s].card = s
                      /\ work'[s].at = "tail" => \/ cards'[s] = "error"
                                                 \/ jobs'[work'[s].folder] = s /\ cards'[s] = "downloading" /\ work'[s].todo = {}
    BY DEF OwnCard, At, Folder
  <2>1. CASE s = r
    BY <2>1, <1>3
  <2>2. CASE s # r
    <3>1. work'[s] = work[s] /\ cards'[s] = cards[s] /\ s \notin shared
      BY <2>2, <1>1, <1>3 DEF Others
    <3>2. work[s].at \in Active => work[s].folder \in Folders /\ work[s].folder # f
      BY <2>2, <1>6 DEF IInv, TypeOK, Working, Folder
    <3>3. work[s].at \in Active => jobs'[work[s].folder] = jobs[work[s].folder]
      BY <3>2, <1>3
    <3> QED BY <1>0, <3>1, <3>3 DEF IInv, OwnCard, At, Folder
  <2> QED BY <2>1, <2>2
<1>13. Accounted'
  BY DEF IInv, Accounted, Folder, Others
<1>14. CardsTellTheTruth'
  <2> SUFFICES ASSUME NEW s \in Requests, work'[s].folder # None, s \notin shared' PROVE CardTellsTheTruth(s)'
    BY DEF CardsTellTheTruth, Folder
  <2>1. CASE s = r
    BY <2>1, <1>3 DEF CardTellsTheTruth, At
  <2>2. CASE s # r
    <3>1. work'[s] = work[s] /\ cards'[s] = cards[s] /\ s \notin shared
      BY <2>2, <1>1, <1>3 DEF Others
    <3> QED BY <3>1 DEF IInv, CardsTellTheTruth, CardTellsTheTruth, At, Folder
  <2> QED BY <2>1, <2>2
<1> QED BY <1>7, <1>8, <1>9, <1>10, <1>11, <1>12, <1>13, <1>14 DEF IInv

\* A request that has not started yet, and what it decides.
LEMMA Deciding ==
    ASSUME IInv, NEW r \in Requests, work[r].at = "new",
           work' \in [Requests -> WorkType], Others(r), work'[r].card = None, work'[r].todo = work'[r].wanted,
           \/ work'[r].at = "looked" /\ work'[r].folder \in Folders
           \/ work'[r].at = "over" /\ work'[r].folder = None,
           row' \in [Folders -> {"absent", "shown", "deleted"}], UNCHANGED <<disk, jobs, cards, told, shared>>
    PROVE  IInv'
<1>0. /\ Active = {"first", "scan", "loop", "noting", "tail"} /\ None \notin Requests \cup Folders
      /\ cards[r] = "unused" /\ work[r].at \notin Active /\ work'[r].at \notin Active
  BY NoneAssumption DEF Active, IInv, Waiting
<1>1. \A g \in Folders, s \in Requests : Working(s, g)' = Working(s, g)
  BY <1>0 DEF Working, Folder, Others
<1>2. TypeOK'
  BY <1>0 DEF IInv, TypeOK, Others
<1>3. Waiting'
  BY <1>0 DEF IInv, Waiting, Others, At, Folder
<1>4. OnBoard'
  <2> SUFFICES ASSUME NEW g \in Folders, jobs[g] # None
               PROVE  cards[jobs[g]] # "unused" /\ work'[jobs[g]].folder = g
                      /\ \A s \in Requests \ {jobs[g]} : Working(s, g) => jobs[g] \in shared
    BY <1>1 DEF OnBoard, Folder
  <2>1. jobs[g] \in Requests /\ jobs[g] # r
    BY <1>0 DEF IInv, TypeOK, OnBoard
  <2> QED BY <2>1 DEF IInv, OnBoard, Folder, Others
<1>5. Together'
  BY <1>1 DEF IInv, Together
<1>6. Held'
  BY DEF IInv, Held, Others
<1>7. OwnCard' /\ Accounted'
  BY <1>0 DEF IInv, OwnCard, Accounted, Others, At, Folder
<1>8. CardsTellTheTruth'
  BY <1>0 DEF IInv, CardsTellTheTruth, CardTellsTheTruth, Others, At, Folder
<1> QED BY <1>2, <1>3, <1>4, <1>5, <1>6, <1>7, <1>8 DEF IInv

\* What a request is asked for.
LEMMA BegunFacts ==
    ASSUME IInv, NEW r \in Requests, NEW place \in Places, NEW kind \in Kinds, NEW f \in Folders,
           NEW wanted \in SUBSET Chapters, Becomes(r, Begun(place, kind, f, wanted))
    PROVE  /\ work' \in [Requests -> WorkType] /\ Others(r)
           /\ work'[r].at = place /\ work'[r].folder = f /\ work'[r].wanted = wanted
           /\ work'[r].todo = wanted /\ work'[r].card = None
<1>1. Begun(place, kind, f, wanted) \in WorkType
  BY DEF Begun, WorkType
<1>2. work \in [Requests -> WorkType]
  BY DEF IInv, TypeOK
<1> QED BY <1>1, <1>2 DEF Becomes, Others, Begun

\* A request that stands back.
LEMMA StandsBack == ASSUME IInv, NEW r \in Requests, work[r].at = "new", GoTo(r, "over"),
                           row' \in [Folders -> {"absent", "shown", "deleted"}],
                           UNCHANGED <<disk, jobs, cards, told, shared>>
                    PROVE  IInv'
<1>1. work[r] \in WorkType /\ work \in [Requests -> WorkType] /\ work[r].folder = None
  BY DEF IInv, TypeOK, Waiting, At, Folder
<1>2. work[r].todo = work[r].wanted
  BY DEF IInv, Waiting, At
<1>3. [at |-> "over", kind |-> work[r].kind, folder |-> work[r].folder, wanted |-> work[r].wanted,
       todo |-> work[r].todo, failed |-> work[r].failed, card |-> None, refused |-> FALSE] \in WorkType
  BY <1>1 DEF WorkType, Places
<1>4. work' = [work EXCEPT ![r] = [at |-> "over", kind |-> work[r].kind, folder |-> work[r].folder,
                                   wanted |-> work[r].wanted, todo |-> work[r].todo, failed |-> work[r].failed,
                                   card |-> None, refused |-> FALSE]]
  BY DEF GoTo, GoesOn, Becomes, Folder
<1>5. /\ work' \in [Requests -> WorkType] /\ Others(r) /\ work'[r].card = None
      /\ work'[r].todo = work'[r].wanted /\ work'[r].at = "over" /\ work'[r].folder = None
  BY <1>1, <1>2, <1>3, <1>4 DEF Others
<1> QED BY <1>5, Deciding

LEMMA LookStep ==
    ASSUME IInv, NEW r \in Requests, NEW f \in Folders, NEW n \in Chapters, NEW kind \in Kinds, Look(r, kind, f, 1 .. n)
    PROVE  IInv'
<1> USE DEF Look
<1>0. work[r].at = "new" /\ row' \in [Folders -> {"absent", "shown", "deleted"}]
  BY DEF IInv, TypeOK, At
<1>1. 1 .. n \in SUBSET Chapters
  <2>1. Cardinality(Chapters) \in Nat
    BY ChaptersAssumption, FS_CardinalityType
  <2>2. n \in 1 .. Cardinality(Chapters)
    BY ChaptersAssumption
  <2>3. 1 .. n \in SUBSET (1 .. Cardinality(Chapters))
    BY <2>1, <2>2
  <2> QED BY <2>3, ChaptersAssumption
<1>2. CASE row[f] = "shown"
  BY <1>0, <1>2, StandsBack
<1>3. CASE row[f] # "shown"
  <2>1. Becomes(r, Begun("looked", kind, f, 1 .. n)) /\ "looked" \in Places
    BY <1>3 DEF Places
  <2>2. /\ work' \in [Requests -> WorkType] /\ Others(r) /\ work'[r].card = None
        /\ work'[r].todo = work'[r].wanted /\ work'[r].at = "looked" /\ work'[r].folder = f
    BY <1>1, <2>1, BegunFacts
  <2>3. UNCHANGED <<disk, jobs, cards, told, shared>>
    OBVIOUS
  <2> HIDE DEF Look
  <2> QED BY <1>0, <2>2, <2>3, Deciding
<1> QED BY <1>2, <1>3

LEMMA StartAddStep == ASSUME IInv, NEW r \in Requests, StartAdd(r) PROVE IInv'
<1> USE DEF StartAdd
<1>1. work[r].at = "looked" /\ work[r] \in WorkType /\ work \in [Requests -> WorkType]
      /\ work[r].folder \in Folders /\ work[r].todo = work[r].wanted
  BY DEF At, IInv, TypeOK, Waiting
<1>2. [at |-> "first", kind |-> work[r].kind, folder |-> work[r].folder, wanted |-> work[r].wanted,
       todo |-> work[r].todo, failed |-> work[r].failed, card |-> None, refused |-> FALSE] \in WorkType
  BY <1>1 DEF WorkType, Places
<1>3. work' = [work EXCEPT ![r] = [at |-> "first", kind |-> work[r].kind, folder |-> work[r].folder,
                                   wanted |-> work[r].wanted, todo |-> work[r].todo, failed |-> work[r].failed,
                                   card |-> None, refused |-> FALSE]]
  BY DEF GoTo, GoesOn, Becomes, Folder
<1>4. /\ work' \in [Requests -> WorkType] /\ Others(r) /\ work'[r].card = None
      /\ work'[r].todo = work'[r].wanted /\ work'[r].at = "first" /\ work'[r].folder = work[r].folder
  BY <1>1, <1>2, <1>3 DEF Others
<1>5. Open(r, work[r].folder)
  BY DEF Folder
<1> QED BY <1>1, <1>4, <1>5, Opening

LEMMA StartFillStep ==
    ASSUME IInv, NEW r \in Requests, NEW f \in Folders, NEW picked \in SUBSET Chapters, StartFill(r, f, picked)
    PROVE  IInv'
<1> USE DEF StartFill
<1>0. work[r].at = "new" /\ row' \in [Folders -> {"absent", "shown", "deleted"}]
  BY DEF IInv, TypeOK, At
<1>1. CASE Running(f)
  BY <1>0, <1>1, StandsBack
<1>2. CASE ~Running(f)
  <2>1. Becomes(r, Begun("loop", "fill", f, picked)) /\ Open(r, f) /\ "loop" \in Places /\ "fill" \in Kinds
    BY <1>2 DEF Places, Kinds
  <2> QED BY <1>0, <2>1, BegunFacts, Opening
<1> QED BY <1>1, <1>2

\* Taking a card off touches only one that says nothing of a worker at work.
LEMMA TakeOffStep == ASSUME IInv, NEW f \in Folders, TakeOff(f) PROVE IInv'
<1> USE DEF TakeOff
<1>1. /\ jobs' \in [Folders -> Requests \cup {None}] /\ jobs'[f] = None
      /\ \A g \in Folders : g # f => jobs'[g] = jobs[g]
  BY DEF IInv, TypeOK
<1>2. TypeOK' /\ Waiting' /\ Together' /\ Held' /\ Accounted' /\ CardsTellTheTruth'
  BY <1>1 DEF IInv, TypeOK, Waiting, Together, Held, Accounted, CardsTellTheTruth, CardTellsTheTruth,
     At, Folder, Working
<1>3. OnBoard'
  BY <1>1 DEF IInv, OnBoard, Folder, Working
<1>4. OwnCard'
  <2>1. \A r \in Requests : jobs[f] = r => cards[r] # "downloading"
    BY DEF Running
  <2>2. \A r \in Requests : work[r].at \in Active => work[r].folder \in Folders
    BY DEF IInv, TypeOK
  <2> QED BY <1>1, <2>1, <2>2 DEF IInv, OwnCard, At, Folder, Active
<1> QED BY <1>2, <1>3, <1>4 DEF IInv

LEMMA SameInv ==
    ASSUME IInv, row' \in [Folders -> {"absent", "shown", "deleted"}], UNCHANGED <<disk, jobs, cards, work, told, shared>>
    PROVE  IInv'
<1>1. TypeOK'
  BY DEF IInv, TypeOK
<1>2. Waiting' /\ OnBoard' /\ Together' /\ Held'
  BY DEF IInv, Waiting, OnBoard, Together, Held, At, Folder, Working
<1>3. OwnCard' /\ Accounted' /\ CardsTellTheTruth'
  BY DEF IInv, OwnCard, Accounted, CardsTellTheTruth, CardTellsTheTruth, At, Folder
<1> QED BY <1>1, <1>2, <1>3 DEF IInv

-----------------------------------------------------------------------------
(* The theorems *)

LEMMA NextIInv == IInv /\ [Next]_vars => IInv'
<1> SUFFICES ASSUME IInv, [Next]_vars PROVE IInv'
  OBVIOUS
<1>1. CASE UNCHANGED vars
  BY <1>1, SameInv DEF vars, IInv, TypeOK
<1>2. ASSUME NEW r \in Requests, Work(r) PROVE IInv'
  BY <1>2, StartAddStep, FirstFailsStep, FirstLandsStep, FirstScanStep, ChapterLandsStep, AddChapterFailsStep,
     BreaksStep, FillChapterFailsStep, FillNotedStep, LoopEndsStep, FinishStep DEF Work
<1>3. ASSUME NEW r \in Requests, NEW f \in Folders, NEW n \in Chapters, NEW kind \in Kinds, Look(r, kind, f, 1 .. n)
      PROVE  IInv'
  BY <1>3, LookStep
<1>4. ASSUME NEW r \in Requests, NEW f \in Folders, NEW picked \in SUBSET Chapters \ {{}}, StartFill(r, f, picked)
      PROVE  IInv'
  BY <1>4, StartFillStep
<1>5. ASSUME NEW f \in Folders, TakeOff(f) \/ Delete(f) PROVE IInv'
  <2>1. CASE TakeOff(f)
    BY <2>1, TakeOffStep
  <2>2. CASE Delete(f)
    <3>1. row' \in [Folders -> {"absent", "shown", "deleted"}]
      BY <2>2 DEF Delete, IInv, TypeOK
    <3> QED BY <2>2, <3>1, SameInv DEF Delete
  <2> QED BY <1>5, <2>1, <2>2
<1> QED BY <1>1, <1>2, <1>3, <1>4, <1>5 DEF Next

\* Type correctness, for any requests, folders and chapters.
THEOREM TypeCorrect == Spec => []TypeOK
<1>1. IInv => TypeOK
  BY DEF IInv
<1> QED BY <1>1, InitIInv, NextIInv, PTL DEF Spec

\* sources.ts:399-401: a card that only its own worker wrote to says "done" of
\* a series that is whole, and a failure is told; with any number of workers
\* on any number of folders.
THEOREM CardsAreTrue == Spec => []CardsTellTheTruth
<1>1. IInv => CardsTellTheTruth
  BY DEF IInv
<1> QED BY <1>1, InitIInv, NextIInv, PTL DEF Spec

\* sources.ts:747: no fill begins beside a worker that fetches into the folder
\* and whose card nobody else has written to.
THEOREM FillsKeepAside == Spec => BusyIsRespected
<1>1. IInv /\ [Next]_vars =>
        [\A r \in Requests, f \in Folders :
            At(r, "new") /\ Fetching(r, f)' /\ work[r]'.kind = "fill" =>
                \A s \in Requests \ {r} : Fetching(s, f) => s \in shared]_vars
  <2> SUFFICES ASSUME IInv, Next, NEW r \in Requests, NEW f \in Folders, At(r, "new"), Fetching(r, f)',
                      NEW s \in Requests \ {r}, Fetching(s, f), s \notin shared
               PROVE  FALSE
    OBVIOUS
  <2>1. Running(f)
    BY NoneAssumption DEF IInv, OwnCard, Fetching, Folder, Running
  <2>2. work[r].at = "new" /\ work'[r].at \in {"first", "scan", "loop", "noting"} /\ work'[r].folder = f
    BY DEF At, Fetching, Folder
  <2>3. ASSUME NEW q \in Requests, Work(q) PROVE FALSE
    <3>1. work[q].at # "new"
      BY <2>3 DEF Work, StartAdd, FirstFails, FirstLands, FirstScan, ChapterLands, AddChapterFails, Breaks,
         FillChapterFails, FillNoted, LoopEnds, Finish, At
    <3>2. \E w : work' = [work EXCEPT ![q] = w]
      BY <2>3, Zenon DEF Work, StartAdd, FirstFails, FirstLands, FirstScan, ChapterLands, AddChapterFails, Breaks,
         FillChapterFails, FillNoted, LoopEnds, Finish, GoTo, GoesOn, Leave, Becomes
    <3>3. work'[r] = work[r]
      BY <3>1, <3>2, <2>2 DEF IInv, TypeOK
    <3> QED BY <2>2, <3>3
  <2>4. ASSUME NEW q \in Requests, NEW g \in Folders, NEW n \in Chapters, NEW kind \in Kinds, Look(q, kind, g, 1 .. n)
        PROVE  FALSE
    <3>1. work'[q].at \in {"over", "looked"} /\ \A t \in Requests : t # q => work'[t] = work[t]
      BY <2>4 DEF Look, GoTo, GoesOn, Becomes, Begun, IInv, TypeOK
    <3> QED BY <2>2, <3>1
  <2>5. ASSUME NEW q \in Requests, NEW g \in Folders, NEW picked \in SUBSET Chapters \ {{}}, StartFill(q, g, picked)
        PROVE  FALSE
    <3>1. \A t \in Requests : t # q => work'[t] = work[t]
      BY <2>5 DEF StartFill, GoTo, GoesOn, Becomes, IInv, TypeOK
    <3>2. q = r
      BY <2>2, <3>1
    <3>3. CASE Running(g)
      BY <2>2, <2>5, <3>2, <3>3 DEF StartFill, GoTo, GoesOn, Becomes, IInv, TypeOK
    <3>4. CASE ~Running(g)
      <4>1. work'[r].folder = g
        BY <2>5, <3>2, <3>4 DEF StartFill, Becomes, Begun, IInv, TypeOK
      <4> QED BY <2>1, <2>2, <3>4, <4>1
    <3> QED BY <3>3, <3>4
  <2>6. ASSUME NEW g \in Folders, TakeOff(g) \/ Delete(g) PROVE FALSE
    BY <2>2, <2>6 DEF TakeOff, Delete
  <2> QED BY <2>3, <2>4, <2>5, <2>6 DEF Next
<1> QED BY <1>1, InitIInv, NextIInv, PTL DEF Spec, BusyIsRespected

\* fill.ts:8-12 and :149-151: for all libraries and all lists of numbers, what
\* a fill may fetch is missing and bracketed or beyond, and what was shown of a
\* source of whole numbers can be fetched.
THEOREM FillsRepair ==
    ASSUME Libraries \subseteq Numbers, Lists \subseteq Numbers
    PROVE  Spec => []FillIsRepair
<1>1. DecisionsAreSound
  BY RepairsAll, KeepsAll DEF DecisionsAreSound
<1>2. FillIsRepair
  BY <1>1 DEF FillIsRepair
<1> QED BY <1>2, PTL
=============================================================================
