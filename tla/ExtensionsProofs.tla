--------------------------- MODULE ExtensionsProofs ---------------------------
(***************************************************************************)
(* For any extensions, repositories and number of upsets: an update is     *)
(* complete, and what a check has recorded as removed stays removed.       *)
(***************************************************************************)
EXTENDS Extensions, TLAPS

\* A run that is over has left nothing behind.
IdleIsEmpty == \A c \in Checkers : At(c, "idle") => check[c] = NoCheck

\* Whoever may record a removal has been alone since it began.
RecordsAlone == \A c, d \in Checkers : c # d /\ check[c].gone # {} => check[d] = NoCheck

\* What is recorded as removed is so in the snapshot, was not installed when
\* a run that is still under way looked, and no run is putting it back.
RemovalIsKnown ==
    \A p \in reported :
        /\ version[p] = 0 /\ snap[p] # "in"
        /\ \A c \in Checkers : p \notin check[c].seen.in /\ (At(c, "recover") => p \notin check[c].todo)

\* An index holds nothing older than what a run under way has found in it:
\* what the repositories publish only grows.
IndexGrows ==
    /\ \A p \in Pkgs : index[p] <= upstream[p]
    /\ \A c \in Checkers, p \in Pkgs :
          check[c].fresh[p] <= upstream[p] /\ (index[p] > 0 => check[c].fresh[p] <= index[p])

\* What a run listed as installed and is older than what its refresh found.
Behind(f, installed) == {p \in f.seen.in : installed[p] > 0 /\ installed[p] < f.fresh[p]}

\* That is what it is going to update, or could not.
Covers(f, installed) ==
    /\ f.at \in {"diff", "recover", "decide"} => Behind(f, installed) \subseteq f.seen.due
    /\ f.at = "update" => Behind(f, installed) \subseteq f.todo \cup f.failed

Covered == \A c \in Checkers : Covers(check[c], version)

IInv == TypeOK /\ IdleIsEmpty /\ RecordsAlone /\ RemovalIsKnown /\ IndexGrows /\ Covered

-----------------------------------------------------------------------------
(* Lemmas *)

LEMMA NoCheckType ==
    /\ NoCheck \in Locals /\ NoCheck.at = "idle" /\ NoCheck.gone = {} /\ NoCheck.seen = Nothing
    /\ NoCheck.seen.in = {} /\ NoCheck.todo = {} /\ \A p \in Pkgs : NoCheck.fresh[p] = 0
<1>1. NothingOffered \in [Pkgs -> Versions]
  BY BoundsAssumption DEF NothingOffered, Versions
<1> QED BY <1>1 DEF NoCheck, Locals, Nothing, Phases, NothingOffered

LEMMA OfferedType ==
    ASSUME TypeOK, NEW rs
    PROVE  /\ Offered(rs) \in [Pkgs -> Versions]
           /\ \A p \in Pkgs : Offered(rs)[p] \in {0, upstream[p]}
<1>1. \A p \in Pkgs : upstream[p] \in Versions /\ 0 \in Versions
  BY BoundsAssumption DEF TypeOK, Versions
<1> QED BY <1>1 DEF Offered, NotThere

LEMMA ListingType ==
    ASSUME TypeOK
    PROVE  /\ Listing \in [in : SUBSET Pkgs, due : SUBSET Pkgs, listed : SUBSET Pkgs]
           /\ Listing.in = {p \in Pkgs : version[p] > 0}
           /\ Listing.due = {p \in Pkgs : version[p] > 0 /\ index[p] > version[p]}
  BY DEF Listing, Installed, HasUpdate

\* What an engine that changes must still satisfy while the checks stand.
EngineOK ==
    /\ repos \subseteq Repos /\ applied \subseteq Repos
    /\ version \in [Pkgs -> Versions] /\ index \in [Pkgs -> Versions] /\ upstream \in [Pkgs -> Versions]

\* The locals of a request that edits the repositories.
EditOK == edit \in [at : {"idle", "write", "refresh", "writeOther", "refreshOther", "writeBack"},
                    current : SUBSET Repos, url : SUBSET Repos]

LEMMA InitIInv == Init => IInv
<1> SUFFICES ASSUME Init PROVE IInv
  OBVIOUS
<1>1. 0 \in Versions /\ 1 \in Versions
  BY BoundsAssumption DEF Versions
<1>2. \A c \in Checkers : check[c] = NoCheck
  BY DEF Init
<1>3. TypeOK
  <2>1. EngineOK
    BY <1>1, OffersAssumption DEF Init, EngineOK, NotThere
  <2>2. check \in [Checkers -> Locals] /\ running = ~At("schedule", "idle")
    BY <1>2, NoCheckType DEF Init, At, Checkers
  <2>3. EditOK /\ upsets \in 0 .. MaxUpsets
    BY BoundsAssumption DEF Init, NoEdit, EditOK
  <2>4. /\ saved \subseteq Repos /\ running \in BOOLEAN
        /\ snap \in [Pkgs -> {"unknown", "in", "out"}] /\ removed \subseteq Pkgs /\ reported \subseteq removed
    BY DEF Init
  <2> QED BY <2>1, <2>2, <2>3, <2>4 DEF TypeOK, EngineOK, EditOK
<1>4. IdleIsEmpty /\ RecordsAlone /\ RemovalIsKnown
  BY <1>2, NoCheckType DEF Init, IdleIsEmpty, RecordsAlone, RemovalIsKnown
<1>5. IndexGrows
  BY <1>2, NoCheckType DEF Init, IndexGrows, NotThere
<1>6. Covered
  BY <1>2, NoCheckType DEF Covered, Covers
<1> QED BY <1>3, <1>4, <1>5, <1>6 DEF IInv

-----------------------------------------------------------------------------
(* A step of one check *)

\* What run c may turn its locals into.
Turns(c, f) ==
    /\ f \in Locals /\ check' = [check EXCEPT ![c] = f]
    /\ f.at = "idle" => f = NoCheck
    /\ f.gone \subseteq check[c].gone
    /\ running' = IF c = "schedule" THEN f.at # "idle" ELSE running

\* The extensions that changed became what the index holds, or went away.
Follows == \A p \in Pkgs : version'[p] \in {version[p], 0} \/ (index[p] > 0 /\ version'[p] = index[p])

LEMMA BehindShrinks ==
    ASSUME IInv, EngineOK', Follows, NEW c \in Checkers
    PROVE  Behind(check[c], version') \subseteq Behind(check[c], version)
<1> SUFFICES ASSUME NEW p \in check[c].seen.in, version'[p] > 0, version'[p] < check[c].fresh[p]
             PROVE  version[p] > 0 /\ version[p] < check[c].fresh[p]
  BY DEF Behind
<1>1. p \in Pkgs /\ check[c].fresh[p] \in Nat /\ version[p] \in Nat /\ index[p] \in Nat
  BY DEF IInv, TypeOK, Locals, Versions
<1>2. index[p] > 0 => check[c].fresh[p] <= index[p]
  BY <1>1 DEF IInv, IndexGrows
<1>3. version'[p] = version[p]
  BY <1>1, <1>2 DEF Follows
<1> QED BY <1>3

LEMMA TurnKeeps ==
    ASSUME IInv, NEW c \in Checkers, NEW f, check[c].at # "idle", Turns(c, f)
    PROVE  /\ \A d \in Checkers : check'[d] = IF d = c THEN f ELSE check[d]
           /\ check' \in [Checkers -> Locals]
           /\ running' = ~At("schedule", "idle")'
           /\ IdleIsEmpty' /\ RecordsAlone'
<1>1. /\ \A d \in Checkers : check'[d] = IF d = c THEN f ELSE check[d]
      /\ check' \in [Checkers -> Locals]
  BY DEF Turns, IInv, TypeOK
<1>2. running' = ~At("schedule", "idle")'
  BY <1>1 DEF Turns, IInv, TypeOK, At, Checkers
<1>3. IdleIsEmpty'
  BY <1>1 DEF Turns, IInv, At, IdleIsEmpty
<1>4. RecordsAlone'
  BY <1>1, NoCheckType DEF Turns, IInv, RecordsAlone, IdleIsEmpty, At
<1> QED BY <1>1, <1>2, <1>3, <1>4

\* An index is emptied, or read again from what is published.
Rereads ==
    /\ \A p \in Pkgs : index'[p] \in {0, index[p], upstream'[p]}
    /\ \A p \in Pkgs : upstream[p] <= upstream'[p]

\* The rest of the state, for a step that records nothing.
RestOK ==
    /\ EngineOK' /\ Follows /\ Rereads
    /\ saved' \subseteq Repos /\ EditOK' /\ upsets' \in 0 .. MaxUpsets
    /\ UNCHANGED snap /\ removed' \subseteq Pkgs /\ reported' \subseteq removed' /\ reported' \subseteq reported
    /\ \A p \in reported' : version'[p] = 0

LEMMA IndexesKeep ==
    ASSUME IInv, EngineOK', Rereads
    PROVE  /\ \A p \in Pkgs : index'[p] <= upstream'[p]
           /\ \A c \in Checkers, p \in Pkgs :
                 check[c].fresh[p] <= upstream'[p] /\ (index'[p] > 0 => check[c].fresh[p] <= index'[p])
<1> SUFFICES ASSUME NEW p \in Pkgs
             PROVE  /\ index'[p] <= upstream'[p]
                    /\ \A c \in Checkers :
                          check[c].fresh[p] <= upstream'[p] /\ (index'[p] > 0 => check[c].fresh[p] <= index'[p])
  OBVIOUS
<1>1. /\ index[p] \in Nat /\ upstream[p] \in Nat /\ index'[p] \in Nat /\ upstream'[p] \in Nat
      /\ \A c \in Checkers : check[c].fresh[p] \in Nat
  BY DEF IInv, TypeOK, EngineOK, Locals, Versions
<1>2. /\ index[p] <= upstream[p]
      /\ \A c \in Checkers : check[c].fresh[p] <= upstream[p] /\ (index[p] > 0 => check[c].fresh[p] <= index[p])
  BY DEF IInv, IndexGrows
<1>3. index'[p] \in {0, index[p], upstream'[p]} /\ upstream[p] <= upstream'[p]
  BY DEF Rereads
<1> QED BY <1>1, <1>2, <1>3

\* A step of a run that does not record what it has found.
LEMMA RunKeeps ==
    ASSUME IInv, NEW c \in Checkers, NEW f, check[c].at # "idle", Turns(c, f), RestOK,
           \A p \in Pkgs : f.fresh[p] \in {0, check[c].fresh[p], index'[p]},
           \A p \in reported' : p \notin f.seen.in /\ (f.at = "recover" => p \notin f.todo),
           Covers(f, version')
    PROVE  IInv'
<1>1. /\ \A d \in Checkers : check'[d] = IF d = c THEN f ELSE check[d]
      /\ check' \in [Checkers -> Locals] /\ running' = ~At("schedule", "idle")'
      /\ IdleIsEmpty' /\ RecordsAlone'
  BY TurnKeeps
<1>2. TypeOK'
  <2>1. running' \in BOOLEAN
    BY <1>1
  <2> QED BY <1>1, <2>1 DEF RestOK, EngineOK, EditOK, IInv, TypeOK
<1>3. RemovalIsKnown'
  <2> SUFFICES ASSUME NEW p \in reported'
               PROVE  /\ version'[p] = 0 /\ snap'[p] # "in"
                      /\ \A d \in Checkers : p \notin check'[d].seen.in /\ (check'[d].at = "recover" => p \notin check'[d].todo)
    BY DEF RemovalIsKnown, At
  <2>1. p \in reported
    BY DEF RestOK
  <2> QED BY <1>1, <2>1 DEF RestOK, IInv, RemovalIsKnown, At
<1>4. IndexGrows'
  <2>1. \A p \in Pkgs : index'[p] \in Nat /\ upstream'[p] \in Nat /\ 0 <= upstream'[p]
    BY DEF RestOK, EngineOK, Versions
  <2>2. /\ \A p \in Pkgs : index'[p] <= upstream'[p]
        /\ \A d \in Checkers, p \in Pkgs :
             check[d].fresh[p] <= upstream'[p] /\ (index'[p] > 0 => check[d].fresh[p] <= index'[p])
    BY IndexesKeep DEF RestOK
  <2>3. \A p \in Pkgs : f.fresh[p] <= upstream'[p] /\ (index'[p] > 0 => f.fresh[p] <= index'[p])
    BY <2>1, <2>2
  <2> QED BY <1>1, <2>2, <2>3 DEF IndexGrows
<1>5. Covered'
  <2> SUFFICES ASSUME NEW d \in Checkers, d # c PROVE Covers(check[d], version')
    BY <1>1 DEF Covered
  <2>1. Behind(check[d], version') \subseteq Behind(check[d], version)
    BY BehindShrinks DEF RestOK
  <2>2. Covers(check[d], version)
    BY DEF IInv, Covered
  <2> QED BY <2>1, <2>2 DEF Covers
<1> QED BY <1>2, <1>3, <1>4, <1>5, <1>1 DEF IInv

\* A step of somebody else.
LEMMA OthersKeep ==
    ASSUME IInv, UNCHANGED <<check, running>>, RestOK
    PROVE  IInv'
<1>1. TypeOK'
  <2>1. running' = ~At("schedule", "idle")'
    BY DEF IInv, TypeOK, At
  <2> QED BY <2>1 DEF RestOK, EngineOK, EditOK, IInv, TypeOK
<1>2. IdleIsEmpty' /\ RecordsAlone'
  BY DEF IInv, IdleIsEmpty, RecordsAlone, At
<1>3. RemovalIsKnown'
  BY DEF RestOK, IInv, RemovalIsKnown, At
<1>4. IndexGrows'
  BY IndexesKeep DEF RestOK, IndexGrows
<1>5. Covered'
  BY BehindShrinks DEF RestOK, IInv, Covered, Covers
<1> QED BY <1>1, <1>2, <1>3, <1>4, <1>5 DEF IInv

\* What a step that touches nothing but its own locals need not say.
LEMMA NothingElse ==
    ASSUME IInv, UNCHANGED <<engine, saved, snap, edit, upsets, watched>>
    PROVE  RestOK
  BY DEF engine, watched, IInv, TypeOK, RemovalIsKnown, RestOK, EngineOK, EditOK, Follows, Rereads, Versions

LEMMA UpsetType == IInv /\ (Upset \/ UNCHANGED upsets) => upsets' \in 0 .. MaxUpsets
  BY BoundsAssumption DEF IInv, TypeOK, Upset

-----------------------------------------------------------------------------
(* The check, action by action *)

LEMMA BeginKeeps == ASSUME IInv, NEW c \in Checkers, Begin(c) PROVE IInv'
<1> DEFINE alone == \A d \in Checkers : At(d, "idle")
           f == [NoCheck EXCEPT !.at = "repos", !.repos = saved, !.gone = IF alone THEN removed ELSE {}]
<1>1. /\ f \in Locals /\ f.at = "repos" /\ f.seen.in = {} /\ f.gone = (IF alone THEN removed ELSE {})
      /\ \A p \in Pkgs : f.fresh[p] = 0
  BY NoCheckType DEF IInv, TypeOK, Locals, Phases
<1>2. \A d \in Checkers : check'[d] = IF d = c THEN f ELSE [check[d] EXCEPT !.gone = {}]
  BY DEF Begin
<1>3. \A d \in Checkers : d # c =>
        /\ check'[d] \in Locals /\ check'[d].gone = {}
        /\ check'[d].at = check[d].at /\ check'[d].seen = check[d].seen /\ check'[d].todo = check[d].todo
        /\ check'[d].failed = check[d].failed /\ check'[d].fresh = check[d].fresh
        /\ check[d] = NoCheck => check'[d] = NoCheck
  <2> SUFFICES ASSUME NEW d \in Checkers, d # c
               PROVE  /\ check'[d] \in Locals /\ check'[d].gone = {}
                      /\ check'[d].at = check[d].at /\ check'[d].seen = check[d].seen
                      /\ check'[d].todo = check[d].todo /\ check'[d].failed = check[d].failed
                      /\ check'[d].fresh = check[d].fresh
                      /\ check[d] = NoCheck => check'[d] = NoCheck
    OBVIOUS
  <2>1. check'[d] = [check[d] EXCEPT !.gone = {}] /\ check[d] \in Locals
    BY <1>2 DEF IInv, TypeOK
  <2>2. [NoCheck EXCEPT !.gone = {}] = NoCheck
    BY NoCheckType DEF Locals
  <2> QED BY <2>1, <2>2 DEF Locals
<1>4. UNCHANGED <<repos, applied, version, index, upstream, saved, snap, edit, upsets, removed, reported>>
      /\ check[c].at = "idle"
  BY DEF Begin, engine, database, watched, At
<1> HIDE DEF f
<1>5. TypeOK'
  <2>1. check' \in [Checkers -> Locals]
    BY <1>1, <1>2, <1>3 DEF Begin
  <2>2. running' \in BOOLEAN /\ running' = ~At("schedule", "idle")'
    <3>1. CASE c = "schedule"
      BY <1>1, <1>2, <3>1 DEF Begin, At
    <3>2. CASE c # "schedule"
      BY <1>3, <3>2 DEF Begin, At, IInv, TypeOK, Checkers
    <3> QED BY <3>1, <3>2
  <2> QED BY <1>4, <2>1, <2>2 DEF IInv, TypeOK
<1>6. IdleIsEmpty'
  BY <1>1, <1>2, <1>3 DEF IInv, IdleIsEmpty, At
<1>7. RecordsAlone'
  BY <1>1, <1>2, <1>3 DEF IInv, IdleIsEmpty, RecordsAlone, At
<1>8. RemovalIsKnown'
  BY <1>1, <1>2, <1>3, <1>4 DEF IInv, RemovalIsKnown, At
<1>9. IndexGrows'
  <2>1. \A p \in Pkgs : 0 <= index[p] /\ 0 <= upstream[p]
    BY DEF IInv, TypeOK, Versions
  <2>2. check'[c].fresh = f.fresh /\ \A d \in Checkers : d # c => check'[d].fresh = check[d].fresh
    BY <1>2, <1>3
  <2> QED BY <1>1, <1>4, <2>1, <2>2 DEF IInv, IndexGrows
<1>10. Covered'
  BY <1>1, <1>2, <1>3, <1>4 DEF IInv, Covered, Covers, Behind
<1> QED BY <1>5, <1>6, <1>7, <1>8, <1>9, <1>10 DEF IInv

\* Before it has looked, a run has nothing to cover.
LEMMA ReadReposKeeps == ASSUME IInv, NEW c \in Checkers, ReadRepos(c) PROVE IInv'
<1> DEFINE f == check'[c]
<1>1. check[c] \in Locals /\ check[c].at = "repos"
  BY DEF ReadRepos, At, IInv, TypeOK
<1>2. /\ check' = [check EXCEPT ![c] = f] /\ f \in Locals /\ f.at \in {"refresh", "restore"}
      /\ f.gone = check[c].gone /\ f.fresh = check[c].fresh /\ f.seen = check[c].seen
  <2>1. PICK g : /\ check' = [check EXCEPT ![c] = g] /\ g \in Locals /\ g.at \in {"refresh", "restore"}
                 /\ g.gone = check[c].gone /\ g.fresh = check[c].fresh /\ g.seen = check[c].seen
    <3> DEFINE a == [check[c] EXCEPT !.at = "refresh", !.repos = {}]
               b == [check[c] EXCEPT !.at = "restore", !.repos = repos \cup check[c].repos, !.wiped = (repos = {})]
    <3>1. /\ a \in Locals /\ a.at = "refresh"
          /\ a.gone = check[c].gone /\ a.fresh = check[c].fresh /\ a.seen = check[c].seen
      BY <1>1 DEF Locals, Phases
    <3>2. (repos = {}) \in BOOLEAN /\ repos \cup check[c].repos \subseteq Repos
      BY <1>1 DEF IInv, TypeOK, Locals
    <3>3. /\ b \in Locals /\ b.at = "restore"
          /\ b.gone = check[c].gone /\ b.fresh = check[c].fresh /\ b.seen = check[c].seen
      BY <1>1, <3>2 DEF Locals, Phases
    <3>4. check' = [check EXCEPT ![c] = a] \/ check' = [check EXCEPT ![c] = b]
      BY DEF ReadRepos, Becomes
    <3> HIDE DEF a, b
    <3> QED BY <3>1, <3>3, <3>4
  <2>2. f = g
    BY <2>1 DEF IInv, TypeOK
  <2> QED BY <2>1, <2>2
<1> HIDE DEF f
<1>3. RestOK
  <2>1. UNCHANGED <<engine, snap, edit, watched>> /\ saved' \subseteq Repos
    BY DEF ReadRepos, IInv, TypeOK
  <2> QED BY <2>1, UpsetType
       DEF ReadRepos, engine, watched, IInv, TypeOK, RemovalIsKnown, RestOK, EngineOK, EditOK, Follows, Rereads, Versions
<1>4. Turns(c, f)
  BY <1>1, <1>2 DEF Turns, ReadRepos, IInv, TypeOK, At
<1> QED BY <1>1, <1>2, <1>3, <1>4, RunKeeps DEF Covers, RestOK, IInv, RemovalIsKnown

LEMMA RestoreKeeps == ASSUME IInv, NEW c \in Checkers, Restore(c) PROVE IInv'
<1> DEFINE f == [check[c] EXCEPT !.at = "refresh", !.repos = {}]
<1>1. /\ check[c] \in Locals /\ check[c].at = "restore" /\ check[c].repos \subseteq Repos
      /\ check' = [check EXCEPT ![c] = f] /\ UNCHANGED running
  BY DEF Restore, Becomes, At, IInv, TypeOK, Locals
<1>2. /\ f \in Locals /\ f.at = "refresh"
      /\ f.gone = check[c].gone /\ f.fresh = check[c].fresh /\ f.seen = check[c].seen
  BY <1>1 DEF Locals, Phases
<1> HIDE DEF f
<1>3. RestOK
  <2>1. repos' \subseteq Repos
    BY <1>1 DEF Restore, IInv, TypeOK
  <2>2. UNCHANGED <<applied, version, index, upstream, saved, snap, edit, removed, reported>>
    BY DEF Restore, database, watched
  <2>3. upsets' \in 0 .. MaxUpsets
    BY UpsetType DEF Restore
  <2> QED BY <2>1, <2>2, <2>3 DEF IInv, TypeOK, RemovalIsKnown, RestOK, EngineOK, EditOK, Follows, Rereads, Versions
<1>4. Turns(c, f)
  BY <1>1, <1>2 DEF Turns, IInv, TypeOK, At
<1> QED BY <1>1, <1>2, <1>3, <1>4, RunKeeps DEF Covers, RestOK, IInv, RemovalIsKnown

LEMMA EmptyTurn ==
    ASSUME IInv, NEW c \in Checkers, check[c].at # "idle", End(c), RestOK
    PROVE  IInv'
<1>1. Turns(c, NoCheck)
  BY NoCheckType DEF End, Becomes, Turns
<1> QED BY <1>1, NoCheckType, RunKeeps DEF Covers

LEMMA RefreshKeeps == ASSUME IInv, NEW c \in Checkers, Refresh(c) PROVE IInv'
<1>1. check[c] \in Locals /\ check[c].at = "refresh"
  BY DEF Refresh, At, IInv, TypeOK
<1>2. RestOK
  <2>1. UNCHANGED <<repos, applied, version, upstream, saved, snap, edit, removed, reported>>
    BY DEF Refresh, database, watched
  <2>2. index' \in [Pkgs -> Versions] /\ \A p \in Pkgs : index'[p] \in {0, index[p], upstream[p]}
    BY OfferedType DEF Refresh, IInv, TypeOK
  <2>3. upsets' \in 0 .. MaxUpsets
    BY UpsetType DEF Refresh
  <2> QED BY <2>1, <2>2, <2>3 DEF IInv, TypeOK, RemovalIsKnown, RestOK, EngineOK, EditOK, Follows, Rereads, Versions
<1>3. CASE End(c)
  BY <1>1, <1>2, <1>3, EmptyTurn
<1>4. CASE ~End(c)
  <2> DEFINE f == [check[c] EXCEPT !.at = "list", !.fresh = Offered(applied)]
  <2>1. index' = Offered(applied) /\ check' = [check EXCEPT ![c] = f] /\ UNCHANGED running
    BY <1>4 DEF Refresh, Becomes
  <2>2. /\ f \in Locals /\ f.at = "list" /\ f.fresh = index'
        /\ f.gone = check[c].gone /\ f.seen = check[c].seen
    BY <1>1, <2>1, OfferedType DEF Locals, Phases, IInv
  <2> HIDE DEF f
  <2>3. Turns(c, f)
    BY <1>1, <2>1, <2>2 DEF Turns, IInv, TypeOK, At
  <2> QED BY <1>1, <1>2, <2>2, <2>3, RunKeeps DEF Covers, RestOK, IInv, RemovalIsKnown
<1> QED BY <1>3, <1>4

\* What is older than it could be is due, or has left the index.
LEMMA ListKeeps == ASSUME IInv, NEW c \in Checkers, List(c) PROVE IInv'
<1>1. check[c] \in Locals /\ check[c].at = "list"
  BY DEF List, At, IInv, TypeOK
<1>2. RestOK
  <2>1. UNCHANGED <<repos, applied, version, index, upstream, saved, snap, edit, removed, reported>>
    BY DEF List, engine, database, watched
  <2>2. upsets' \in 0 .. MaxUpsets
    BY UpsetType DEF List
  <2> QED BY <2>1, <2>2 DEF IInv, TypeOK, RemovalIsKnown, RestOK, EngineOK, EditOK, Follows, Rereads, Versions
<1>3. CASE End(c)
  BY <1>1, <1>2, <1>3, EmptyTurn
<1>4. CASE ~End(c)
  <2> DEFINE fresh == [p \in Pkgs |-> IF index[p] > 0 THEN check[c].fresh[p] ELSE NotThere]
             f == [check[c] EXCEPT !.at = "diff", !.seen = Listing, !.fresh = fresh]
  <2>1. check' = [check EXCEPT ![c] = f] /\ UNCHANGED <<running, version, index>>
    BY <1>4 DEF List, Becomes, engine
  <2>2. fresh \in [Pkgs -> Versions] /\ \A p \in Pkgs : fresh[p] = IF index[p] > 0 THEN check[c].fresh[p] ELSE 0
    BY <1>1, BoundsAssumption DEF Locals, Versions, NotThere
  <2> HIDE DEF fresh
  <2>3. /\ f \in Locals /\ f.at = "diff" /\ f.fresh = fresh
        /\ f.gone = check[c].gone /\ f.seen = Listing
    BY <1>1, <2>2, ListingType DEF Locals, Phases, IInv
  <2> HIDE DEF f
  <2>4. Turns(c, f)
    BY <1>1, <2>1, <2>3 DEF Turns, IInv, TypeOK, At
  <2>5. Behind(f, version) \subseteq f.seen.due
    <3> SUFFICES ASSUME NEW p \in Pkgs, version[p] > 0, version[p] < fresh[p]
                 PROVE  index[p] > version[p]
      BY <2>3, ListingType DEF Behind, IInv
    <3>1. version[p] \in Nat /\ index[p] \in Nat /\ check[c].fresh[p] \in Nat
      BY <1>1 DEF IInv, TypeOK, Locals, Versions
    <3>2. index[p] > 0 => check[c].fresh[p] <= index[p]
      BY DEF IInv, IndexGrows
    <3> QED BY <2>2, <3>1, <3>2
  <2>6. Covers(f, version')
    BY <2>1, <2>3, <2>5 DEF Covers
  <2>7. \A p \in reported' : p \notin f.seen.in
    BY <1>2, <2>1, <2>3, ListingType DEF RestOK, IInv
  <2>8. \A p \in Pkgs : f.fresh[p] \in {0, check[c].fresh[p], index'[p]}
    BY <2>2, <2>3
  <2> QED BY <1>1, <1>2, <2>3, <2>4, <2>6, <2>7, <2>8, RunKeeps
<1> QED BY <1>3, <1>4

\* What the snapshot lacks now is not put back when its removal is recorded.
LEMMA DiffKeeps == ASSUME IInv, NEW c \in Checkers, Diff(c) PROVE IInv'
<1> DEFINE gone == {p \in Pkgs : snap[p] = "in"} \ check[c].seen.in
           a == [check[c] EXCEPT !.at = "recover", !.wiped = FALSE, !.todo = gone]
           b == [check[c] EXCEPT !.at = "decide", !.wiped = FALSE]
<1>1. check[c] \in Locals /\ check[c].at = "diff" /\ gone \subseteq Pkgs
  BY DEF Diff, At, IInv, TypeOK
<1>2. RestOK
  BY NothingElse DEF Diff, database
<1>3. PICK f \in {a, b} : check' = [check EXCEPT ![c] = f] /\ UNCHANGED running
  BY DEF Diff, Becomes
<1>4. \A p \in reported' : p \notin gone /\ p \notin check[c].seen.in
  BY <1>2 DEF RestOK, IInv, RemovalIsKnown
<1> HIDE DEF gone
<1>5. /\ f \in Locals /\ f.at \in {"recover", "decide"} /\ (f.at = "recover" => f.todo = gone)
      /\ f.gone = check[c].gone /\ f.seen = check[c].seen /\ f.fresh = check[c].fresh
  <2>1. /\ a \in Locals /\ a.at = "recover" /\ a.todo = gone
        /\ a.gone = check[c].gone /\ a.seen = check[c].seen /\ a.fresh = check[c].fresh
    BY <1>1 DEF Locals, Phases
  <2>2. /\ b \in Locals /\ b.at = "decide"
        /\ b.gone = check[c].gone /\ b.seen = check[c].seen /\ b.fresh = check[c].fresh
    BY <1>1 DEF Locals, Phases
  <2> HIDE DEF a, b
  <2> QED BY <2>1, <2>2
<1> HIDE DEF a, b
<1>6. Turns(c, f)
  BY <1>1, <1>3, <1>5 DEF Turns, IInv, TypeOK, At
<1>7. Covers(f, version')
  <2>1. version' = version /\ Covers(check[c], version)
    BY DEF Diff, engine, IInv, Covered
  <2> QED BY <1>1, <1>5, <2>1 DEF Covers, Behind
<1> QED BY <1>1, <1>2, <1>4, <1>5, <1>6, <1>7, RunKeeps

LEMMA RecoverKeeps == ASSUME IInv, NEW c \in Checkers, NEW p \in Pkgs, Recover(c, p) PROVE IInv'
<1> DEFINE a == [check[c] EXCEPT !.todo = @ \ {p}, !.changed = TRUE]
           b == [check[c] EXCEPT !.todo = @ \ {p}]
<1>1. check[c] \in Locals /\ check[c].at = "recover" /\ p \in check[c].todo /\ p \notin reported
  BY DEF Recover, At, IInv, TypeOK, RemovalIsKnown
<1>2. /\ version' \in [Pkgs -> Versions] /\ Follows
      /\ \A q \in reported : version'[q] = version[q]
  BY <1>1 DEF Recover, Follows, IInv, TypeOK, RemovalIsKnown
<1>3. RestOK
  <2>1. UNCHANGED <<repos, applied, index, upstream, saved, snap, edit, removed, reported>>
    BY DEF Recover, database, watched
  <2>2. upsets' \in 0 .. MaxUpsets
    BY UpsetType DEF Recover
  <2> QED BY <1>2, <2>1, <2>2 DEF IInv, TypeOK, RemovalIsKnown, RestOK, EngineOK, EditOK, Rereads, Versions
<1>4. PICK f \in {a, b} : check' = [check EXCEPT ![c] = f] /\ UNCHANGED running
  BY DEF Recover, Becomes
<1>5. /\ f \in Locals /\ f.at = "recover" /\ f.todo \subseteq check[c].todo
      /\ f.gone = check[c].gone /\ f.seen = check[c].seen /\ f.fresh = check[c].fresh
  <2>1. /\ a \in Locals /\ a.at = "recover" /\ a.todo = check[c].todo \ {p}
        /\ a.gone = check[c].gone /\ a.seen = check[c].seen /\ a.fresh = check[c].fresh
    BY <1>1 DEF Locals
  <2>2. /\ b \in Locals /\ b.at = "recover" /\ b.todo = check[c].todo \ {p}
        /\ b.gone = check[c].gone /\ b.seen = check[c].seen /\ b.fresh = check[c].fresh
    BY <1>1 DEF Locals
  <2> HIDE DEF a, b
  <2> QED BY <2>1, <2>2
<1> HIDE DEF a, b
<1>6. Turns(c, f)
  BY <1>1, <1>4, <1>5 DEF Turns, IInv, TypeOK, At
<1>7. Covers(f, version')
  <2>1. Behind(check[c], version') \subseteq Behind(check[c], version) /\ Covers(check[c], version)
    BY <1>3, BehindShrinks DEF RestOK, IInv, Covered
  <2> QED BY <1>1, <1>5, <2>1 DEF Covers, Behind
<1>8. \A q \in reported' : q \notin f.seen.in /\ q \notin f.todo
  BY <1>1, <1>3, <1>5 DEF RestOK, IInv, RemovalIsKnown, At
<1> QED BY <1>1, <1>3, <1>5, <1>6, <1>7, <1>8, RunKeeps

LEMMA DecideKeeps == ASSUME IInv, NEW c \in Checkers, Recovered(c) \/ Decide(c) PROVE IInv'
<1> DEFINE a == [check[c] EXCEPT !.at = "decide"]
           b == [check[c] EXCEPT !.at = "update", !.todo = check[c].seen.due, !.seen.due = {}]
           r == [check[c] EXCEPT !.at = "relist", !.seen.due = {}, !.fresh = NothingOffered]
<1>1. check[c] \in Locals /\ check[c].at \in {"recover", "decide"} /\ check[c].seen.due \subseteq Pkgs
  BY DEF Recovered, Decide, At, IInv, TypeOK, Locals
<1>2. RestOK
  BY NothingElse DEF Recovered, Decide, database
<1>3. PICK f \in {a, b, r} : check' = [check EXCEPT ![c] = f] /\ UNCHANGED running
  BY DEF Recovered, Decide, GoTo, Becomes
<1>4. /\ f \in Locals /\ f.at \in {"decide", "update", "relist"} /\ (f.at = "update" => f.todo = check[c].seen.due)
      /\ f.gone = check[c].gone /\ f.seen.in = check[c].seen.in
      /\ f.at = "decide" => f.seen = check[c].seen
      /\ f.fresh = check[c].fresh \/ (f.at = "relist" /\ \A p \in Pkgs : f.fresh[p] = 0)
  <2>1. /\ a \in Locals /\ a.at = "decide"
        /\ a.gone = check[c].gone /\ a.seen = check[c].seen /\ a.fresh = check[c].fresh
    BY <1>1 DEF Locals, Phases
  <2>2. /\ b \in Locals /\ b.at = "update" /\ b.todo = check[c].seen.due
        /\ b.gone = check[c].gone /\ b.seen.in = check[c].seen.in /\ b.fresh = check[c].fresh
    BY <1>1 DEF Locals, Phases
  <2>3. /\ r \in Locals /\ r.at = "relist"
        /\ r.gone = check[c].gone /\ r.seen.in = check[c].seen.in /\ \A p \in Pkgs : r.fresh[p] = 0
    <3>1. NothingOffered \in [Pkgs -> Versions] /\ \A p \in Pkgs : NothingOffered[p] = 0
      BY BoundsAssumption DEF NothingOffered, Versions
    <3> QED BY <1>1, <3>1 DEF Locals, Phases
  <2> HIDE DEF a, b, r
  <2> QED BY <2>1, <2>2, <2>3
<1> HIDE DEF a, b, r
<1>5. Turns(c, f)
  BY <1>1, <1>3, <1>4 DEF Turns, IInv, TypeOK, At
<1>6. Covers(f, version')
  <2>1. version' = version /\ Covers(check[c], version)
    BY DEF Recovered, Decide, engine, IInv, Covered
  <2> QED BY <1>1, <1>4, <2>1 DEF Covers, Behind
<1>7. \A q \in reported' : q \notin f.seen.in
  BY <1>2, <1>4 DEF RestOK, IInv, RemovalIsKnown
<1> QED BY <1>1, <1>2, <1>4, <1>5, <1>6, <1>7, RunKeeps

\* One that was due is as new as the index, or has failed.
LEMMA UpdateKeeps == ASSUME IInv, NEW c \in Checkers, NEW p \in Pkgs, Update(c, p) PROVE IInv'
<1> DEFINE a == [check[c] EXCEPT !.todo = @ \ {p}, !.changed = TRUE]
           b == [check[c] EXCEPT !.todo = @ \ {p}, !.failed = @ \cup {p}]
<1>1. check[c] \in Locals /\ check[c].at = "update" /\ p \in check[c].todo
  BY DEF Update, At, IInv, TypeOK
<1>2. /\ version' \in [Pkgs -> Versions] /\ Follows
      /\ \A q \in reported : version'[q] = version[q]
  BY <1>1 DEF Update, Follows, IInv, TypeOK, RemovalIsKnown
<1>3. RestOK
  <2>1. UNCHANGED <<repos, applied, index, upstream, saved, snap, edit, removed, reported>>
    BY DEF Update, database, watched
  <2>2. upsets' \in 0 .. MaxUpsets
    BY UpsetType DEF Update
  <2> QED BY <1>2, <2>1, <2>2 DEF IInv, TypeOK, RemovalIsKnown, RestOK, EngineOK, EditOK, Rereads, Versions
<1>4. /\ a \in Locals /\ a.at = "update" /\ a.todo = check[c].todo \ {p} /\ a.failed = check[c].failed
      /\ a.gone = check[c].gone /\ a.seen = check[c].seen /\ a.fresh = check[c].fresh
  BY <1>1 DEF Locals
<1>5. /\ b \in Locals /\ b.at = "update" /\ b.todo = check[c].todo \ {p} /\ b.failed = check[c].failed \cup {p}
      /\ b.gone = check[c].gone /\ b.seen = check[c].seen /\ b.fresh = check[c].fresh
  BY <1>1 DEF Locals
<1>6. PICK f \in {a, b} :
        /\ check' = [check EXCEPT ![c] = f] /\ UNCHANGED running
        /\ f = b \/ (index[p] > 0 /\ version'[p] = index[p])
  BY DEF Update, Becomes, IInv, TypeOK
<1> HIDE DEF a, b
<1>7. Turns(c, f)
  BY <1>1, <1>4, <1>5, <1>6 DEF Turns, IInv, TypeOK, At
<1>8. Covers(f, version')
  <2>1. Behind(check[c], version') \subseteq Behind(check[c], version) /\ Covers(check[c], version)
    BY <1>3, BehindShrinks DEF RestOK, IInv, Covered
  <2>2. index[p] > 0 /\ version'[p] = index[p] => p \notin Behind(check[c], version')
    <3>1. index[p] \in Nat /\ check[c].fresh[p] \in Nat /\ (index[p] > 0 => check[c].fresh[p] <= index[p])
      BY <1>1 DEF IInv, TypeOK, Locals, Versions, IndexGrows
    <3> QED BY <3>1 DEF Behind
  <2>3. Behind(f, version') = Behind(check[c], version')
    BY <1>4, <1>5 DEF Behind
  <2> QED BY <1>1, <1>4, <1>5, <1>6, <2>1, <2>2, <2>3 DEF Covers
<1>9. \A q \in reported' : q \notin f.seen.in
  BY <1>3, <1>4, <1>5 DEF RestOK, IInv, RemovalIsKnown
<1> QED BY <1>1, <1>3, <1>4, <1>5, <1>7, <1>8, <1>9, RunKeeps

LEMMA RelistKeeps == ASSUME IInv, NEW c \in Checkers, Updated(c) \/ Relist(c) PROVE IInv'
<1> DEFINE a == [check[c] EXCEPT !.at = "relist", !.failed = {}, !.fresh = NothingOffered]
           seen == IF check[c].changed THEN [Listing EXCEPT !.due = {}] ELSE check[c].seen
           b == [check[c] EXCEPT !.at = "save", !.seen = seen, !.changed = FALSE]
           r == [check[c] EXCEPT !.at = "save", !.changed = FALSE]
<1>1. check[c] \in Locals /\ check[c].at \in {"update", "relist"}
  BY DEF Updated, Relist, At, IInv, TypeOK
<1>2. RestOK
  <2>1. UNCHANGED <<repos, applied, version, index, upstream, saved, snap, edit, removed, reported>>
    BY DEF Updated, Relist, engine, database, watched
  <2>2. upsets' \in 0 .. MaxUpsets
    BY UpsetType DEF Updated, Relist
  <2> QED BY <2>1, <2>2 DEF IInv, TypeOK, RemovalIsKnown, RestOK, EngineOK, EditOK, Follows, Rereads, Versions
<1>3. PICK f \in {a, b, r} : check' = [check EXCEPT ![c] = f] /\ UNCHANGED running
  BY DEF Updated, Relist, Becomes
<1>4. /\ seen \in [in : SUBSET Pkgs, due : SUBSET Pkgs, listed : SUBSET Pkgs]
      /\ seen.in \in {check[c].seen.in, Listing.in}
  BY <1>1, ListingType DEF Locals, IInv
<1> HIDE DEF seen
<1>5. /\ f \in Locals /\ f.at \in {"relist", "save"} /\ f.seen.in \in {check[c].seen.in, Listing.in}
      /\ f.gone = check[c].gone
      /\ f.fresh = check[c].fresh \/ \A p \in Pkgs : f.fresh[p] = 0
  <2>1. /\ a \in Locals /\ a.at = "relist"
        /\ a.gone = check[c].gone /\ a.seen = check[c].seen /\ \A p \in Pkgs : a.fresh[p] = 0
    <3>1. NothingOffered \in [Pkgs -> Versions] /\ \A p \in Pkgs : NothingOffered[p] = 0
      BY BoundsAssumption DEF NothingOffered, Versions
    <3> QED BY <1>1, <3>1 DEF Locals, Phases
  <2>2. /\ b \in Locals /\ b.at = "save" /\ b.seen = seen
        /\ b.gone = check[c].gone /\ b.fresh = check[c].fresh
    BY <1>1, <1>4 DEF Locals, Phases
  <2>3. /\ r \in Locals /\ r.at = "save"
        /\ r.gone = check[c].gone /\ r.seen = check[c].seen /\ r.fresh = check[c].fresh
    BY <1>1 DEF Locals, Phases
  <2> HIDE DEF a, b, r
  <2> QED BY <1>4, <2>1, <2>2, <2>3
<1> HIDE DEF a, b, r
<1>6. Turns(c, f)
  BY <1>1, <1>3, <1>5 DEF Turns, IInv, TypeOK, At
<1>7. \A q \in reported' : q \notin f.seen.in
  BY <1>2, <1>5, ListingType DEF RestOK, IInv, RemovalIsKnown
<1>8. \A p \in Pkgs : f.fresh[p] \in {0, check[c].fresh[p], index'[p]}
  BY <1>5
<1> QED BY <1>1, <1>2, <1>5, <1>6, <1>7, <1>8, RunKeeps DEF Covers

\* Nobody else is under way when a removal is recorded, and the row says so.
LEMMA SaveKeeps == ASSUME IInv, NEW c \in Checkers, Save(c) PROVE IInv'
<1>1. /\ check[c] \in Locals /\ check[c].at = "save"
      /\ UNCHANGED <<repos, applied, version, index, upstream, saved, edit, upsets, removed>>
  BY DEF Save, At, IInv, TypeOK, engine
<1>2. Turns(c, NoCheck)
  BY NoCheckType DEF Save, End, Becomes, Turns
<1>3. /\ \A d \in Checkers : check'[d] = IF d = c THEN NoCheck ELSE check[d]
      /\ check' \in [Checkers -> Locals] /\ running' = ~At("schedule", "idle")'
      /\ IdleIsEmpty' /\ RecordsAlone'
  BY <1>1, <1>2, TurnKeeps
<1>4. /\ reported' \subseteq removed /\ \A p \in Pkgs : snap'[p] \in {"in", "out", snap[p]}
      /\ snap' \in [Pkgs -> {"unknown", "in", "out"}]
  BY DEF Save, Records, IInv, TypeOK
<1>5. TypeOK'
  <2>1. running' \in BOOLEAN
    BY <1>3
  <2> QED BY <1>1, <1>3, <1>4, <2>1 DEF IInv, TypeOK
<1>6. RemovalIsKnown'
  <2> SUFFICES ASSUME NEW p \in reported'
               PROVE  /\ version[p] = 0 /\ snap'[p] # "in"
                      /\ \A d \in Checkers : p \notin check'[d].seen.in /\ (check'[d].at = "recover" => p \notin check'[d].todo)
    BY <1>1 DEF RemovalIsKnown, At
  <2>1. p \in Pkgs
    BY <1>4 DEF IInv, TypeOK
  <2>2. CASE p \in reported
    BY <1>3, <2>1, <2>2, NoCheckType DEF Save, IInv, RemovalIsKnown, At
  <2>3. CASE p \notin reported
    <3>1. version[p] = 0 /\ p \in check[c].gone /\ p \in check[c].seen.listed /\ p \notin check[c].seen.in
      BY <2>3 DEF Save, Records, NotThere
    <3>2. \A d \in Checkers : check'[d] = NoCheck
      BY <1>3, <3>1 DEF IInv, RecordsAlone
    <3> QED BY <2>1, <3>1, <3>2, NoCheckType DEF Save
  <2> QED BY <2>2, <2>3
<1>7. IndexGrows'
  <2>1. \A p \in Pkgs : 0 <= index[p] /\ 0 <= upstream[p]
    BY DEF IInv, TypeOK, Versions
  <2> QED BY <1>1, <1>3, <2>1, NoCheckType DEF IInv, IndexGrows
<1>8. Covered'
  BY <1>1, <1>3, NoCheckType DEF IInv, Covered, Covers
<1> QED BY <1>3, <1>5, <1>6, <1>7, <1>8 DEF IInv

LEMMA CheckKeeps == ASSUME IInv, NEW c \in Checkers, Begin(c) \/ CheckStep(c) PROVE IInv'
  BY BeginKeeps, ReadReposKeeps, RestoreKeeps, RefreshKeeps, ListKeeps, DiffKeeps, RecoverKeeps, DecideKeeps,
     UpdateKeeps, RelistKeeps, SaveKeeps DEF CheckStep

-----------------------------------------------------------------------------
(* What else goes on *)

\* Publish, Wipe, PersonInstalls, PersonRemoves, PersonUpdates, RefreshByHand, Apply.
LEMMA EngineKeeps ==
    ASSUME IInv,
           \/ Wipe \/ RefreshByHand \/ Apply
           \/ \E p \in Pkgs : Publish(p) \/ PersonInstalls(p) \/ PersonRemoves(p) \/ PersonUpdates(p)
    PROVE  IInv'
<1>1. UNCHANGED <<saved, snap, running, check, edit>>
  BY DEF Wipe, RefreshByHand, Apply, Publish, PersonInstalls, PersonRemoves, PersonUpdates, database
<1>2. upsets' \in 0 .. MaxUpsets
  BY UpsetType DEF Wipe, RefreshByHand, Apply, Publish, PersonInstalls, PersonRemoves, PersonUpdates
<1>3. RestOK
  <2>1. CASE Wipe
    <3>1. version' \in [Pkgs -> Versions] /\ index' \in [Pkgs -> Versions]
      BY <2>1, BoundsAssumption DEF Wipe, NotThere, Versions
    <3> QED BY <1>1, <1>2, <2>1, <3>1
            DEF Wipe, watched, NotThere, IInv, TypeOK, RestOK, EngineOK, EditOK, Follows, Rereads, Versions
  <2>2. CASE RefreshByHand
    BY <1>1, <1>2, <2>2, OfferedType
       DEF RefreshByHand, watched, IInv, TypeOK, RemovalIsKnown, RestOK, EngineOK, EditOK, Follows, Rereads, Versions
  <2>3. ASSUME NEW p \in Pkgs, Publish(p) PROVE RestOK
    <3>1. upstream' \in [Pkgs -> Versions] /\ \A q \in Pkgs : upstream[q] <= upstream'[q]
      BY <2>3, BoundsAssumption DEF Publish, IInv, TypeOK, Versions
    <3> QED BY <1>1, <1>2, <2>3, <3>1
            DEF Publish, watched, IInv, TypeOK, RemovalIsKnown, RestOK, EngineOK, EditOK, Follows, Rereads
  <2>4. ASSUME NEW p \in Pkgs, PersonInstalls(p) \/ PersonUpdates(p) PROVE RestOK
    <3>1. /\ version' = [version EXCEPT ![p] = index[p]] /\ index[p] > 0
          /\ UNCHANGED <<repos, applied, index, upstream>> /\ removed' \subseteq Pkgs
          /\ reported' \subseteq reported /\ reported' \subseteq removed' /\ p \notin reported'
      BY <2>4 DEF PersonInstalls, PersonUpdates, watched, IInv, TypeOK, RemovalIsKnown
    <3> QED BY <1>1, <1>2, <3>1 DEF IInv, TypeOK, RemovalIsKnown, RestOK, EngineOK, EditOK, Follows, Rereads, Versions
  <2>5. ASSUME NEW p \in Pkgs, PersonRemoves(p) PROVE RestOK
    <3>1. version' \in [Pkgs -> Versions]
      BY <2>5, BoundsAssumption DEF PersonRemoves, NotThere, Versions, IInv, TypeOK
    <3> QED BY <1>1, <1>2, <2>5, <3>1
            DEF PersonRemoves, NotThere, IInv, TypeOK, RemovalIsKnown, RestOK, EngineOK, EditOK, Follows, Rereads, Versions
  <2>6. CASE Apply
    BY <1>1, <1>2, <2>6
       DEF Apply, watched, IInv, TypeOK, RemovalIsKnown, RestOK, EngineOK, EditOK, Follows, Rereads, Versions
  <2> QED BY <2>1, <2>2, <2>3, <2>4, <2>5, <2>6
<1> QED BY <1>1, <1>3, OthersKeep

LEMMA AdminKeeps ==
    ASSUME IInv, WriteRepos \/ RefreshAfterEdit \/ \E r \in Repos : AddRepo(r) \/ DropRepo(r)
    PROVE  IInv'
<1>1. UNCHANGED <<applied, version, upstream, saved, snap, running, check, removed, reported>>
  BY DEF WriteRepos, RefreshAfterEdit, AddRepo, DropRepo, engine, database, watched
<1>2. upsets' \in 0 .. MaxUpsets
  BY UpsetType DEF WriteRepos, RefreshAfterEdit, AddRepo, DropRepo
<1>3. RestOK
  <2>1. CASE WriteRepos
    <3>1. repos' \subseteq Repos /\ EditOK' /\ index' = index
      <4>1. edit.current \subseteq Repos /\ edit.url \subseteq Repos /\ {OtherForm[r] : r \in edit.url} \subseteq Repos
        BY FormsAssumption DEF IInv, TypeOK
      <4>2. repos' \subseteq Repos /\ index' = index
        BY <2>1, <4>1 DEF WriteRepos, IInv, TypeOK
      <4>3. EditOK'
        <5>1. edit' = NoEdit \/ \E where \in {"refresh", "refreshOther"} : edit' = [edit EXCEPT !.at = where]
          BY <2>1 DEF WriteRepos
        <5> QED BY <5>1 DEF IInv, TypeOK, EditOK, NoEdit
      <4> QED BY <4>2, <4>3
    <3> QED BY <1>1, <1>2, <3>1
            DEF IInv, TypeOK, RemovalIsKnown, RestOK, EngineOK, EditOK, Follows, Rereads, Versions
  <2>2. CASE RefreshAfterEdit
    <3>1. /\ index' \in [Pkgs -> Versions] /\ \A p \in Pkgs : index'[p] \in {0, index[p], upstream[p]}
          /\ repos' = repos
      BY <2>2, OfferedType DEF RefreshAfterEdit, IInv, TypeOK
    <3>2. EditOK'
      <4>1. edit' \in {edit, NoEdit} \/ \E where \in {"writeOther", "writeBack"} : edit' = [edit EXCEPT !.at = where]
        BY <2>2 DEF RefreshAfterEdit
      <4> QED BY <4>1 DEF IInv, TypeOK, EditOK, NoEdit
    <3> QED BY <1>1, <1>2, <3>1, <3>2
            DEF IInv, TypeOK, RemovalIsKnown, RestOK, EngineOK, Follows, Rereads, Versions
  <2>3. ASSUME NEW r \in Repos, AddRepo(r) \/ DropRepo(r) PROVE RestOK
    <3>1. EditOK' /\ UNCHANGED <<repos, index>>
      BY <2>3 DEF AddRepo, DropRepo, engine, database, IInv, TypeOK, EditOK
    <3> QED BY <1>1, <1>2, <3>1
            DEF IInv, TypeOK, RemovalIsKnown, RestOK, EngineOK, Follows, Rereads, Versions
  <2> QED BY <2>1, <2>2, <2>3
<1> QED BY <1>1, <1>3, OthersKeep

LEMMA RestartKeeps == ASSUME IInv, Restart PROVE IInv'
<1>1. /\ UNCHANGED <<repos, applied, version, index, upstream, saved, snap, removed, reported>>
      /\ running' = FALSE /\ edit' = NoEdit /\ check' \in [Checkers -> Locals]
      /\ \A c \in Checkers : check'[c] = NoCheck
  BY NoCheckType DEF Restart, engine, database, watched
<1>2. TypeOK'
  <2>1. upsets' \in 0 .. MaxUpsets
    BY UpsetType DEF Restart
  <2>2. running' = ~At("schedule", "idle")'
    BY <1>1, NoCheckType DEF At, Checkers
  <2> QED BY <1>1, <2>1, <2>2 DEF IInv, TypeOK, NoEdit
<1>3. IdleIsEmpty' /\ RecordsAlone'
  BY <1>1 DEF IdleIsEmpty, RecordsAlone
<1>4. RemovalIsKnown'
  BY <1>1, NoCheckType DEF IInv, RemovalIsKnown, At
<1>5. IndexGrows'
  <2>1. \A p \in Pkgs : 0 <= index[p] /\ 0 <= upstream[p]
    BY DEF IInv, TypeOK, Versions
  <2> QED BY <1>1, <2>1, NoCheckType DEF IInv, IndexGrows
<1>6. Covered'
  BY <1>1, NoCheckType DEF Covered, Covers
<1> QED BY <1>2, <1>3, <1>4, <1>5, <1>6 DEF IInv

-----------------------------------------------------------------------------
(* The theorems *)

LEMMA NextIInv == IInv /\ [Next]_vars => IInv'
<1> SUFFICES ASSUME IInv, [Next]_vars PROVE IInv'
  OBVIOUS
<1>1. CASE UNCHANGED vars
  <2>1. UNCHANGED <<check, running>> /\ RestOK
    BY <1>1, NothingElse DEF vars, engine, watched
  <2> QED BY <2>1, OthersKeep
<1>2. CASE Next
  BY <1>2, CheckKeeps, EngineKeeps, AdminKeeps, RestartKeeps DEF Next
<1> QED BY <1>1, <1>2

LEMMA InductiveInvariant == Spec => []IInv
  BY InitIInv, NextIInv, PTL DEF Spec

\* The type invariant, the schedule's flag included.
THEOREM TypeCorrect == Spec => []TypeOK
  BY InductiveInvariant, PTL DEF IInv

LEMMA CoveredIsComplete == IInv => UpdatesAreComplete
<1> SUFFICES ASSUME IInv, NEW c \in Checkers, At(c, "update"), check[c].todo = {},
                    NEW p \in (check[c].seen.in \cap Installed) \ check[c].failed
             PROVE  version[p] >= check[c].fresh[p]
  BY DEF UpdatesAreComplete
<1>1. p \notin Behind(check[c], version)
  BY DEF IInv, Covered, Covers, At
<1>2. version[p] \in Nat /\ check[c].fresh[p] \in Nat /\ version[p] > 0
  BY DEF IInv, TypeOK, Locals, Versions, Installed
<1> QED BY <1>1, <1>2 DEF Behind

\* extensionMonitor.ts:1-18: whatever two runs, people, repositories and a
\* wipe do meanwhile, no update that a run's own refresh had found is missed.
THEOREM NoUpdateMissed == Spec => []UpdatesAreComplete
  BY InductiveInvariant, CoveredIsComplete, PTL

\* docs/extensions.md:43-44: however often the engine is wiped, a removal
\* that has been recorded is not undone.
THEOREM RemovalsLast == Spec => []StaysRemoved
<1>1. IInv => StaysRemoved
  BY DEF IInv, RemovalIsKnown, StaysRemoved
<1> QED BY <1>1, InductiveInvariant, PTL
=============================================================================
