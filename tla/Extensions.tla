------------------------------ MODULE Extensions ------------------------------
(***************************************************************************)
(* bff/src/lib/extensionMonitor.ts: the check that keeps the installed     *)
(* extensions current (runExtensionCheck), started by the schedule         *)
(* (runExtensionMonitor) or by "Update all" (routes/admin.ts), together    *)
(* with what it meets: the extension engine, which keeps the repositories  *)
(* and the extensions and may be wiped, refuse a call or publish a new     *)
(* version; the people who install, remove and edit through Admin or the   *)
(* engine's own pages; the library sweep; and a restart.                   *)
(*                                                                         *)
(* One action per call to the engine: what the check read before it may be *)
(* out of date after it.  A database read or write goes with the step that *)
(* issues it.  Audit lines, pushes and the panel's counters are left out,  *)
(* and so is reloadAll, which changes nothing the check reads.             *)
(***************************************************************************)
EXTENDS Naturals, FiniteSets

CONSTANTS
    Pkgs, Repos,
    Offers,         \* the extensions a repository carries
    OtherForm,      \* altRepoUrl: the other URL worth trying for one, or itself
    HadAtFirst,     \* the extensions installed to begin with
    MaxVersion,     \* bound on the versions published
    MaxUpsets       \* bound on wipes, refusals, restarts, new versions and edits

ASSUME OffersAssumption == Offers \in [Repos -> SUBSET Pkgs] /\ HadAtFirst \subseteq Pkgs
ASSUME FormsAssumption == OtherForm \in [Repos -> Repos]
ASSUME BoundsAssumption == MaxVersion \in Nat \ {0} /\ MaxUpsets \in Nat

\* The two callers of runExtensionCheck.
Checkers == {"schedule", "updateAll"}

Phases == {"idle", "repos", "restore", "refresh", "list", "diff",
           "recover", "decide", "update", "relist", "save"}

Versions == 0 .. MaxVersion
NotThere == 0

VARIABLES
    repos,      \* the engine's extensionRepos
    applied,    \* the ones its next refresh reads: a change is applied asynchronously
    version,    \* the version installed on the engine; 0 when it is not
    index,      \* the version the engine last read in a repository; 0 when none has it
    upstream,   \* what the repositories publish
    saved,      \* server_settings.extension_repos
    snap,       \* extension_catalog: "unknown", or the installed flag of the row
    running,    \* extState.running
    check,      \* runExtensionCheck's locals, one record per caller
    edit,       \* routes/admin.ts: the locals of a repository's POST or DELETE
    upsets,     \* how much has gone wrong or changed so far
    removed,    \* observation: extensions a person removed and has not put back
    reported    \* observation: those a later check, alone, has recorded as removed

engine == <<repos, applied, version, index, upstream>>
database == <<saved, snap>>
watched == <<removed, reported>>
vars == <<repos, applied, version, index, upstream, saved, snap, running, check, edit, upsets,
          removed, reported>>

NothingOffered == [p \in Pkgs |-> 0]
Nothing == [in |-> {}, due |-> {}, listed |-> {}]
NoCheck == [at |-> "idle", repos |-> {}, wiped |-> FALSE, seen |-> Nothing,
            todo |-> {}, failed |-> {}, changed |-> FALSE, fresh |-> NothingOffered, gone |-> {}]
NoEdit == [at |-> "idle", current |-> {}, url |-> {}]

Locals == [at : Phases, repos : SUBSET Repos, wiped : BOOLEAN,
           seen : [in : SUBSET Pkgs, due : SUBSET Pkgs, listed : SUBSET Pkgs],
           todo : SUBSET Pkgs, failed : SUBSET Pkgs, changed : BOOLEAN,
           fresh : [Pkgs -> Versions], gone : SUBSET Pkgs]

At(c, where) == check[c].at = where

\* The type invariant; the schedule's flag is up while its check is under way.
TypeOK ==
    /\ repos \subseteq Repos /\ applied \subseteq Repos /\ saved \subseteq Repos
    /\ version \in [Pkgs -> Versions] /\ index \in [Pkgs -> Versions] /\ upstream \in [Pkgs -> Versions]
    /\ snap \in [Pkgs -> {"unknown", "in", "out"}]
    /\ running \in BOOLEAN
    /\ check \in [Checkers -> Locals]
    /\ running = ~At("schedule", "idle")
    /\ edit \in [at : {"idle", "write", "refresh", "writeOther", "refreshOther", "writeBack"},
                 current : SUBSET Repos, url : SUBSET Repos]
    /\ upsets \in 0 .. MaxUpsets
    /\ removed \subseteq Pkgs /\ reported \subseteq removed

Installed == {p \in Pkgs : version[p] > 0}

\* What a refresh of these repositories would find.
Offered(rs) == [p \in Pkgs |-> IF \E r \in rs : p \in Offers[r] THEN upstream[p] ELSE NotThere]

\* The engine's flag hasUpdate: recomputed by a refresh, from what it read.
HasUpdate(p) == version[p] > 0 /\ index[p] > version[p]

\* listExtensions: what the last refresh found, and what is installed.
Listing ==
    [in |-> Installed,
     due |-> {p \in Pkgs : HasUpdate(p)},
     listed |-> {p \in Pkgs : index[p] > 0 \/ version[p] > 0}]

Init ==
    /\ repos = Repos /\ applied = Repos
    /\ version = [p \in Pkgs |-> IF p \in HadAtFirst THEN 1 ELSE NotThere]
    /\ index = [p \in Pkgs |-> IF \E r \in Repos : p \in Offers[r] THEN 1 ELSE NotThere]
    /\ upstream = [p \in Pkgs |-> 1]
    /\ saved = {}
    /\ snap = [p \in Pkgs |-> "unknown"]
    /\ running = FALSE
    /\ check = [c \in Checkers |-> NoCheck]
    /\ edit = NoEdit
    /\ upsets = 0
    /\ removed = {} /\ reported = {}

-----------------------------------------------------------------------------
(* The check *)

Becomes(c, f) == check' = [check EXCEPT ![c] = f]
GoTo(c, where) == Becomes(c, [check[c] EXCEPT !.at = where])
Upset == upsets < MaxUpsets /\ upsets' = upsets + 1

\* The run is over: the scheduled one's finally clears the flag.
End(c) ==
    /\ Becomes(c, NoCheck)
    /\ running' = IF c = "schedule" THEN FALSE ELSE running

\* runExtensionMonitor sets the flag; "Update all" only looks at it, so a
\* check may begin beside one of its own.
Begin(c) ==
    /\ At(c, "idle")
    /\ ~running
    /\ running' = (c = "schedule")
    /\ LET alone == \A d \in Checkers : At(d, "idle") IN
       check' = [d \in Checkers |->
          IF d = c THEN [NoCheck EXCEPT !.at = "repos", !.repos = saved, !.gone = IF alone THEN removed ELSE {}]
          ELSE [check[d] EXCEPT !.gone = {}]]
    /\ UNCHANGED <<engine, database, edit, upsets, watched>>

\* Mutant: an empty list is taken for one that could not be read.
ReadReposUnlessEmpty(c) ==
    /\ At(c, "repos")
    /\ LET known == check[c].repos IN
       /\ saved' = IF known = {} THEN repos ELSE saved
       /\ Becomes(c, IF known \ repos = {} \/ repos = {}
                     THEN [check[c] EXCEPT !.at = "refresh", !.repos = {}]
                     ELSE [check[c] EXCEPT !.at = "restore", !.repos = repos \cup known])
    /\ UNCHANGED <<engine, snap, running, edit, upsets, watched>>

\* getRepos, and which of the three cases it is: the first check adopts what
\* the engine has (saveRepos), a later one looks for what is missing, and a
\* failed read skips both.
ReadRepos(c) ==
    /\ At(c, "repos")
    /\ LET known == check[c].repos IN
       \/ /\ saved' = IF known = {} THEN repos ELSE saved
          /\ Becomes(c, IF known \ repos = {}
                        THEN [check[c] EXCEPT !.at = "refresh", !.repos = {}]
                        ELSE [check[c] EXCEPT !.at = "restore", !.repos = repos \cup known, !.wiped = (repos = {})])
          /\ UNCHANGED upsets
       \/ Upset /\ Becomes(c, [check[c] EXCEPT !.at = "refresh", !.repos = {}]) /\ UNCHANGED saved
    /\ UNCHANGED <<engine, snap, running, edit, watched>>

\* setRepos with what was read and what was missing from it.
Restore(c) ==
    /\ At(c, "restore")
    /\ \/ repos' = check[c].repos /\ UNCHANGED upsets
       \/ Upset /\ UNCHANGED repos
    /\ Becomes(c, [check[c] EXCEPT !.at = "refresh", !.repos = {}])
    /\ UNCHANGED <<applied, version, index, upstream, database, running, edit, watched>>

\* Mutant: the missing call of the header, the list is read without a refresh.
RefreshForgotten(c) ==
    /\ At(c, "refresh")
    /\ Becomes(c, [check[c] EXCEPT !.at = "list", !.fresh = Offered(applied)])
    /\ UNCHANGED <<engine, database, running, edit, upsets, watched>>

\* refreshExtensions; when it fails the run stops there.
Refresh(c) ==
    /\ At(c, "refresh")
    /\ \/ /\ index' = Offered(applied)
          /\ Becomes(c, [check[c] EXCEPT !.at = "list", !.fresh = Offered(applied)])
          /\ UNCHANGED <<running, upsets>>
       \/ Upset /\ End(c) /\ UNCHANGED index
    /\ UNCHANGED <<repos, applied, version, upstream, database, edit, watched>>

\* listExtensions; nothing catches its failure but the caller.
List(c) ==
    /\ At(c, "list")
    /\ \/ /\ Becomes(c, [check[c] EXCEPT !.at = "diff", !.seen = Listing,
                                         !.fresh = [p \in Pkgs |-> IF index[p] > 0 THEN @[p] ELSE NotThere]])
          /\ UNCHANGED <<running, upsets>>
       \/ Upset /\ End(c)
    /\ UNCHANGED <<engine, database, edit, watched>>

\* Installed last time and not now.  Only the wipe signature puts it back.
Diff(c) ==
    /\ At(c, "diff")
    /\ LET gone == {p \in Pkgs : snap[p] = "in"} \ check[c].seen.in
       IN  Becomes(c, IF check[c].wiped /\ gone # {}
                      THEN [check[c] EXCEPT !.at = "recover", !.wiped = FALSE, !.todo = gone]
                      ELSE [check[c] EXCEPT !.at = "decide", !.wiped = FALSE])
    /\ UNCHANGED <<engine, database, running, edit, upsets, watched>>

\* setExtensionState(install): the engine installs what its index offers, or
\* the call fails and the loop goes on.
Recover(c, p) ==
    /\ At(c, "recover") /\ p \in check[c].todo
    /\ \/ /\ index[p] > 0
          /\ version' = [version EXCEPT ![p] = index[p]]
          /\ Becomes(c, [check[c] EXCEPT !.todo = @ \ {p}, !.changed = TRUE])
          /\ UNCHANGED upsets
       \/ /\ (index[p] = 0 /\ UNCHANGED upsets) \/ Upset
          /\ Becomes(c, [check[c] EXCEPT !.todo = @ \ {p}])
          /\ UNCHANGED version
    /\ UNCHANGED <<repos, applied, index, upstream, database, running, edit, watched>>

Recovered(c) ==
    /\ At(c, "recover") /\ check[c].todo = {}
    /\ GoTo(c, "decide")
    /\ UNCHANGED <<engine, database, running, edit, upsets, watched>>

\* Update, unless a sweep holds the engine (it may or may not), in which
\* case everything waits for the next check.  extension_auto_update is
\* whatever the last PATCH /api/admin/settings before the run made it.
Decide(c) ==
    /\ At(c, "decide")
    /\ \E auto, sweeping \in BOOLEAN :
        LET mayUpdate == auto \/ c = "updateAll"
            due == check[c].seen.due
        IN  Becomes(c, IF mayUpdate /\ ~(sweeping /\ due # {})
                       THEN [check[c] EXCEPT !.at = "update", !.todo = due, !.seen.due = {}]
                       ELSE [check[c] EXCEPT !.at = "relist", !.seen.due = {}, !.fresh = NothingOffered])
    /\ UNCHANGED <<engine, database, running, edit, upsets, watched>>

\* setExtensionState(update) for one that the list said was due.
Update(c, p) ==
    /\ At(c, "update") /\ p \in check[c].todo
    /\ \/ /\ version[p] > 0 /\ index[p] > 0
          /\ version' = [version EXCEPT ![p] = index[p]]
          /\ Becomes(c, [check[c] EXCEPT !.todo = @ \ {p}, !.changed = TRUE])
          /\ UNCHANGED upsets
       \/ /\ version[p] = 0 \/ index[p] = 0
          /\ Becomes(c, [check[c] EXCEPT !.todo = @ \ {p}, !.failed = @ \cup {p}])
          /\ UNCHANGED <<version, upsets>>
       \/ /\ Upset
          /\ Becomes(c, [check[c] EXCEPT !.todo = @ \ {p}, !.failed = @ \cup {p}])
          /\ UNCHANGED version
    /\ UNCHANGED <<repos, applied, index, upstream, database, running, edit, watched>>

Updated(c) ==
    /\ At(c, "update") /\ check[c].todo = {}
    /\ Becomes(c, [check[c] EXCEPT !.at = "relist", !.failed = {}, !.fresh = NothingOffered])
    /\ UNCHANGED <<engine, database, running, edit, upsets, watched>>

\* A second list when anything was installed; the first one when that fails.
Relist(c) ==
    /\ At(c, "relist")
    /\ \/ /\ Becomes(c, [check[c] EXCEPT !.at = "save", !.seen = IF check[c].changed THEN [Listing EXCEPT !.due = {}] ELSE @, !.changed = FALSE])
          /\ UNCHANGED upsets
       \/ check[c].changed /\ Upset /\ Becomes(c, [check[c] EXCEPT !.at = "save", !.changed = FALSE])
    /\ UNCHANGED <<engine, database, running, edit, watched>>

\* What the run has recorded as removed: removed by a person before it began.
\* (A run that put back what a wipe took, and whose second list then failed,
\* records as absent what it has just installed.)
Records(c) ==
    reported' = reported \cup {p \in (check[c].gone \cap removed \cap check[c].seen.listed) \ check[c].seen.in :
                                 version[p] = NotThere}

\* Mutant: a row once installed stays so (EXCLUDED.installed OR installed).
SaveKeepsInstalled(c) ==
    /\ At(c, "save")
    /\ snap' = [p \in Pkgs |-> IF p \in check[c].seen.in THEN "in"
                               ELSE IF p \in check[c].seen.listed /\ snap[p] = "unknown" THEN "out" ELSE snap[p]]
    /\ Records(c)
    /\ End(c)
    /\ UNCHANGED <<engine, saved, edit, upsets, removed>>

\* saveSnapshot: the rows of what was listed; the others stay as they are.
Save(c) ==
    /\ At(c, "save")
    /\ snap' = [p \in Pkgs |-> IF p \notin check[c].seen.listed THEN snap[p]
                               ELSE IF p \in check[c].seen.in THEN "in" ELSE "out"]
    /\ Records(c)
    /\ End(c)
    /\ UNCHANGED <<engine, saved, edit, upsets, removed>>

CheckStep(c) ==
    \/ ReadRepos(c) \/ Restore(c) \/ Refresh(c) \/ List(c) \/ Diff(c)
    \/ (\E p \in Pkgs : Recover(c, p)) \/ Recovered(c) \/ Decide(c)
    \/ (\E p \in Pkgs : Update(c, p)) \/ Updated(c) \/ Relist(c) \/ Save(c)

-----------------------------------------------------------------------------
(* What else goes on *)

\* A repository publishes a new version.
Publish(p) ==
    /\ upstream[p] < MaxVersion /\ Upset
    /\ upstream' = [upstream EXCEPT ![p] = @ + 1]
    /\ UNCHANGED <<repos, applied, version, index, database, running, check, edit, watched>>

\* The engine's volume is deleted.
Wipe ==
    /\ Upset
    /\ repos' = {} /\ applied' = {}
    /\ version' = [p \in Pkgs |-> NotThere] /\ index' = [p \in Pkgs |-> NotThere]
    /\ UNCHANGED <<upstream, database, running, check, edit, watched>>

\* Install and uninstall, in Admin or in the engine's own interface.
PersonInstalls(p) ==
    /\ version[p] = 0 /\ index[p] > 0 /\ Upset
    /\ version' = [version EXCEPT ![p] = index[p]]
    /\ removed' = removed \ {p} /\ reported' = reported \ {p}
    /\ UNCHANGED <<repos, applied, index, upstream, database, running, check, edit>>

PersonRemoves(p) ==
    /\ version[p] > 0 /\ Upset
    /\ version' = [version EXCEPT ![p] = NotThere]
    /\ removed' = removed \cup {p}
    /\ UNCHANGED <<repos, applied, index, upstream, database, running, check, edit, reported>>

PersonUpdates(p) ==
    /\ version[p] > 0 /\ index[p] > 0 /\ version[p] # index[p]
    /\ version' = [version EXCEPT ![p] = index[p]]
    /\ UNCHANGED <<repos, applied, index, upstream, database, running, check, edit, upsets, watched>>

\* POST /api/admin/extensions/refresh.
RefreshByHand ==
    /\ index # Offered(applied)
    /\ index' = Offered(applied)
    /\ UNCHANGED <<repos, applied, version, upstream, database, running, check, edit, upsets, watched>>

\* The engine comes round to a change of its settings.
Apply ==
    /\ applied # repos
    /\ applied' = repos
    /\ UNCHANGED <<repos, version, index, upstream, database, running, check, edit, upsets, watched>>

\* POST and DELETE /api/admin/extensions/repos read the list first; one that
\* cannot be read counts as empty.
AddRepo(r) ==
    /\ edit.at = "idle" /\ Upset
    /\ \E current \in {repos, {}} :
         /\ r \notin current
         /\ edit' = [at |-> "write", current |-> current, url |-> {r}]
    /\ UNCHANGED <<engine, database, running, check, watched>>

DropRepo(r) ==
    /\ edit.at = "idle" /\ Upset
    /\ \E current \in {repos, {}} : edit' = [at |-> "write", current |-> current \ {r}, url |-> {}]
    /\ UNCHANGED <<engine, database, running, check, watched>>

\* setRepos: the list that was read with the URL, its other form, or the
\* first again when that did no better; or the call fails and the request
\* ends.
WriteRepos ==
    /\ edit.at \in {"write", "writeOther", "writeBack"}
    /\ \/ /\ repos' = edit.current \cup (IF edit.at = "writeOther" THEN {OtherForm[r] : r \in edit.url} ELSE edit.url)
          /\ edit' = IF edit.at = "writeBack" THEN NoEdit
                     ELSE [edit EXCEPT !.at = IF @ = "write" THEN "refresh" ELSE "refreshOther"]
          /\ UNCHANGED upsets
       \/ Upset /\ edit' = NoEdit /\ UNCHANGED repos
    /\ UNCHANGED <<applied, version, index, upstream, database, running, check, watched>>

\* refreshExtensions, whose failure is only reported: once after a DELETE,
\* and after a POST until the list of extensions has grown or four attempts
\* are over, of which any may be the last here.
RefreshAfterEdit ==
    /\ edit.at \in {"refresh", "refreshOther"}
    /\ index' \in {Offered(applied), index}
    /\ \/ edit.url # {} /\ UNCHANGED edit
       \/ edit' = NoEdit
       \/ /\ edit.at = "refresh" /\ \E r \in edit.url : OtherForm[r] # r
          /\ edit' = [edit EXCEPT !.at = "writeOther"]
       \/ edit.at = "refreshOther" /\ edit' = [edit EXCEPT !.at = "writeBack"]
    /\ UNCHANGED <<repos, applied, version, upstream, database, running, check, upsets, watched>>

\* The process goes down and comes back: what is in memory is gone.
Restart ==
    /\ Upset
    /\ running' = FALSE /\ edit' = NoEdit
    /\ check' = [c \in Checkers |-> NoCheck]
    /\ UNCHANGED <<engine, database, watched>>

Next ==
    \/ \E c \in Checkers : Begin(c) \/ CheckStep(c)
    \/ \E p \in Pkgs : Publish(p) \/ PersonInstalls(p) \/ PersonUpdates(p) \/ PersonRemoves(p)
    \/ \E r \in Repos : AddRepo(r) \/ DropRepo(r)
    \/ WriteRepos \/ RefreshAfterEdit \/ Apply
    \/ RefreshByHand \/ Wipe \/ Restart

Spec == Init /\ [][Next]_vars

\* The schedule comes round (its timer is set again after each run), and a
\* call is answered or times out.  Upsets are bounded, so what is promised is
\* promised once they are over.
FairSpec ==
    /\ Spec
    /\ WF_vars(Begin("schedule"))
    /\ \A c \in Checkers : WF_vars(CheckStep(c))

-----------------------------------------------------------------------------
(* Properties *)

\* extensionMonitor.ts:1-18, the bug it exists to fix: when the updates of a
\* run are through, whatever was installed and did not fail is at least as
\* new as what the refresh of that run had found for it, if the list still
\* carried it, whoever changes the repositories or the extensions meanwhile.
UpdatesAreComplete ==
    \A c \in Checkers : At(c, "update") /\ check[c].todo = {} =>
        \A p \in (check[c].seen.in \cap Installed) \ check[c].failed : version[p] >= check[c].fresh[p]

\* docs/extensions.md:43-44, "Removing an extension in the engine's own
\* interface is reported, not undone": once a check that ran alone has
\* recorded the removal, no check puts it back, whatever is wiped later.
StaysRemoved == \A p \in reported : version[p] = 0

\* docs/extensions.md:36-38, "Puts your repository list back": when the
\* engine has lost its whole list, whatever was being checked or edited and
\* whichever calls failed, it comes to have one again.  What of a list that is
\* there has been taken out is the engine's to say (extensionMonitor.ts:267),
\* although the code puts that back too.
WipedListComesBack == []<>(saved = {} \/ repos # {})
=============================================================================
