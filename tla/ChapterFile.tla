----------------------------- MODULE ChapterFile -----------------------------
(***************************************************************************)
(* One chapter's file: downloadChapter's skip check (downloader.ts),       *)
(* writeAtomic and reapStaleTemp (fsAtomic.ts) and the reap at boot        *)
(* (server.ts).  Several loops may download the same chapter at once: a    *)
(* sweep, a manual check, an add and a fill share no lock but the gate.    *)
(* The process may die at any step and start again.                        *)
(***************************************************************************)
EXTENDS Naturals, FiniteSets

CONSTANTS
    Loops,          \* the loops that may want this chapter
    MaxCrashes,     \* bound: how often the process dies
    MaxWrites       \* bound: how often one loop opens a temporary file

ASSUME LoopsAssumption == IsFiniteSet(Loops) /\ MaxCrashes \in Nat /\ MaxWrites \in Nat

VARIABLES
    dest,       \* Chapter <n>.cbz: "absent", "partial" or "whole"
    tmp,        \* each loop's own .tmp.<hex>: "none", "partial" or "whole"
    writes,     \* how many temporary files each loop has opened
    orphans,    \* half-writes nobody is going to rename: their writer failed or died
    at,         \* where each loop is in downloadChapter
    reaper,     \* reapStaleTemp: "off", "reading" the folder, "unlinking"
    listed,     \* the half-writes its readdir returned
    up,         \* the process is running
    crashes     \* how often it died so far

fileVars == <<dest, tmp, writes, orphans, at, reaper, listed, up, crashes>>

Points == {"idle", "checked", "fetched", "writing", "synced", "skipped", "saved", "failed"}

\* A temporary file's name ends in random hex, so it is never used twice: the
\* loop and the count of its writes stand for it.
Names == Loops \X (0 .. MaxWrites)
NameOf(l) == <<l, writes[l]>>

FileTypeOK ==
    /\ dest \in {"absent", "partial", "whole"}
    /\ tmp \in [Loops -> {"none", "partial", "whole"}]
    /\ writes \in [Loops -> 0 .. MaxWrites]
    /\ orphans \subseteq Names
    /\ at \in [Loops -> Points]
    /\ reaper \in {"off", "reading", "unlinking"}
    /\ listed \subseteq Names
    /\ up \in BOOLEAN
    /\ crashes \in 0 .. MaxCrashes

\* A fresh start on a library that does not have the chapter.
FileInit ==
    /\ dest = "absent"
    /\ tmp = [l \in Loops |-> "none"]
    /\ writes = [l \in Loops |-> 0]
    /\ orphans = {}
    /\ at = [l \in Loops |-> "idle"]
    /\ reaper = "reading"
    /\ listed = {}
    /\ up = TRUE
    /\ crashes = 0

-----------------------------------------------------------------------------
(* downloadChapter *)

Move(l, from, to) == up /\ at[l] = from /\ at' = [at EXCEPT ![l] = to]

\* The bare stat(): any file is honoured as the chapter.
Skip(l) ==
    /\ Move(l, "idle", "skipped")
    /\ dest # "absent"
    /\ UNCHANGED <<writes, dest, tmp, orphans, reaper, listed, up, crashes>>

\* Nothing there, and assertFreeSpace passes: queue at the gate.  The bound on
\* the writes to come is taken here.
CheckAbsent(l) ==
    /\ writes[l] < MaxWrites
    /\ Move(l, "idle", "checked")
    /\ dest = "absent"
    /\ UNCHANGED <<writes, dest, tmp, orphans, reaper, listed, up, crashes>>

\* assertFreeSpace throws, or the fetch does.
Fail(l) ==
    /\ \/ dest = "absent" /\ Move(l, "idle", "failed")
       \/ Move(l, "checked", "failed")
    /\ UNCHANGED <<writes, dest, tmp, orphans, reaper, listed, up, crashes>>

Fetch(l) ==
    /\ Move(l, "checked", "fetched")
    /\ UNCHANGED <<writes, dest, tmp, orphans, reaper, listed, up, crashes>>

\* A loop may come for the chapter again, on the next sweep.
Again(l) ==
    /\ \/ Move(l, "saved", "idle")
       \/ Move(l, "failed", "idle")
       \/ Move(l, "skipped", "idle")
    /\ UNCHANGED <<writes, dest, tmp, orphans, reaper, listed, up, crashes>>

-----------------------------------------------------------------------------
(* writeAtomic *)

\* Mutant: a plain writeFile onto the final name.
OpenFinalName(l) ==
    /\ Move(l, "fetched", "writing")
    /\ dest' = "partial"
    /\ writes' = [writes EXCEPT ![l] = @ + 1]
    /\ tmp' = [tmp EXCEPT ![l] = "partial"]
    /\ UNCHANGED <<orphans, reaper, listed, up, crashes>>

\* fs.writeFile creates the temporary file...
OpenTmp(l) ==
    /\ Move(l, "fetched", "writing")
    /\ writes' = [writes EXCEPT ![l] = @ + 1]
    /\ tmp' = [tmp EXCEPT ![l] = "partial"]
    /\ UNCHANGED <<dest, orphans, reaper, listed, up, crashes>>

\* ...and has written all of it (its descriptor outlives an unlink)...
FinishTmp(l) ==
    /\ Move(l, "writing", "synced")
    /\ tmp' = [tmp EXCEPT ![l] = IF @ = "partial" THEN "whole" ELSE @]
    /\ UNCHANGED <<writes, dest, orphans, reaper, listed, up, crashes>>

\* ...or throws (ENOSPC) and leaves what it wrote behind.
WriteFails(l) ==
    /\ Move(l, "writing", "failed")
    /\ orphans' = IF tmp[l] = "none" THEN orphans ELSE orphans \cup {NameOf(l)}
    /\ tmp' = [tmp EXCEPT ![l] = "none"]
    /\ UNCHANGED <<writes, dest, reaper, listed, up, crashes>>

\* Mutant: an existing target is removed first, and the rename is another step.
UnlinkThenRename(l) ==
    /\ tmp[l] # "none"
    /\ \/ dest # "absent" /\ Move(l, "synced", "synced") /\ dest' = "absent" /\ UNCHANGED tmp
       \/ dest = "absent" /\ Move(l, "synced", "saved") /\ dest' = tmp[l] /\ tmp' = [tmp EXCEPT ![l] = "none"]
    /\ UNCHANGED <<writes, orphans, reaper, listed, up, crashes>>

\* fs.rename over whatever is there.
Rename(l) ==
    /\ Move(l, "synced", "saved")
    /\ tmp[l] # "none"
    /\ dest' = tmp[l]
    /\ tmp' = [tmp EXCEPT ![l] = "none"]
    /\ UNCHANGED <<writes, orphans, reaper, listed, up, crashes>>

\* The temporary file is gone: ENOENT.
RenameFails(l) ==
    /\ Move(l, "synced", "failed")
    /\ tmp[l] = "none"
    /\ UNCHANGED <<writes, dest, tmp, orphans, reaper, listed, up, crashes>>

-----------------------------------------------------------------------------
(* The process and the reap at boot *)

Live == {NameOf(l) : l \in {k \in Loops : tmp[k] # "none"}}

\* A kill: memory is lost, the files stay as they are.
Crash ==
    /\ up
    /\ crashes < MaxCrashes
    /\ up' = FALSE
    /\ crashes' = crashes + 1
    /\ orphans' = orphans \cup Live
    /\ tmp' = [l \in Loops |-> "none"]
    /\ at' = [l \in Loops |-> "idle"]
    /\ reaper' = "off"
    /\ listed' = {}
    /\ UNCHANGED <<dest, writes>>

\* server.ts starts the reap without awaiting it, then listens.
Boot ==
    /\ ~up
    /\ up' = TRUE
    /\ reaper' = "reading"
    /\ UNCHANGED <<writes, dest, tmp, orphans, at, listed, crashes>>

\* Mutant: the reap is given up without looking (a readdir of the root only).
ReapNothing ==
    /\ reaper = "reading"
    /\ reaper' = "unlinking"
    /\ UNCHANGED <<writes, dest, tmp, orphans, at, listed, up, crashes>>

\* readdir of the series folder: every name that ends in .tmp.<hex>.
ReadFolder ==
    /\ reaper = "reading"
    /\ listed' = orphans \cup Live
    /\ reaper' = "unlinking"
    /\ UNCHANGED <<writes, dest, tmp, orphans, at, up, crashes>>

\* unlink, one entry after another; "already gone" is swallowed.
Unlink(f) ==
    /\ reaper = "unlinking"
    /\ f \in listed
    /\ listed' = listed \ {f}
    /\ orphans' = orphans \ {f}
    /\ tmp' = [l \in Loops |-> IF f = NameOf(l) THEN "none" ELSE tmp[l]]
    /\ UNCHANGED <<writes, dest, at, reaper, up, crashes>>

ReapDone ==
    /\ reaper = "unlinking"
    /\ listed = {}
    /\ reaper' = "off"
    /\ UNCHANGED <<writes, dest, tmp, orphans, at, listed, up, crashes>>

Reap == ReadFolder \/ (\E f \in Names : Unlink(f)) \/ ReapDone

FileNext ==
    \/ \E l \in Loops :
          \/ Skip(l) \/ CheckAbsent(l) \/ Fail(l) \/ Fetch(l) \/ Again(l)
          \/ OpenTmp(l) \/ FinishTmp(l) \/ WriteFails(l) \/ Rename(l) \/ RenameFails(l)
    \/ Crash \/ Boot
    \/ ReadFolder \/ (\E f \in Names : Unlink(f)) \/ ReapDone

FileSpec == FileInit /\ [][FileNext]_fileVars

\* The container restarts and the walk of the library folder goes on.
FileFairSpec == FileSpec /\ WF_fileVars(Boot) /\ WF_fileVars(Reap)

-----------------------------------------------------------------------------
(* Properties *)

\* fsAtomic.ts:1, downloader.ts:311-312: the chapter's name is on a whole
\* file or on none, at every step of every loop and across every kill.
EntirelyThereOrNot == dest # "partial"

\* A chapter that is there stays there, whole, when another loop writes the
\* same chapter over it: readers and the scanner never lose it.
ChapterStays == [][dest = "whole" => dest' = "whole"]_fileVars

\* A loop that was told "already downloaded" was told the truth.
SkippedIsThere == \A l \in Loops : at[l] = "skipped" => dest = "whole"

\* fsAtomic.ts:22-39: a half-write that a kill left behind is removed by a
\* later boot, unless the process dies again before it gets there.
HalfWritesAreReaped ==
    \A f \in Names : (f \in orphans /\ up /\ reaper = "reading") ~> (f \notin orphans \/ ~up)
=============================================================================
