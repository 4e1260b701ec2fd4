# A TLA+ model of Uchiyomi

Uchiyomi is a self-hosted manga reader: a Fastify server (`src/bff`), a Next.js
web application with a service worker (`src/web`), site adapters (`src/sources`)
and a PostgreSQL database.  It reads files from a library folder and it also
fetches new chapters from the sources an administrator has enabled.

This directory holds a model of the parts that run next to each other, fail half
way and outlive restarts: the server's fetching and filing, the jobs a person
starts, the extensions' monitor, sessions, tracker pushes, and the way of a turned
page from the reader's device to the bookmark.  It has TLA+ modules, TLC
configurations for small instances, and TLAPS proofs for instances of any size.
Source paths below are relative to `src/`; `lib/` is short for `bff/src/lib/`.

- [1. The system](#1-the-system)
- [2. The plan](#2-the-plan)
- [3. Modules and code](#3-modules-and-code)
- [4. Runs, bounds and what they show](#4-runs-bounds-and-what-they-show)
- [5. Fairness](#5-fairness)
- [6. What is proved](#6-what-is-proved)
- [7. What is only model-checked](#7-what-is-only-model-checked)
- [8. What is not modelled](#8-what-is-not-modelled)
- [9. Disagreements between code and documentation](#9-disagreements-between-code-and-documentation)
- [10. Running it](#10-running-it)

## 1. The system

The server is one Node process.  Its handlers and its background loops are
asynchronous functions on one event loop, so two pieces of code interleave
wherever one of them awaits, and nowhere else.  There are few locks: a flag
(`busy`, `sweeping`) here, an advisory lock there, the unique indexes of the
database, and the per-key gate.  State lives in four places: the memory of the
process, the database, the library folders and the browser.

| Component | State | Operations | What makes it correct |
| --- | --- | --- | --- |
| Per-key gate (`lib/gate.ts`) | a lane per key: `active`, `queue`, `nextFreeAt` | `withGate` | no more than `concurrency` at once; no slot idle while somebody waits; everybody who waits starts; starts are spaced |
| Chapter fetch (`lib/downloader.ts`) | locals: the pages, `worst`, `retryAfterMs`, `round` | `fetchChapter` | a chapter is whole or not written; a 429 is waited out; the right party is blamed; the caller stops when it should |
| Chapter file (`lib/fsAtomic.ts`) | the file, its `.tmp.<hex>` halves | `downloadChapter`, `writeAtomic`, `reapStaleTemp` | the chapter's name is never on half a file, through kills |
| Sweep (`lib/updater.ts`, `lib/chapterFailures.ts`) | `sweeping`, the queues, the failure ledger, `source_checked_at` | `runSweep`, `runUpdateAll`, `updateSeries`, the series check | the budget holds; a failing chapter is given up; a refusing source is left alone; every series is reached; what was downloaded becomes readable |
| Source health (`lib/sourceHealth.ts`) | `source_health`: streaks, `blocked_until` | `reportFail`, `reportOk`, `isCoolingDown` | a cooldown escalates once per incident and lapses |
| Library scanner (`lib/library.ts`) | `lib_series`, `lib_books`; the scan's walk | `persistScan` | every file is a book of the right series; nothing an administrator did is undone |
| Library administration (`lib/libraryAdmin.ts`, `routes/admin.ts`) | the folders, `deleted_at`, `merged_into` | hide, restore, merge, rename, delete files | all or nothing on disk and in the database; progress is never lost |
| Reading progress (`lib/progress.ts`) | `read_progress` | `writeProgress` | the newest event wins; filed under the series of its chapter |
| Adds and fills (`routes/sources.ts`, `lib/fill.ts`) | job cards, the fill plan | add, fill, dismiss | a card tells the truth; a fill repairs a series and never beside another job |
| Sessions (`lib/auth.ts`, `routes/auth.ts`) | `refresh_tokens` | login, refresh with rotation, sign out | one sign-out ends everything; a device is not signed out by its own refreshes |
| Trackers (`lib/trackers.ts`) | tracker links, the floor of what was pushed | push, import | the list at the service follows the reading; what goes wrong is shown; the lane goes on |
| Offline reading (`web/lib/downloads.ts`, `web/public/sw.js`) | IndexedDB: chapters, outbox | save, queue, flush | nothing read offline is lost or sent over newer reading |
| Extension monitor (`lib/extensionMonitor.ts`) | the saved repositories, the catalogue of extensions; the engine's own | check, restore, recover, update | updates are complete; what a person removed stays removed; the repository list comes back |
| Source watchdog (`lib/sourceWatchdog.ts`) | the sites' addresses | probe, follow a move, roll back | an automatic repair never makes it worse |
| Image cache (`lib/imageCache.ts`) | files by key, the in-flight map | get, sweep | one build to a key; the bound holds |
| Background hashing (`lib/fingerprintJob.ts`, `lib/pageHashJob.ts`) | rows without a hash | batches under an advisory lock | each book once, resumed after a kill |
| The process (`server.ts`, `lib/runtime.ts`) | timers, the stop flag | ticks, SIGTERM, boot | a stop loses no work |

How they meet.  The sweep, a series check, an add and a fill all call
`downloadChapter`; they share no lock but the gate, whose key is the source.
`downloadChapter` tests for the file, checks the free space, enters the gate,
fetches, and writes by a temporary file and a rename.  The fetch reports to
`sourceHealth`, and may hand its caller a `blockStatus`; the sweep's call then ends,
and the sweep asks `isCoolingDown` before it uses the source again, and parks its
queue.  Most writes to such ledgers, and some reads, pass over a database that
fails.  Files
become books only when `persistScan` runs, which every add, an administrator, and
a sweep that added something start, and which nothing serialises.  A scan reads a
folder's row, and writes it in a later transaction; administrators hide, merge,
rename and delete in between.  A reader's progress looks a chapter's series up and
files under it one await later.  A signal or a kill may stop all of this anywhere.

Jobs share the folder with the sweep and the scan, and a card with whatever other
job has the folder.  The extension monitor shares its engine with the sweep and
with people.  A completed chapter starts a tracker push that nobody waits for;
pushes of all series meet in one lane of the gate and share one row of the
connection.  In the browser, tabs and a service worker share one cookie and one
outbox without a lock, and a household shares the device.

What is hard: those interleavings, since a test runs one handler at a time; the
resume rounds of a fetch, where one counter bounds two reasons for going round;
the sweep's fairness, which shows only over many sweeps; a ledger two loops
write; the two halves of a rename on disk and in the database; and kills.  The
hazards are listed one by one, at their lines, in `PROJECT.json`, each with the
properties that would catch it or with the reason why none does.

## 2. The plan

The modules, in the order of what the system loses if the part is wrong.

| | Module | Models | State |
| --- | --- | --- | --- |
| 1 | `Slots`, `Gate`, `DownloadProofs` | the gate, and the semaphore it implements | all safety proved |
| 2 | `ChapterFetch`, `DownloadProofs` | one fetch | all safety proved |
| 3 | `ChapterFile`, `DownloadProofs` | one file, its writers, kills and boots | all safety proved |
| 4 | `Sweep`, `SweepProofs` | sweep, check, ledger, cooldowns, scan, process | all safety proved |
| 5 | `Library`, `LibraryProofs` | scans, administration, a download, a reader | all safety proved |
| 6 | `Outbox`, `OutboxProofs` | pings, the offline queue with its two flushers, and the newest-event rule | all safety proved |
| 7 | `Sessions`, `SessionsProofs` | refresh rotation, its grace, and every way a session ends | all safety proved |
| 8 | `Fill`, `Jobs`, `JobsProofs` | the decisions of a fill; adds and fills on the job board | all safety proved |
| 9 | `Trackers`, `TrackersProofs` | pushes of several series, their floors, the lane and the one connection they share | all safety proved |
| 10 | `Extensions`, `ExtensionsProofs` | two checks of the extensions beside people, wipes and restarts | all safety proved |

"All safety" is every invariant and every action property of the module's runs.
What could follow: the escalation of a cooldown (`sourceHealth.ts`), the
watchdog's proof and roll-back of a moved site, builds and eviction in the image
cache, moved folders (`LIBRARY_REMATCH`), the offline store's page-by-page writes,
a second `runUpdateAll` beside the sweep, and a statement of a scan's promise
that the detailed one can be shown to implement.

Composition.  `Gate` implements `Slots`, and `Trackers` uses a lane of one slot as
`Slots` describes it: first come, first served, the slot handed on.  `Sweep` takes
`ChapterFetch`'s verdicts as one step (that a `blockStatus` is always reported is
`BlockIsReported`, proved there; the report is a write that `Refused` may lose).
`Jobs` extends `Fill`.  `Outbox` composes the reader, two flushers, the PUT and
`writeProgress` in one module, because its properties are about the whole way of a
reading; which series the progress is filed under, while a merge moves the
chapter, is `Library`'s.

## 3. Modules and code

`PROJECT.json` maps each definition to the lines it stands for.  In every module
the definitions whose comment begins with "Mutant:" are plausible bugs of the
definition that follows them; no specification uses them.

### Slots and Gate

`Slots` is a semaphore with a line: `held`, `waiting`, and the actions `Take`,
`Wait`, `GiveBack` and `PassOn`.  `Gate` is one lane of `withGate`.  `pc` says
where each caller is (queued, woken, in the gap's sleep, running); `active`,
`queue` and `nextFree` are the lane's fields.  `Enter`, `Enqueue`, `Resume` and
`SleepOver` are the stretches between two awaits of `withGate`; `FinishWaking` and
`FinishQuiet` are its `finally`, with and without a successor, the deletion of an
idle lane included.  Time is kept as what is left until an instant, so that an
absent lane and a fresh one are the same state.

One point of the event loop matters: the continuation of a resolved promise runs
in the microtask drain that resolved it, so between a hand-over and the woken
caller's `active++` nothing else of the lane runs.  `NoneWoken` guards the other
actions with it.  Without it a newcomer could take the slot meant for the woken
caller, and the limit would be passed.

Gate implements Slots with `held` the callers in the gate or woken, and
`waiting` the queue.

### ChapterFetch

`fetchChapter` for a chapter of `NPages` pages.  A page's answer is what the code
keeps in `worst`: an HTTP status, or one of the two sentinels below 400 for an
empty body and a lost connection.  `phase` walks through listing, the first pass,
the resume rounds and the verdict.  `FetchPage` is one request of a pass,
`Remaining` the break after a 429, `ResumeRound` the tests at the head of the
resume loop, `Blip`, `Soft` and `Refusing` the three booleans of the verdict under
their names in the code, and `BlameFor` the function of that name.  `result` is
what leaves the function: whether the file was written, what was reported to
`sourceHealth`, and the `blockStatus`. `asked`, `seen` and `limits` (how many
answers were a 429) are observations.

Left out: pacing, headers, the page's bytes, and the length of a wait (`mustWait`
says that there is one).

### ChapterFile

The chapter's name (`dest`) is absent, on a whole file or on a partial one; each
loop has a temporary file of its own.  `Skip` and `CheckAbsent` are the bare
`stat()`; `OpenTmp`, `FinishTmp`, `WriteFails`, `Rename` and `RenameFails` are
`writeAtomic` cut at every system call; `ReadFolder`, `Unlink` and `ReapDone` are
the reap, which the boot starts and does not await, so it runs beside the loops.
`Crash` leaves the files as they are.

A rename is atomic and survives a kill of the process.  A loss of power (the code
calls no `fsync`) is out of scope.

### Sweep

`worker["sweep"]` and `worker["check"]` are two calls of `updateSeries` with their
locals, taking the same actions: `Begin` (the early returns), `ListsNothing` and
`Lists` (the list, the stamp, the ledger, the oldest `maxNew`), then per chapter
`Skips`, `DiskFull`, `Fetches` and one of `Lands`, `FailsAlone`, `Refused`.
Whatever ends a call `Leaves` its result to the sweep's `Tally`; of the check's,
the handler's `.then` only shows it and clears the busy flag, in the turn of the
event loop in which the call returns. `sweep` holds `runUpdateAll`'s locals;
`StartSweep`, `PassOver`, `StopShort`, `Visit`, `Tally`, `EndPass` and `After` are
its loop, one action for each exit and each visit; `Over` keeps what is used after
the loop.  `AskingThrows` is the one way out of the loop that passes the scan by.
`ScanFolder`, `ScanEnds` and `ScanThrows` are as much of `persistScan` as concerns
chapters.  `Sigterm`, `Exits` and `Boot` are the process.  The database
(`library`, `blocked`) outlives it; the locals do not.

With `DbFails` every statement that the code lets fail may fail, and does what it
does there: a ledger that cannot be read is an empty one (`blind`), a failure that
cannot be noted is not counted, a stamp or a report that fails is passed over, and
a read that nothing catches ends the call (`Throws`), the loop (`AskingThrows`) or
the scan (`ScanThrows`).  `FillFails` is a fill job's part in the ledger, which it
writes without a cap.  `retried` and `refused` are observations of what was
written: the failures noted by calls that had read the ledger, and the sources
whose refusal is on record and that still cool.

`order` gives each series its place by `source_checked_at`, from the one that was
checked longest ago; a stamp puts a series last and moves up those that were
behind it.  `rows` is the answer of the query that opens a sweep: the place each
series had then, or none.  The queues are a Map of arrays in the order of the
rows; here they are sets, and `Turn` and `Shift` find what the Map's iteration and
the array's `shift` take next as the one whose row comes first.

Abstractions.  `order` is by `source_checked_at` alone: two series stamped in the
same instant do not occur.  Cooldowns have no length; each lapses
at some time.  `FailsAlone` may set or clear the source's cooldown or leave it,
as the fetch's report may.  Chapters are a window of numbers: a chapter that is a
book and that nobody works on can become a new one (`Publish`), so that a source
publishes for ever in a finite model.

### Library

Files are (root, folder, chapter) triples in `disk`; `row` is `lib_series`; `book`
is `lib_books` with the reader's progress, by (root, file).  A scan walks a root
(`WalkRoot` reads everything at once, as `findSeriesDirs` does before the first
transaction), reads a folder's row (`SkipHidden`, `KnownRow`), and applies it in
one transaction (`ApplyFolder`, with `seenFolders` and `mergeTarget` deciding the
series).  `Hide`, `Restore` and `Merge` are single transactions.  `DeleteFiles`
begins a deletion: `DeleteInRoot` reads the series' books of the next root,
`DeleteFile` removes one file, any of which may be left behind, as a failing
`rm` is, and `EndDelete` ends it after the last root or before.  A rename is
`AskRename`, a `MoveRoot` or `MoveFails` per root, the undo, and `SaveRename` or
`SaveThrows`.  A download reads the folder's name
when it begins (`StartUpdate`, `Add`) and lands in it later (`Land`).  A reader's
write is cut at its await (`OpenBook`, `WriteProgress`).

The unique index on (library, folder) bounds the rows by the folders.
`LIBRARY_REMATCH` is off, as by default; there is one library and one
administrator's request at a time.  Merges may form a chain, which a scan follows
for one step, as the code does.  `settled` observes that a scan ended undisturbed;
`split`, that a rename took effect under a scan or of a row that was merged away.

### Extensions

`runExtensionCheck` call by call: `Begin`, `ReadRepos`, `Restore`, `Refresh`,
`List`, `Diff`, `Recover`, `Decide`, `Update`, `Relist`, `Save`.  `check[c]` holds
the locals of the two callers, the schedule and "Update all"; `running` is the
flag that the second one tests and does not set, so that the two may overlap.
`repos`, `version` and `index` are the engine's, and change under a check:
`Wipe`, `PersonInstalls`, `PersonRemoves`, `PersonUpdates`, `Publish`,
`RefreshByHand`.  A change of the list is not read at once: `Apply` is the engine
coming round to it, and a refresh reads `applied`.  An edit of the repositories
runs beside the checks: `AddRepo` or `DropRepo` reads the list (or takes one that
cannot be read for empty), `WriteRepos` writes it, `RefreshAfterEdit` is the one
refresh of a removal or the up to four of an addition, which may then try the
URL's other form and put the first one back.  Any call may be refused, within
`MaxUpsets`.  `removed` and
`reported` are observations, and so is a run's `fresh`: what its refresh had found
for the extensions that its list still carries.

### Fill and Jobs

`Fill` has the pure functions of `lib/fill.ts` under their names, over sets of
chapter numbers in halves.  `Jobs` is `routes/sources.ts`: `jobs` is the board,
one card to a folder, and `cards` the objects on it; a worker looks its card up
by the folder at each report (`Card`), except where the code keeps hold of one
across an await (`FillChapterFails`, `FillNoted`).  `Look`, `StartAdd` and
`StartFill` are the requests, `FirstFails` to `Finish` the worker's stretches
between awaits, `TakeOff` the dismissal and the five minutes.  `shared` is an
observation: beside this card another worker was at work.

Left out: the count on a card, the scan at every fifth chapter, the limit of 300
chapters, the life of a plan, the art of a series.

### Sessions

The refresh tokens of one account, seen from one device: a cookie jar, and the
tabs and the service worker that refresh over it without a lock.  `Send`,
`Validate`, `Issue`, `Retire` and `Receive` are a refresh cut at every statement
(`validateRefreshForRotation`, the INSERT and the UPDATE of `issueRefreshToken`);
`Lose` loses a request or its reply.  `SignOut`, `Revoke`, `SignedOut` are a
sign-out, `Keep` and `EndOthers` a sign-out of the other devices or a change of
password, `EndElsewhere` the end of all sessions.  `since` counts the ticks after
a rotation, for the grace.  `slipped`, `crossed` and `trouble` observe what the
properties excuse.

Left out: access tokens, the sixty days, the sign-in.  Nobody signs in again.

### Outbox

The readings of one chapter.  `Turn` and `PingServed` are the reader's live PUT.
When it fails, `QueueProgress` is the check that somebody is signed in and the
wait for the store, and `AddToOutbox` the row, with the account and the time of
that moment, be it `anon`; `AddFails` is a store that does not open or take it.
`flush["page"]` and `flush["worker"]` are the locals of `flushOutbox` and
`flushOutboxWith`, which take the same actions and differ in whose requests they
make (`SpeaksFor`), in whose entries they take for their own (`Mine`), and in that
the page puts an entry back and the worker leaves it (`Settle`); `FlushBreaks`
ends one at any point.  `Written` is the upsert of `writeProgress`.  People read
elsewhere, mark by hand, take the chapter away, close the tab, sign out and in;
`hint` is what the worker was last told.

Time is a count of events; clocks agree, and nothing is stamped twice in one
instant.  `completed` is left out, as the server only ever ORs it.

### Trackers

`pushSeriesProgress` and `pushOne`, one action to a statement (`ReadConn`,
`ReadProgress`, `ReadLink`, `ReadFloor`), to the wait in the lane and the answer
of the service (`Send`, `Accept`, `Reject`, `TimeOut`), to each write after it
(`Synced`, `RaiseFloor`, `Fail`, `Disable`), and to the `finally` of `withGate`
(`Leave`).  A read that throws ends a push without a word (`ReadFails`); a
`markError` that fails is swallowed (`MarkError`).  `Complete`, `Backfill` and
`Resync` start pushes.

Pushes of several series share `lane`, the person's one lane of the gate, and
`conn`, the one row of `user_trackers` with its one `last_error`; `linked`,
`floor` (`tracker_progress`) and `remote` (the list at the service) are per
series.  `Connect`, `Disconnect`, `Link`, `Unlink`, `MarkUnread` and `Renumber` are
people's, `Restart` the world's.  `taken` observes the largest number the service
ever took, `astray` where the code leaves silence behind.

A token has no identity: whether it has lapsed, or the service rejects it, is open
each time.  One person and one service: nothing in `src/` links a series to any
but AniList.  A chapter is its number; the rounding of a fraction
(`MAX(number)::int`) is left out.

## 4. Runs, bounds and what they show

| Run | Instance | What it shows |
| --- | --- | --- |
| `gate_two_slots` | 4 callers, 2 slots, a gap of 2 units | every call starts, and `Gate` implements `Slots` |
| `chapter_fetch` | 3 pages, 3 rounds, every kind of answer, 0, 2, 3 or 4 declared pages | whole or nothing, 429s waited out, no request in vain, the blame, every stop reported, it ends |
| `chapter_file` | 2 loops, 2 writes each, 2 kills | whole or absent, never lost, halves reaped |
| `sweep_check` | a series of 2 chapters, budget 2, cap 2, a check and a fill beside the sweep, the series hidden and restored, a failing database, a signal or kill and a boot | the cap as far as the ledger can be read, and that a sweep shelves what it downloaded unless the database throws |
| `sweep_rotation` | 4 series of 3 sources, one not installed, budget 2, new chapters for ever | the budget, parked queues only, no knock after a refusal, downloads become books, sweeps end, no series starves |
| `library_scan` | 3 folders, 2 roots, 2 scans, 2 changes by an administrator or a download, a reader | an undisturbed scan shelves every file in a series that the merges lead to, progress stays with its chapter, a rename moves and saves all or is undone |
| `extension_check` | 1 extension, 2 repositories, the second the other form of the first's URL, 2 versions, both callers, 2 upsets | updates are measured against what was on offer in that run, a recorded removal stays, a list that is gone comes back |
| `download_jobs` | 1 folder, 2 chapters, an add of either kind and 2 fills; the decisions over every library and list of five chapters, and long ones with a hole | a card of one worker tells the truth, a fill keeps aside, every card stops, a fill repairs |
| `session_refresh` | 2 refreshers, 3 tokens, a grace of 3 ticks, a latency of 1 | a device is not signed out by its own refreshes, an end is an end, and is noticed |
| `reading_progress` | 2 readings, 2 accounts, both flushers, 1 upset | nothing that the store took is lost, it is filed against its reader, the newest wins |
| `outbox_replay` | the same, without upsets | a violation, see [section 9](#9-disagreements-between-code-and-documentation) |
| `tracker_pushes` | 2 series, of 2 numbers and of 1, 2 pushes, 2 upsets | silence means synced but for the named cases, the slot is never lost, the floor is never above what the service took |

Why the bounds are enough.

- Gate: two slots and four callers give two in the gate and two in line, the least
  that tells first come first served from last come, and a hand-over from an
  entry.  Two units of time separate "now" from "later" from "due".
- Fetch: three pages, with the bars at 60 and 30 per cent, put one page below both
  bars or between them and two pages above both, so each verdict is reached; three
  pages also leave a gap before, at and after the page that answers 429.
  `MAX_RESUMES` has its real value.  The declared count is absent, short, exact
  and long.
- File: one write races another and a reap; with a second write by the same loop a
  stale listing meets a new temporary file.  Two kills let a half-write survive
  one reap and meet the next.
- Sweep: in the rotation, a budget of two against three reachable series, one of
  which is two chapters behind, cuts every sweep short, and two series of one
  source tell its cooldown from its turn.  The instance is without restarts and
  with a database that works: one that failed to write every stamp would starve
  anybody.  In the check, a single series with two chapters is what a sweep, a
  check and a fill meet at.  The cap is passed by one when two callers have read
  the ledger: the bound that the property states is reached.
- Library: two roots are what `LIBRARY_ROOT` and `DL_ROOT` are.  Three folders
  give two series and a free name.  Two changes let an administrator hide and
  restore, merge and merge, or rename while a download lands; two scans overlap
  with each other and with these.  The scanners are interchangeable, and the run
  uses that symmetry; its properties are all safety.
- Extensions: two repositories are the least of which an edit can take a part, or
  try another form.  Extensions do not interact, so one is enough.  Two upsets let
  a wipe meet a refused call, a removal, or a new version, and let a second check
  begin in the middle of the first.
- Jobs: three requests are what an overwritten card takes: a first worker, a
  second that finds the card closed, and a third.  Two chapters let one land and
  one fail.  A fill's decisions are per library and list and are enumerated: five
  chapter numbers, one of them a half, give every shape of a hole, and a library
  of twelve against thirteen puts nine in ten within reach.
- Sessions: two refreshers are enough for the collision that the grace is for;
  three tokens are two rotations, so that a token is rotated while the reply of
  the one before is on its way.  A grace of three and a latency of one are the
  smallest numbers with the grace more than twice the latency.
- Outbox: two readings are the least with an order, and two accounts the least
  that can be mistaken.  With one upset a hand-over and a mark by hand do not meet
  in one behaviour; the proofs have no such limit.
- Trackers: two pushes are the least that cross, of one series or of two; two
  numbers are the least of which one is smaller, and the second series is there
  for its errors and its place in the lane, for which one number will do.  Two
  upsets let an unseen failure be followed by a restart or a new connection.  The
  pushes are interchangeable, and the run uses that symmetry; its properties are
  all safety.

Bounds in the models: `MaxCrashes`, `MaxWrites`, `Restarts`, `MaxChanges`,
`Reading` (which chapters may be read), `RetriedBound` (above what the property
allows, so that it stops no counter-example), `AttemptsBound`
(the cap, which is all the code asks about), `MaxVersion`, `MaxTokens`, `Top`,
`MaxUpsets`, and that `Sessions` loses at most one message.

Three runs switch the deadlock check off.  Jobs stops when all requests have been
made and all cards are gone; in both runs of Outbox the readings are used up and
there may be nothing left to send.

Each property of the passing runs has a mutant in `PROJECT.json`: a small change
to one definition, of the kind a later commit could make, for which TLC finds the
property violated.

## 5. Fairness

- Gate: the clock runs, a timer that is due fires, and what runs in a slot
  settles.  These three are events of the loop, which comes round to each of
  them however many microtask drains lie in between, so they are strongly fair; a
  woken continuation is weakly fair.  That an operation settles is justified by
  its callers: a chapter's fetch and a tracker's push are bounded by timeouts of
  their own.  Nobody is bound to call.
- ChapterFetch: some step is always taken, as each request has a timeout and
  each sleep ends.
- ChapterFile: a container that died is restarted (`restart: unless-stopped` in
  the compose file), and a reap that has begun goes on.  No loop is bound to do
  anything.
- Sweep: the tick comes round, the loop's own steps and each call of
  `updateSeries` go on, a cooldown lapses, a process that was told to stop does,
  and one that went down is started.  Nobody is bound to ask for a check, to
  publish, to hide a series or to send a signal.  `EverySeriesGetsItsTurn` excuses
  a series that is hidden again and again and one whose source cools down again
  and again: a source that cools down before each of its series' turns never
  gives it one, and the code promises no more.
- Extensions: the schedule comes round (its timer is set again after each run),
  a call to the engine is answered or times out, and a repository edit that has
  begun goes on.  Nobody is bound to press "Update all".
- Jobs: a worker that has begun goes on, as its downloads have timeouts.  Nobody
  is bound to ask for anything, or to dismiss a card.
- Sessions: the refresh timers come round, the server answers, replies arrive, a
  sign-out that has begun is served, and time passes.  Nobody is bound to end a
  session.
- Outbox and Trackers have safety properties only, and no fairness: whether a
  queue drains is up to the network, and whether a push comes, to the reader.

## 6. What is proved

The proofs hold for all values of the constants that satisfy the modules' named
assumptions, which say no more than the types of the code's parameters: finite
sets of callers, loops, series, folders and chapters, natural bounds, a routing of
series to sources.  One is more than a type: `LatencyAssumption` of Sessions, that a
refresh is normally answered within half the grace.

Each module's `IInv` is the conjunction of named parts at its head, and is shown
to hold initially and to be kept by each action, one lemma for each action or
group of actions with a common effect.  The facts about minima and maxima of
finite sets of numbers are derived from the well-foundedness of `<`.

**DownloadProofs** has the three parts of a downloaded chapter's way, which share
no variable and have an invariant each.

*The gate.*  `BoundedConcurrency`, `WorkConserving`, `QueueExact`,
`GateTypeCorrect`, and `Refinement`: `GateSpec => ImplementsSlots`.  The limit is not
inductive: a `finally` lowers `active` and wakes a caller that raises it later.
The invariant adds that `active` is exactly the callers in the gate, that at most
one caller is woken and its slot still free, that callers queue only while all
slots are used or handed over, and that the queue lists each queued caller once.
The refinement maps every action to `Take`, `Wait`, `GiveBack`, `PassOn` or a
stutter; a caller that is woken is held already, which is why `Resume` stutters.

*The fetch.*  `WrittenWhole`, `NoBurstAfterRateLimit`, `RateLimitsCostTimeOnly`,
`SilentRefusalOnce`, `OutageBlamesNobody`, `BlocksAreReported`, `PagesAreKept` and
`FetchTypeCorrect`.  The invariant says that a pass asks for missing pages only
(so a kept page is not asked for again), that the rounds bound the requests of
each page (hence the type of `asked`), that `worst` is an answer that came, that
a chapter of which nothing arrived and which nobody asked to wait has had one
pass, and what `result` is at each phase.  That 429s cost nothing but time needs
the count of them against the rounds from both sides: a pass ends at its first
429, so there are at most as many as passes (`LimitsByRound`), and where nothing
else goes wrong each pass that leaves a gap has met one (`EachPassMetALimit`), so a
chapter that runs out of rounds has met more than `MAX_RESUMES` of them.

*The file.*  `EntirelyThere`, `SkipIsSound`, `NeverLost` and `FileTypeCorrect`, for
any number of loops, writes and kills.  The strengthening is that a loop at its
rename holds a whole temporary file or none: the name is its own, so nobody
truncates it, and a reap can only take it away.

**SweepProofs.**  `SweepKeepsItsBudget`, `FailuresAreCapped` and
`RefusersAreLeftAlone`, from `InductiveInvariant`; `TypeCorrect`,
`NobodyElseIsLeftOut` and `SweepShelves` beside it; for any library, sources and
limits.

- The budget holds because a call's attempts and what it may still attempt are
  within its `maxNew` (`WithinMax`), which was what the budget had left
  (`CallWithinBudget`); a lemma shows that the oldest k chapters are at most k.
- The cap is stated of calls that could read the ledger.  Of the failures on
  record, theirs, and one for each such call that has not yet come to the
  chapter, are at most `RetryCap + 1` (`LedgerCounts`): the code reads the ledger
  once, before the downloads.  That a fill or a blind call also counts only helps,
  since below the cap the ledger shows at least the failures in question
  (`NothingHidden`); that a note is lost takes nothing away from the bound.
- A refusal that is written down ends the sweep's call in the step that sets the
  cooldown, and the source stays refused only while it cools down
  (`refused \subseteq blocked`), so a call that passes `Begin` is not to a refused
  source.  A refusal that could not be written (`sourceHealth.ts:61`) is not in
  `refused`, and holds nobody back.
- The types need that a stamp permutes the places (`StampPermutes`), and that each
  source with a turn to come has a row in the query's answer (`RowsAreKnown`):
  without it a source without a row could be asked for its first.
- Only parked series are left out because, at any point of a pass, a source with
  a series in its queue is a key of the Map still, and is to come in this pass, or
  parked, or the pass has made progress and there will be another
  (`StillQueued`).  A key is deleted only in the pass that finds its queue empty.
- What was downloaded is shelved because it is handed from one stage to the next
  without a gap (`LandedAreHandled`): counted by the call, then by the sweep, then
  seen by the scan's walk, then a book.  The mutant that leaves the loop before
  the count breaks the second link; so does the code where a parked source is
  asked about and the database throws, which the property excepts by name.

**LibraryProofs.**  `TypeCorrect`, `ScansShelve`, `ReadStays` and
`RenamesAllOrNone`, for any folders, roots and scanners, and any number of changes.

- `Sound` is the types and more: rows are one to a folder, which is what leaves an
  id free for a folder that has no row (`IdLeft` counts ids against folders), and
  whatever a book, a scan or a rename remembers is a row.
- The scans' promise is about one that nothing disturbed, while others overlap
  with it.  Scans that overlap are all undisturbed or all disturbed
  (`ScansAgree`), what an undisturbed one remembers of a folder's row and of its
  merge is still so (`Remembers`), and each file is shelved or still on that scan's
  list (`FreshScans`); when the list is empty every file is shelved
  (`SettledIsShelved`).  The invariant has the series the code puts a file in, one
  step down the chain of merges; the property asks only for one that the merges
  lead to, and would hold of a scan that follows the chain to its end.
- That progress stays needs a statement of everything that knows of a series:
  the book, what a reader has looked up, what is already filed, and what a scan
  carries across its await are the folder's own row or one it was merged into
  (`AllIsKin`).  The union over the chain is needed because a scan follows one step
  of it and a merge moves on.  A merge only adds to what a row leads to, which is
  why nothing that was kin stops being so; two things that are kin of one folder
  have a survivor in common because a row is merged into one other at most.
- A rename keeps account of which roots it has moved (`RenameIsHalfWay`): every
  file it began with is under the new name if its root is done, else under the
  old one, while scans read and a download writes beside it; and the row has the
  old name until the end (`RenameIsOfRow`), so that one that does not save has
  changed no row.  The undo takes
  roots out of `done` one by one.

**ExtensionsProofs.**  `NoUpdateMissed`, `RemovalsLast` and `TypeCorrect`, for any
extensions, repositories and upsets.  Who may record a removal has been alone
since it began (`RecordsAlone`); what is recorded was absent when any run that is
still under way looked, and none is about to put it back (`RemovalIsKnown`).  That
updates are complete rests on what the repositories publish only growing
(`IndexGrows`), and on the run's own list: what it found installed and behind is
due, then still to do or failed (`Covered`), though people install, remove and
update meanwhile.

**TrackersProofs.**  `SlotIsKept`, `ShortEndsAreTold`, `FloorIsTaken` and
`TypeCorrect`, from `InductiveInvariant`, for any number of series and pushes.
That the slot is kept needs that the lane lists each push in the gate once
(`LaneIsSound` itself, with `LaneIsJoined` and `LaneIsLeft` for its two changes).
That silence means synced needs, for each place a push may stand at, what it
carries (`CarriesAll`): until its series goes astray it is the only push of it
(`AloneOrAstray`), has at least the largest completed number once it has read it,
and the service has that number once it has accepted.  A step of a push leaves
every other series as it was, but for the one error that they share
(`OthersKeep`).  That the floor was taken needs that what is accepted was
(`AcceptedIsTaken`).

**SessionsProofs.**  `DeviceStays`, `EndIsEnd` and `TypeCorrect`, for any number
of tabs and tokens and any grace.  `DeviceStaysSignedIn` needs three things
together (`AllIsWell`): the cookie is live, or its replacement is on its way and
was asked for before the cookie was rotated; what a refresh asks about stands, or
was rotated at most a latency before it was sent; and during a sign-out of the
others the cookie is the one that is kept.  Two latencies are thus the longest
between a rotation and the last look at the old token, which is where
`LatencyAssumption` is used, and why the grace must be more than twice as long.

**JobsProofs.**  `CardsAreTrue`, `FillsKeepAside` and `TypeCorrect`, for any
requests, folders and chapters, and `FillsRepair`, for any sets of natural numbers
as library and list.  The invariant says who may write to a card: whoever works
on a folder beside the card on the board shares it (`OnBoard`, `Together`), a card
held across an await is the worker's own or a shared one (`Held`), and one that is
not shared is on the board and says "downloading" for as long as its worker works
(`OwnCard`), which accounts for every chapter it was asked for (`Accounted`).

**OutboxProofs.**  `NothingIsLost`, `FiledRight`, `NewestStays` and `TypeCorrect`,
for any accounts, readings and mishaps.  That nothing is lost rests on three facts:
what is queued has an owner (`Queued`), whose row is being added has signed in or
is excused (`SignedOut`), and a flush deletes only what was answered (`Answered`),
whichever of the two flushers did what in between.  That it is filed
right rests on `Own`: while the device does not change hands beside a ping or a
flush, requests speak for the owner of what they send.  For "the newest wins",
`InOrder` says that a stamp which is later than its reading has nothing newer
between the two, and that what is newer than the bookmark is no older than the
row's `updated_at`; filing keeps both.

Proved without being listed as properties of a run, as the runs spend their time
on other things: the types and invariants of Gate (`AtMostConcurrency`,
`NoIdleSlot`, `QueueIsTheQueued`), ChapterFetch (`NothingAskedWhileToldToWait`,
`NoPageRefetched`) and ChapterFile (`SkippedIsThere`), and the types of Trackers,
Sessions, Jobs, Outbox and Extensions.

What the proofs changed.  Two definitions of `Extensions` were wrong and small
runs had not shown it: what a run measures an update against must be dropped
where the list it reads next no longer carries the extension (a repository edit in
between empties the index), and a run whose second list failed records as removed
what it has just put back, which is no removal by hand.  Several things were said
in a form that cannot be reasoned about, and were restated: the queues and the
order of the sweep (above), the count of a fetch's 429s (the observation `limits`
in place of a fold over the pages), and the chain of merges in `Library`
(`Survivors` is what lies in every set that the merges do not leave, in place of a
recursive walk).  `ReadStaysWithItsSeries` became stronger on the way: it also
says that a chapter that was read has a series.

## 7. What is only model-checked

Every invariant and every action property that a passing run checks is also
proved.  What is left is progress: `EveryCallStarts`, `Terminates`,
`HalfWritesAreReaped`, `SweepEnds`, `EverySeriesGetsItsTurn`,
`WipedListComesBack`, `JobsEnd` and `EndIsNoticed`.  Liveness under fairness is
out of the prover's reach, as ENABLED is; TLC checks these on the small instances
of section 4, and they hold there only.

`FillIsRepair` and `NewestTimeWins` need a word each.  The first is a statement
about constants, and is proved without a specification.  The second is violated,
on purpose: see section 9.

## 8. What is not modelled

Each component has its status and the reason in `PROJECT.json`.  Not modelled: the
source watchdog (a table of string tests on what other people's sites answer), the
image cache (what goes is made again from the archive), background hashing and
folder rematch (what they decide rests on the contents of archives), backups (an
external program), the source adapters (their answers are nondeterministic here),
notifications and the audit log (fire and forget), the catalogue, OPDS and health
pages (queries over current rows), migrations (idempotent DDL at boot),
cryptography, and the user interface.  Most of the repository's lines are in these
parts: the scrapers, the queries and the pages.

Within the modelled parts:

- Sweep: a second series check and a second `runUpdateAll` at once, and the length
  of a cooldown.  With a database that fails for ever nothing is promised of the
  rotation, and nothing is checked.
- Library: `LIBRARY_REMATCH`, several libraries, metadata overrides.
  `ReadStaysWithItsSeries` says nothing after a rename took effect under a scan or
  of a row that was merged away, and does not tell two series that are merged
  together from one.
- Extensions: `WipedListComesBack` is about a list that is gone.  A part of it that
  is gone is put back too, but who took it out the code cannot know.
- ChapterFile: a loss of power (nothing calls `fsync`).
- Jobs: the limit of 300 chapters, the life of a plan, the scan at every fifth
  chapter.  Nothing of the board is persisted, so a restart is an initial state
  with other files, and loses the cards.
- Jobs, two workers on one card: whatever the card then says is left out of
  `CardsTellTheTruth`.
- Sessions: access tokens, the life of a refresh token, TOTP and OIDC, and the
  refusal to lock out the last administrator.
- Outbox: the store of the offline chapters, and several chapters in one queue
  (entries of different chapters meet in no row).  There is one page: with two
  tabs, one that still shows the first person renews its token from the cookie of
  the second (`api.ts:82-83`, `117-119`), and then speaks for both.  A device that
  changes hands beside a ping or a flush (`crossed`) and a reading stamped with
  another time than its own (`muddled`) are excused where the properties say so,
  and the clocks of device and server agree.
- Trackers: the look-up of a series on AniList, and the rounding of a
  fractional chapter number, for which 11.5 is told as 12.  That the list goes
  back is not stated as a property, as the code does let it: see section 9.

## 9. Disagreements between code and documentation

`outbox_replay` states what `progress.ts:34` says, "Only a page at least as recent as
the stored one may move it", of the times the server is given, and TLC finds that
the code does something else.  The rule compares with `updated_at`, which the
INSERT of a chapter's first row leaves to its default, the time of arrival
(`migrate.ts:122`).  When two pages of a chapter without a row are queued offline,
the first to be replayed makes a row that is newer than the second, and the
bookmark stays on the first.

Seen while modelling, without a run of their own, for whoever works on these
lines next.

Fetching and filing:

- `gate.ts:29`: "a minimum gap between the start of one operation and the next".  A
  lane that falls idle is deleted with its `nextFreeAt` (`:51`), so the next call
  starts at once, and a loop that awaits each download is never spaced.
- `gate.ts:42`: at two slots, two callers may compute their wait from the same
  `nextFreeAt` and start together.
- `updater.ts:95-98` takes a ledger that cannot be read for an empty one, and
  `chapterFailures.ts:45` passes over a note that fails, so that while the
  database fails a chapter over its cap is tried in every sweep; the comment at
  `updater.ts:94` ("not attempted again by the sweep") and `health.ts:176` know no
  exception.  Fills write to the ledger (`sources.ts:785`) and have no cap.
- `updater.ts:209`: nothing catches a read that throws where the parked sources are
  asked about, and the scan at `:215` is passed over: what the sweep downloaded
  stays unreadable until a later one.
- `sourceHealth.ts:61`: a refusal whose write fails sets no cooldown, and the
  source's next series is asked for in the same sweep.
- `downloader.ts:278`: `worst` keeps the highest answer of the whole fetch.  A 429
  that was waited out still makes a later shortfall a refusal, and a 404 or a 500
  hides a 403 or a 429, so that the caller goes on.
- `downloader.ts:262`: when the source declares fewer pages than it lists, a
  chapter with the declared number is written, gaps and all (the exception in
  `WholeOrNothing`).
- `downloader.ts:138-143`, `updater.ts:128`: a refusal of the page list is reported
  and carries no `blockStatus`, so the loop goes on to the source's next chapter.
- `server.ts:327`: the reap is not awaited, and a temporary file of a download that
  began meanwhile matches it; that download fails at its rename.
- `server.ts:336`: stopping waits for the HTTP server only and exits while a chapter
  is being fetched; `CHANGELOG.md:865` and `server.ts:329` say that it stops at a
  chapter boundary.
- `updater.ts:215`, `routes/admin.ts:308`: a series check downloads and does not
  scan, a later sweep skips the file without counting it, and no scan is
  scheduled; `docs/USAGE.md:596` says that the scheduled scan picks new files up.
- `routes/admin.ts:72` runs `runUpdateAll` beside a sweep, and `:304` tests its busy
  flag before an await that precedes setting it.

The library:

- `library.ts:450` follows a merge one step.  After A into B and B into C, a scan
  files A's books under B, which nobody sees.  The comments at `library.ts:448-449`
  and `libraryAdmin.ts:123-124` promise the survivor, and
  `softDelete.int.test.ts:147` that a merge stays merged across a rescan.
- `library.ts:452`: with `LIBRARY_REMATCH=apply` the comment says that only a folder
  without a row can be a move, and nothing tests that.
- `libraryAdmin.ts:226-229` says all roots or none; the roots are read from
  `lib_books` (`:244`), and a root with downloaded, unscanned chapters is left
  behind.
- `libraryAdmin.ts:159-161` says to refuse a taken name outright; when the name is
  held by a hidden series without files, the folders move and the transaction
  then fails (`:286`).  Nothing moves them back: the files are under a name that
  no row has, and the next scan makes a second series of them.
- `libraryAdmin.ts`: a rename does not ask whether the series is hidden or merged
  away; one that takes effect while a scan or a download has the old name can
  split the series (the exception in `ReadStaysWithItsSeries`).
- `routes/catalog.ts:547`: a merge between the look-up and the write leaves progress
  under the absorbed series, the loss that the comment at `:539-545` describes.
  `ReadStaysWithItsSeries` says no more than that the two are merged together.

Extensions:

- `routes/admin.ts:1286-1295` answers a repository's removal with ok and leaves the
  saved list as it was, so that the next check restores what the administrator
  removed; the comment at `extensionMonitor.ts:267-268` calls the engine's copy
  authoritative while it exists.  One that was added is in no saved list at all:
  only the first check saves one.
- `extensionMonitor.ts:279` writes a list it read earlier, and undoes an edit made
  in between.
- `extensionMonitor.ts:29-31` warns of two runs that drive the same installs.
  "Update all" tests the flag and does not set it, so that a scheduled check may
  begin beside it.
- A repository edit that cannot read the current list takes it for empty, and
  writes a list of one, or of none.
- After a wipe, a check that restores the repositories and then fails, or is cut
  off, leaves the next one with a list that is not empty: it takes the wipe for
  removals by hand, reports the extensions and never reinstalls them
  (`docs/extensions.md:36` says that they come back).

Jobs:

- `sources.ts:800`, against the comment at `:417` ("Done has to mean everything
  landed"): a fill whose disk is full closes its card as an error and is still in
  its last scan when the next one passes the busy check; the first one's tail then
  closes the new card as done (hence "that only its own worker wrote to").
- Two adds of one folder share a card, and an awaited add that fails takes away
  whatever card the folder has.
- A source that has a chapter only as 12.5 is offered for 12, and authorised for
  nothing (the condition in `Keeps`).

Sessions:

- A rotation whose reply is lost signs the device out once the grace is over.
- A sign-out of the others that runs beside a rotation may end the session of the
  device it should keep.
- Two rotations of one token at once leave a session that no device has.

Reading:

- `downloads.ts:353-357` rules out a row of `anon`, which nobody ever flushes; a
  sign-out during the wait for the store, between the check (`:358`) and the stamp
  (`:363`), makes one.  A store that does not open, or does not take the row,
  loses the reading without a word.
- `queueProgress` stamps a failed ping with the time of the failure, not of the
  turn (`progress.ts:24` still says that a live ping carries none), so that a page may
  count as newer than one that was read after it (hence `muddled`).
- A ping or a flush that is under way when the device changes hands is filed or
  queued under the next account (hence `crossed`).
- The page puts back an entry whose request failed, even if the worker has
  delivered and deleted it meanwhile; it is then sent again.
- `completed` is only ever ORed, so a replay undoes an "unread" by hand; the bulk
  route deletes the row, and a replay makes it again.

Trackers:

- Two pushes may pass the floor together and reach the service in the wrong order,
  or a lost answer may leave the floor below the list; the list then goes down,
  of which `trackerFloor.int.test.ts:1` says that it never does on its own, and
  `trackers.ts:210-213` and `:270-271` that only a resync does it.
- `trackers.ts:233`: the success of one series clears the error of another, which
  stays behind in silence.  A read that throws (`:261-263`) and a `markError` that
  fails (`:257`) are silent too.
- `trackers.ts:247`: a push with an old token that is rejected after a reconnection
  switches the new connection off; any 400 counts as a rejection
  (`trackerProviders.ts:41`).
- `progress.ts:50-58`: a completed chapter whose reading event cannot be stored
  starts no push.
- A resync may be undone by a push that is still in the gate, and a disconnection
  keeps the floor for whoever connects next.

## 10. Running it

In this directory, with `tla2tools` and the community modules on the path:

    tlc -workers 2 -config Gate_two.cfg MCGate
    tlapm DownloadProofs.tla

`PROJECT.json` names the module and the configuration of each run.  The longest,
`Library_all.cfg`, has about three million states and takes under two minutes; the
longest proofs, those of `LibraryProofs.tla` and `SweepProofs.tla`, take a few.
