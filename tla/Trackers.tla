------------------------------ MODULE Trackers ------------------------------
(***************************************************************************)
(* bff/src/lib/trackers.ts: telling AniList how far a person has read.     *)
(* Every completed chapter starts a push of its series; pushes of all      *)
(* series run side by side from their start to the one lane of the gate,   *)
(* where they wait for their turn (Slots.tla with one slot) and call the   *)
(* service, and they share one row of the connection with one last_error.  *)
(*                                                                         *)
(* One action per statement to the database and one per answer of the      *)
(* service; whether a token has lapsed, and what the service makes of it,  *)
(* is open each time.  One account of one person: nothing in the code but  *)
(* linkSeries of an AniList match makes a link, so a push goes to one      *)
(* service.  Only this program writes the entries there.                   *)
(***************************************************************************)
EXTENDS Naturals, Sequences

CONSTANTS
    Series,         \* the series the person reads
    NoSeries,       \* what an idle push is of
    Top,            \* Top[s]: the largest number a chapter of the series may have
    Pushes,         \* the pushes that may be under way at once
    MaxUpsets       \* bound on restarts, failing statements and what people change beside reading

ASSUME TrackersAssumption ==
    NoSeries \notin Series /\ Top \in [Series -> Nat] /\ MaxUpsets \in Nat

Numbers(s) == 0 .. Top[s]
NoConn == [there |-> FALSE, enabled |-> FALSE, error |-> FALSE]
Connected == [there |-> TRUE, enabled |-> TRUE, error |-> FALSE]
Stages == {"idle", "conn", "progress", "link", "floor", "refused", "lane", "sent",
           "accepted", "synced", "rejected", "failed", "leaving"}
Idle == [at |-> "idle", of |-> NoSeries, chapters |-> 0]

VARIABLES
    reached,    \* the largest number the person has completed, 0 for none
    linked,     \* series_trackers has an entry for the series
    conn,       \* the person's row of user_trackers
    floor,      \* the row of tracker_progress, 0 for none
    remote,     \* the number on the person's list at the service
    taken,      \* the largest number the service ever took
    push,       \* the pushes: where each stands, and the number it has read
    lane,       \* those in the gate; the first holds the slot
    upsets,     \* how many of these there were
    astray      \* observation: what SilenceMeansSynced says nothing of

person == <<reached, linked>>
service == <<remote, taken>>
vars == <<person, conn, floor, service, push, lane, upsets, astray>>

At(x, p) == push[x].at = p
UnderWay(s) == {x \in Pushes : push[x].of = s}

TypeOK ==
    /\ reached \in [Series -> Nat] /\ floor \in [Series -> Nat]
    /\ remote \in [Series -> Nat] /\ taken \in [Series -> Nat]
    /\ linked \in [Series -> BOOLEAN]
    /\ conn \in [there : BOOLEAN, enabled : BOOLEAN, error : BOOLEAN]
    /\ push \in [Pushes -> [at : Stages, of : Series \cup {NoSeries}, chapters : Nat]]
    /\ \A x \in Pushes : At(x, "idle") <=> push[x].of = NoSeries
    /\ lane \in Seq(Pushes)
    /\ upsets \in 0 .. MaxUpsets /\ astray \in [Series -> BOOLEAN]

Init ==
    /\ reached = [s \in Series |-> 0] /\ linked \in [Series -> BOOLEAN]
    /\ conn \in {NoConn, Connected}
    /\ floor = [s \in Series |-> 0] /\ remote = [s \in Series |-> 0] /\ taken = [s \in Series |-> 0]
    /\ push = [x \in Pushes |-> Idle] /\ lane = << >>
    /\ upsets = 0 /\ astray = [s \in Series |-> FALSE]

Upset == upsets < MaxUpsets /\ upsets' = upsets + 1
Larger(m, n) == IF m < n THEN n ELSE m

-----------------------------------------------------------------------------
(* What starts a push *)

\* pushSeriesProgressAsync; never waited for.
Started(x, s) ==
    /\ At(x, "idle")
    /\ push' = [push EXCEPT ![x] = [at |-> "conn", of |-> s, chapters |-> 0]]
    /\ astray' = [astray EXCEPT ![s] = UnderWay(s) # {}]

\* A completed chapter, or with the last number the bulk route.
Complete(x, s, n) ==
    /\ reached' = [reached EXCEPT ![s] = Larger(@, n)]
    /\ Started(x, s)
    /\ UNCHANGED <<linked, conn, floor, service, lane, upsets>>

\* POST /api/trackers/anilist/backfill.
Backfill(x, s) ==
    /\ linked[s] /\ reached[s] > 0
    /\ Started(x, s)
    /\ UNCHANGED <<person, conn, floor, service, lane, upsets>>

\* POST /api/trackers/anilist/resync: clearTrackerFloor, then a push.
Resync(x, s) ==
    /\ floor' = [floor EXCEPT ![s] = 0]
    /\ Started(x, s)
    /\ UNCHANGED <<person, conn, service, lane, upsets>>

-----------------------------------------------------------------------------
(* pushSeriesProgress and pushOne *)

Goes(x, p) == push' = [push EXCEPT ![x].at = p]
Ends(x) == push' = [push EXCEPT ![x] = Idle]

\* A statement throws and nobody is told.
Unseen(x) == Upset /\ astray' = [astray EXCEPT ![push[x].of] = TRUE]

ReadConn(x) ==
    /\ At(x, "conn")
    /\ IF conn.enabled THEN Goes(x, "progress") ELSE Ends(x)
    /\ UNCHANGED <<person, conn, floor, service, lane, upsets, astray>>

\* seriesProgressFor: the largest number completed, not the one just read.
ReadProgress(x) ==
    /\ At(x, "progress")
    /\ LET n == reached[push[x].of] IN
       IF n = 0 THEN Ends(x) ELSE push' = [push EXCEPT ![x].at = "link", ![x].chapters = n]
    /\ UNCHANGED <<person, conn, floor, service, lane, upsets, astray>>

\* The token may have lapsed, or not open with this server's key.
ReadLink(x) ==
    /\ At(x, "link")
    /\ IF linked[push[x].of] THEN \E p \in {"refused", "floor"} : Goes(x, p) ELSE Ends(x)
    /\ UNCHANGED <<person, conn, floor, service, lane, upsets, astray>>

\* The floor, then withGate, which queues in the same step.
ReadFloor(x) ==
    /\ At(x, "floor")
    /\ IF push[x].chapters < floor[push[x].of]
       THEN Goes(x, "refused") /\ UNCHANGED lane
       ELSE Goes(x, "lane") /\ lane' = Append(lane, x)
    /\ UNCHANGED <<person, conn, floor, service, upsets, astray>>

\* Any of the four reads throws: the push is over without a word.
ReadFails(x) ==
    /\ push[x].at \in {"conn", "progress", "link", "floor"}
    /\ Unseen(x) /\ Ends(x)
    /\ UNCHANGED <<person, conn, floor, service, lane>>

\* markError, which swallows its own failure.
MarkError(x) ==
    \/ conn' = [conn EXCEPT !.error = conn.there] /\ UNCHANGED <<upsets, astray>>
    \/ Unseen(x) /\ UNCHANGED conn

\* Mutant: a refusal is not told to the person.
RefuseQuietly(x) ==
    /\ At(x, "refused")
    /\ Ends(x)
    /\ UNCHANGED <<person, conn, floor, service, lane, upsets, astray>>

\* The token has lapsed, or the number is below the floor.
Refuse(x) ==
    /\ At(x, "refused")
    /\ MarkError(x) /\ Ends(x)
    /\ UNCHANGED <<person, floor, service, lane>>

\* The slot is this push's: setProgress sends its request.
Send(x) ==
    /\ At(x, "lane") /\ Head(lane) = x
    /\ Goes(x, "sent")
    /\ UNCHANGED <<person, conn, floor, service, lane, upsets, astray>>

\* The service writes whatever number it is given; the answer may be lost.
Accept(x) ==
    /\ At(x, "sent")
    /\ LET s == push[x].of IN
       /\ remote' = [remote EXCEPT ![s] = push[x].chapters]
       /\ taken' = [taken EXCEPT ![s] = Larger(@, push[x].chapters)]
    /\ \E p \in {"accepted", "failed"} : Goes(x, p)
    /\ UNCHANGED <<person, conn, floor, lane, upsets, astray>>

\* A 401, or any 400: both count as a bad token.
Reject(x) ==
    /\ At(x, "sent")
    /\ Goes(x, "rejected")
    /\ UNCHANGED <<person, conn, floor, service, lane, upsets, astray>>

\* Mutant: an answer that is an error is taken for a yes.
TimeOutAsYes(x) ==
    /\ At(x, "sent")
    /\ Goes(x, "accepted")
    /\ UNCHANGED <<person, conn, floor, service, lane, upsets, astray>>

\* The service is down, or silent for fifteen seconds.
TimeOut(x) ==
    /\ At(x, "sent")
    /\ Goes(x, "failed")
    /\ UNCHANGED <<person, conn, floor, service, lane, upsets, astray>>

\* last_error is cleared, whichever series it spoke of.
Synced(x) ==
    /\ At(x, "accepted")
    /\ conn' = [conn EXCEPT !.error = FALSE]
    /\ astray' = [s \in Series |-> astray[s] \/ (conn.error /\ s # push[x].of)]
    /\ Goes(x, "synced")
    /\ UNCHANGED <<person, floor, service, lane, upsets>>

\* GREATEST.
RaiseFloor(x) ==
    /\ At(x, "synced")
    /\ floor' = [floor EXCEPT ![push[x].of] = Larger(@, push[x].chapters)]
    /\ Goes(x, "leaving")
    /\ UNCHANGED <<person, conn, service, lane, upsets, astray>>

\* Either statement fails, after the service took the number.
StoreFails(x) ==
    /\ push[x].at \in {"accepted", "synced"} /\ Upset
    /\ Goes(x, "failed")
    /\ UNCHANGED <<person, conn, floor, service, lane, astray>>

Fail(x) ==
    /\ At(x, "failed")
    /\ MarkError(x) /\ Goes(x, "leaving")
    /\ UNCHANGED <<person, floor, service, lane>>

\* Mutant: a handler that throws does not give the slot back.
DisableHolding(x) ==
    /\ At(x, "rejected")
    /\ \/ /\ conn' = [conn EXCEPT !.enabled = FALSE, !.error = conn.there]
          /\ Goes(x, "leaving") /\ UNCHANGED <<upsets, astray>>
       \/ Unseen(x) /\ Ends(x) /\ UNCHANGED conn
    /\ UNCHANGED <<person, floor, service, lane>>

\* "A bad token will fail on every future chapter too": the connection is
\* switched off, whichever token it has by now.  Not swallowed here, but by
\* the caller of the push.
Disable(x) ==
    /\ At(x, "rejected")
    /\ \/ conn' = [conn EXCEPT !.enabled = FALSE, !.error = conn.there] /\ UNCHANGED <<upsets, astray>>
       \/ Unseen(x) /\ UNCHANGED conn
    /\ Goes(x, "leaving")
    /\ UNCHANGED <<person, floor, service, lane>>

\* The finally of withGate, however the push ended.
Leave(x) ==
    /\ At(x, "leaving")
    /\ lane' = Tail(lane) /\ Ends(x)
    /\ UNCHANGED <<person, conn, floor, service, upsets, astray>>

-----------------------------------------------------------------------------
(* The person, the admin and the process *)

\* connectTracker: whoAmI proves the token, saveConnection stores it.
Connect ==
    /\ Upset
    /\ conn' = Connected /\ astray' = [s \in Series |-> TRUE]
    /\ UNCHANGED <<person, floor, service, push, lane>>

\* disconnect; the floors stay.
Disconnect ==
    /\ conn.there /\ Upset
    /\ conn' = NoConn
    /\ UNCHANGED <<person, floor, service, push, lane, astray>>

\* linkSeries; another match gives the series another entry, with no number yet.
Link(s) ==
    /\ Upset
    /\ linked' = [linked EXCEPT ![s] = TRUE] /\ astray' = [astray EXCEPT ![s] = TRUE]
    /\ \E n \in {remote[s], 0} : remote' = [remote EXCEPT ![s] = n]
    /\ UNCHANGED <<reached, conn, floor, taken, push, lane>>

\* deleteSeries, mergeSeries: the link goes.
Unlink(s) ==
    /\ linked[s] /\ Upset
    /\ linked' = [linked EXCEPT ![s] = FALSE]
    /\ UNCHANGED <<reached, conn, floor, service, push, lane, astray>>

\* Marking the series unread, which tells nobody.
MarkUnread(s) ==
    /\ reached[s] > 0 /\ Upset
    /\ reached' = [reached EXCEPT ![s] = 0]
    /\ UNCHANGED <<linked, conn, floor, service, push, lane, astray>>

\* The largest number changes and no push is started: PUT
\* /api/admin/books/:id/meta, a merge, or a completed chapter whose reading
\* event could not be stored.
Renumber(s) ==
    /\ Upset
    /\ \E n \in Numbers(s) \ {reached[s]} : reached' = [reached EXCEPT ![s] = n]
    /\ astray' = [astray EXCEPT ![s] = TRUE]
    /\ UNCHANGED <<linked, conn, floor, service, push, lane>>

\* The process dies, with the pushes it had.
Restart ==
    /\ Upset
    /\ push' = [x \in Pushes |-> Idle] /\ lane' = << >>
    /\ astray' = [s \in Series |-> astray[s] \/ UnderWay(s) # {}]
    /\ UNCHANGED <<person, conn, floor, service>>

Step(x) ==
    \/ ReadConn(x) \/ ReadProgress(x) \/ ReadLink(x) \/ ReadFloor(x) \/ ReadFails(x) \/ Refuse(x) \/ Send(x)
    \/ Accept(x) \/ Reject(x) \/ TimeOut(x) \/ Synced(x) \/ RaiseFloor(x) \/ StoreFails(x) \/ Fail(x)
    \/ Disable(x) \/ Leave(x)

Next ==
    \/ \E x \in Pushes :
        \/ Step(x)
        \/ \E s \in Series : Backfill(x, s) \/ Resync(x, s) \/ \E n \in Numbers(s) \ {0} : Complete(x, s, n)
    \/ \E s \in Series : Link(s) \/ Unlink(s) \/ MarkUnread(s) \/ Renumber(s)
    \/ Connect \/ Disconnect \/ Restart

Spec == Init /\ [][Next]_vars

-----------------------------------------------------------------------------
(* Properties *)

\* A push that ends short ends with an error on the connection, or the entry
\* is right: with the connection on, no error shown and no push of a linked
\* series under way, the service has at least the largest number completed of
\* it.  Answers that are lost, refusals and rejections must all be told, and
\* no step of a push may untell them.  Nothing is said of a series (astray)
\* from where the code leaves silence behind until its next push that starts
\* alone: after two pushes of it crossed (trackers.ts:218), after a statement
\* threw unseen (:257, :262), after the success of another series cleared the
\* one last_error (:233), after a restart with its push under way, and after a
\* change that starts no push: a new link, connection or number.
SilenceMeansSynced ==
    \A s \in Series :
        UnderWay(s) = {} /\ linked[s] /\ conn.enabled /\ ~conn.error /\ ~astray[s] => remote[s] >= reached[s]

InGate == {x \in Pushes : push[x].at \in {"lane", "sent", "accepted", "synced", "rejected", "failed", "leaving"}}

\* The slot of the lane is never lost and never shared: the lane has exactly
\* the pushes that wait or call, each once, and only the first one calls,
\* however those before it ended (trackers.ts:230), by a throw in the handler
\* of their own errors too (:246).
LaneIsSound ==
    /\ InGate = {lane[i] : i \in DOMAIN lane}
    /\ \A i, j \in DOMAIN lane : lane[i] = lane[j] => i = j
    /\ \A x \in InGate : ~At(x, "lane") => x = Head(lane)

\* "Raise the floor only after the tracker actually accepted it"
\* (trackers.ts:234): a floor that no number taken reached would have every
\* push below it refused.  Over lost answers, failing statements and pushes of
\* other series in the same lane.
FloorWasTaken == \A s \in Series : floor[s] <= taken[s]
=============================================================================
