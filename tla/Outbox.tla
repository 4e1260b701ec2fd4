------------------------------- MODULE Outbox -------------------------------
(***************************************************************************)
(* Reading progress of one chapter, from a turned page to the bookmark:    *)
(* the reader's live ping (web/app/reader/page.tsx), the queue of a        *)
(* household device (the outbox of web/lib/downloads.ts), its two flushes  *)
(* (the page's, and the service worker's in web/public/sw.js), the PUT     *)
(* (bff/src/routes/catalog.ts) and the row it writes                       *)
(* (bff/src/lib/progress.ts).  The same people also read elsewhere, mark   *)
(* the chapter by hand, and hand the device to one another.                *)
(*                                                                         *)
(* A reading is one ping; its page stands for it.  The clocks of device    *)
(* and server agree, and nothing is stamped twice in one instant.  Whether *)
(* a ping completes the chapter is left out: the server only ever ORs it.  *)
(***************************************************************************)
EXTENDS Naturals, FiniteSets

CONSTANTS
    Users,
    Reads,          \* 1 .. n, the readings
    Owner,          \* who is signed in on the device at first
    MaxUpsets       \* bound on sign-outs, marks by hand, closed tabs, and the chapter going

None == "none"

\* owner() with nobody signed in.
Anon == "anon"

ASSUME ReadsAssumption == Reads \subseteq Nat \ {0} /\ MaxUpsets \in Nat
ASSUME UsersAssumption == Owner \in Users /\ None \notin Users /\ Anon \notin Users

Flushers == {"page", "worker"}
ByHand == 0
NoRow == [ev |-> ByHand, at |-> 0]

VARIABLES
    clock,      \* now
    made,       \* when a reading was made, 0 before
    who,        \* by whom
    ping,       \* its live PUT
    outbox,     \* the readings in the queue ...
    tag,        \* ... the owner and time they were queued with
    flush,      \* the two flushes
    me,         \* who the page is signed in as
    jar,        \* whose refresh cookie the browser holds
    hint,       \* who the worker was last told it is (ownerHint)
    row,        \* read_progress: the reading that set the page, and updated_at
    present,    \* the chapter exists
    upsets,     \* how many of these there were
    filed,      \* observation: <<account, reading, time>> the server was given
    refused,    \* observation: readings answered with a 404
    unsaved,    \* observation: readings that may be lost, see NothingReadIsLost
    marked,     \* observation: when an account last marked the chapter by hand
    crossed,    \* observation: the device changed hands beside a ping or a flush
    muddled     \* observation: a reading was stamped with another time than its own, see Muddles

device == <<made, who, ping, outbox, tag, flush>>
account == <<me, jar, hint>>
server == <<row, filed, marked>>
vars == <<clock, device, account, server, present, upsets, refused, unsaved, crossed, muddled>>

Rest == [at |-> "idle", me |-> None, left |-> {}, ev |-> ByHand, as |-> None]

TypeOK ==
    /\ clock \in Nat \ {0}
    /\ made \in [Reads -> Nat] /\ who \in [Reads -> Users \cup {None}]
    /\ ping \in [Reads -> {"none", "sent", "unheard", "queueing", "over"}]
    /\ outbox \subseteq Reads
    /\ tag \in [Reads -> [user : Users \cup {None, Anon}, ts : Nat]]
    /\ flush \in [Flushers -> [at : {"idle", "next", "sent", "done", "again"}, me : Users \cup {None},
                               left : SUBSET Reads, ev : Reads \cup {ByHand}, as : Users \cup {None}]]
    /\ me \in Users \cup {None} /\ jar \in Users \cup {None} /\ hint \in Users \cup {None}
    /\ row \in [Users -> [ev : Reads \cup {ByHand}, at : Nat]]
    /\ filed \subseteq Users \X Reads \X Nat /\ refused \subseteq Reads /\ unsaved \subseteq Reads
    /\ marked \in [Users -> Nat]
    /\ upsets \in 0 .. MaxUpsets
    /\ <<present, crossed, muddled>> \in BOOLEAN \X BOOLEAN \X BOOLEAN

Init ==
    /\ clock = 1
    /\ made = [e \in Reads |-> 0] /\ who = [e \in Reads |-> None]
    /\ ping = [e \in Reads |-> "none"]
    /\ outbox = {} /\ tag = [e \in Reads |-> [user |-> None, ts |-> 0]]
    /\ flush = [f \in Flushers |-> Rest]
    /\ me = Owner /\ jar = Owner /\ hint = Owner
    /\ row = [u \in Users |-> NoRow]
    /\ present = TRUE
    /\ upsets = 0
    /\ filed = {} /\ refused = {} /\ unsaved = {}
    /\ marked = [u \in Users |-> 0]
    /\ crossed = FALSE /\ muddled = FALSE

-----------------------------------------------------------------------------
(* The server *)

\* A reading or a mark of this account was made after e.
Newer(u, e) == marked[u] > made[e] \/ \E g \in Reads : who[g] = u /\ made[g] > made[e]

Later(a, b) == IF a > b THEN a ELSE b

\* Mutant: the page of a replay is applied unconditionally.
WrittenAlways(u, e, at) ==
    IF row[u] = NoRow THEN [ev |-> e, at |-> clock]
    ELSE [ev |-> e, at |-> Later(row[u].at, at)]

\* writeProgress: an INSERT leaves updated_at to its default, now(); an UPDATE
\* moves the page for a stamp that is not older than the row's.
Written(u, e, at) ==
    IF row[u] = NoRow THEN [ev |-> e, at |-> clock]
    ELSE [ev |-> IF at >= row[u].at THEN e ELSE row[u].ev, at |-> Later(row[u].at, at)]

\* What the rule "the newest event wins" cannot see: a row that begins with an
\* old reading is as new as its arrival.
Muddles(u, e) == row[u] = NoRow /\ Newer(u, e)

\* The PUT is served as u.
File(u, e, at) ==
    /\ row' = [row EXCEPT ![u] = Written(u, e, at)]
    /\ filed' = filed \cup {<<u, e, at>>}
    /\ UNCHANGED marked

-----------------------------------------------------------------------------
(* The reader *)

\* sendProgress: the ping carries the time of the turn.
Turn(e) ==
    /\ me # None /\ made[e] = 0 /\ \A g \in Reads : g < e => made[g] # 0
    /\ made' = [made EXCEPT ![e] = clock] /\ who' = [who EXCEPT ![e] = me]
    /\ ping' = [ping EXCEPT ![e] = "sent"]
    /\ clock' = clock + 1
    /\ UNCHANGED <<outbox, tag, flush, account, server, present, upsets, refused, unsaved, crossed, muddled>>

\* The server takes the ping; the reader may never hear of it.
PingServed(e) ==
    /\ ping[e] = "sent" /\ present
    /\ File(who[e], e, made[e])
    /\ muddled' = (muddled \/ Muddles(who[e], e))
    /\ \E to \in {"over", "unheard"} : ping' = [ping EXCEPT ![e] = to]
    /\ UNCHANGED <<clock, made, who, outbox, tag, flush, account, present, upsets, refused, unsaved, crossed>>

\* No network, a 401, a 429, a 503, a 404, or no reply.
Failing(e) == ping[e] \in {"sent", "unheard"}

\* Mutant: the check for somebody who is signed in is missing.
QueueProgressAnon(e) ==
    /\ Failing(e)
    /\ ping' = [ping EXCEPT ![e] = "queueing"]
    /\ UNCHANGED <<clock, made, who, outbox, tag, flush, account, server, present, upsets, refused, unsaved, crossed, muddled>>

\* The ping fails.  queueProgress gives up when nobody is signed in; otherwise
\* it opens the store, which may take seconds.
QueueProgress(e) ==
    /\ Failing(e)
    /\ IF me = None
       THEN ping' = [ping EXCEPT ![e] = "over"] /\ unsaved' = unsaved \cup {e}
       ELSE ping' = [ping EXCEPT ![e] = "queueing"] /\ UNCHANGED unsaved
    /\ UNCHANGED <<clock, made, who, outbox, tag, flush, account, server, present, upsets, refused, crossed, muddled>>

owner(user) == IF user = None THEN Anon ELSE user

\* The row is stamped with the account and the time of now, neither of the
\* turn nor of the check.
AddToOutbox(e) ==
    /\ ping[e] = "queueing"
    /\ ping' = [ping EXCEPT ![e] = "over"]
    /\ outbox' = outbox \cup {e}
    /\ tag' = [tag EXCEPT ![e] = [user |-> owner(me), ts |-> clock]]
    /\ clock' = clock + 1
    /\ muddled' = (muddled \/ Newer(who[e], e))
    /\ UNCHANGED <<made, who, flush, account, server, present, upsets, refused, unsaved, crossed>>

\* The store does not open in time, or the row is not taken: nobody looks.
AddFails(e) ==
    /\ ping[e] = "queueing"
    /\ ping' = [ping EXCEPT ![e] = "over"]
    /\ unsaved' = unsaved \cup {e}
    /\ UNCHANGED <<clock, made, who, outbox, tag, flush, account, server, present, upsets, refused, crossed, muddled>>

-----------------------------------------------------------------------------
(* The two flushes *)

\* Whom the requests of a flush speak for: the page's for whoever is signed in
\* when they are sent, the worker's for the cookie that it began with.
SpeaksFor(f) == IF f = "page" THEN me ELSE flush[f].me

\* Mutant: everything in the queue is sent, whoever read it.
MineAll(f, e) == TRUE

\* The page compares an owner with whom it was when it began, the worker with
\* what it was last told.
Mine(f, e) == tag[e].user = (IF f = "page" THEN owner(flush[f].me) ELSE hint)

Todo(f) == {e \in flush[f].left : Mine(f, e)}

Goes(f, r) == flush' = [flush EXCEPT ![f] = r]

\* flushOutbox and flushOutboxWith read the whole queue, and who they are.
FlushRead(f) ==
    /\ flush[f].at = "idle" /\ outbox # {}
    /\ f = "worker" => jar # None
    /\ Goes(f, [at |-> "next", me |-> IF f = "page" THEN me ELSE jar, left |-> outbox, ev |-> ByHand, as |-> None])
    /\ crossed' = (crossed \/ (f = "worker" /\ hint # jar))
    /\ UNCHANGED <<clock, made, who, ping, outbox, tag, account, server, present, upsets, refused, unsaved, muddled>>

\* The entries in the order of their ids.
FlushSend(f) ==
    /\ flush[f].at = "next"
    /\ \E e \in Todo(f) :
        /\ \A g \in Todo(f) : tag[e].ts <= tag[g].ts
        /\ Goes(f, [at |-> "sent", me |-> flush[f].me, left |-> {g \in flush[f].left : tag[g].ts > tag[e].ts},
                    ev |-> e, as |-> SpeaksFor(f)])
    /\ UNCHANGED <<clock, made, who, ping, outbox, tag, account, server, present, upsets, refused, unsaved, crossed, muddled>>

FlushServed(f) ==
    /\ flush[f].at = "sent" /\ flush[f].as # None /\ present
    /\ File(flush[f].as, flush[f].ev, tag[flush[f].ev].ts)
    /\ muddled' = (muddled \/ Muddles(flush[f].as, flush[f].ev))
    /\ Goes(f, [flush[f] EXCEPT !.at = "done"])
    /\ UNCHANGED <<clock, made, who, ping, outbox, tag, account, present, upsets, refused, unsaved, crossed>>

\* The reply to a PUT that was served is lost.
ReplyLost(f) ==
    /\ flush[f].at = "done" /\ flush[f].ev \notin refused
    /\ Goes(f, [flush[f] EXCEPT !.at = "again"])
    /\ UNCHANGED <<clock, made, who, ping, outbox, tag, account, server, present, upsets, refused, unsaved, crossed, muddled>>

\* A 404: the chapter is gone, hidden, or not for this account.
FlushRejected(f) ==
    /\ flush[f].at = "sent" /\ flush[f].as # None /\ ~present
    /\ refused' = refused \cup {flush[f].ev}
    /\ Goes(f, [flush[f] EXCEPT !.at = "done"])
    /\ UNCHANGED <<clock, made, who, ping, outbox, tag, account, server, present, upsets, unsaved, crossed, muddled>>

\* No network, a 401, a 429, a 503.
FlushFails(f) ==
    /\ flush[f].at = "sent"
    /\ Goes(f, [flush[f] EXCEPT !.at = "again"])
    /\ UNCHANGED <<clock, made, who, ping, outbox, tag, account, server, present, upsets, refused, unsaved, crossed, muddled>>

\* Delivered or refused for good: the entry is deleted.  Otherwise it stays;
\* the page puts it back with one more try, even if it had gone meanwhile.
Settle(f) ==
    /\ flush[f].at \in {"done", "again"}
    /\ outbox' = CASE flush[f].at = "done" -> outbox \ {flush[f].ev}
                   [] flush[f].at = "again" /\ f = "page" -> outbox \cup {flush[f].ev}
                   [] OTHER -> outbox
    /\ Goes(f, [at |-> "next", me |-> flush[f].me, left |-> flush[f].left, ev |-> ByHand, as |-> None])
    /\ UNCHANGED <<clock, made, who, ping, tag, account, server, present, upsets, refused, unsaved, crossed, muddled>>

FlushEnds(f) ==
    /\ flush[f].at = "next" /\ Todo(f) = {}
    /\ Goes(f, Rest)
    /\ UNCHANGED <<clock, made, who, ping, outbox, tag, account, server, present, upsets, refused, unsaved, crossed, muddled>>

\* The store fails under a flush, or the browser stops the worker.
FlushBreaks(f) ==
    /\ flush[f].at # "idle"
    /\ Goes(f, Rest)
    /\ UNCHANGED <<clock, made, who, ping, outbox, tag, account, server, present, upsets, refused, unsaved, crossed, muddled>>

-----------------------------------------------------------------------------
(* People *)

\* A ping that is not over; api() may take it up again, or its row be added.
Pending(e) == Failing(e) \/ ping[e] = "queueing"

Busy == (\E e \in Reads : Pending(e)) \/ \E f \in Flushers : flush[f].at # "idle"

Upset == upsets < MaxUpsets /\ upsets' = upsets + 1

HandsOver == crossed' = (crossed \/ Busy)

\* logout; with no network the cookie stays.  What is being queued has passed
\* the check, and gets whatever account is there when the store is open.
SignOut ==
    /\ me # None /\ Upset /\ HandsOver
    /\ me' = None /\ jar' \in {jar, None}
    /\ unsaved' = unsaved \cup {e \in Reads : ping[e] = "queueing"}
    /\ UNCHANGED <<clock, device, hint, server, present, refused, muddled>>

\* login, or refreshSession with the cookie that stayed.
SignIn(u) ==
    /\ me = None /\ HandsOver
    /\ me' = u /\ jar' = u
    /\ UNCHANGED <<clock, device, hint, server, present, upsets, refused, unsaved, muddled>>

\* yomi-user and yomi-signout reach the worker.
TellWorker ==
    /\ hint # me
    /\ hint' = me
    /\ UNCHANGED <<clock, device, me, jar, server, present, upsets, refused, unsaved, crossed, muddled>>

\* The same person reads on, on a device that is online.
TurnElsewhere(u, e) ==
    /\ present /\ made[e] = 0 /\ \A g \in Reads : g < e => made[g] # 0
    /\ made' = [made EXCEPT ![e] = clock] /\ who' = [who EXCEPT ![e] = u]
    /\ ping' = [ping EXCEPT ![e] = "over"]
    /\ clock' = clock + 1
    /\ File(u, e, clock)
    /\ UNCHANGED <<outbox, tag, flush, account, present, upsets, refused, unsaved, crossed, muddled>>

\* setRead (a silent PUT without a time), or the bulk route, which deletes the
\* row to mark a chapter unread.
MarkByHand(u) ==
    /\ present /\ Upset
    /\ clock' = clock + 1
    /\ \E r \in {NoRow, [ev |-> ByHand, at |-> clock]} : row' = [row EXCEPT ![u] = r]
    /\ marked' = [marked EXCEPT ![u] = clock]
    /\ UNCHANGED <<device, account, filed, present, refused, unsaved, crossed, muddled>>

\* The chapter is deleted, hidden, or its series merged away.
TakeAway ==
    /\ present /\ Upset
    /\ present' = FALSE
    /\ UNCHANGED <<clock, device, account, server, refused, unsaved, crossed, muddled>>

\* The tab goes, with its pings and its flush.
CloseTab ==
    /\ Upset
    /\ unsaved' = unsaved \cup {e \in Reads : Pending(e)}
    /\ ping' = [e \in Reads |-> IF made[e] # 0 THEN "over" ELSE "none"]
    /\ Goes("page", Rest)
    /\ UNCHANGED <<clock, made, who, outbox, tag, account, server, present, refused, crossed, muddled>>

Next ==
    \/ \E e \in Reads : Turn(e) \/ PingServed(e) \/ QueueProgress(e) \/ AddToOutbox(e) \/ AddFails(e)
    \/ \E f \in Flushers :
        \/ FlushRead(f) \/ FlushSend(f) \/ FlushEnds(f) \/ FlushBreaks(f)
        \/ FlushServed(f) \/ ReplyLost(f) \/ FlushRejected(f) \/ FlushFails(f) \/ Settle(f)
    \/ SignOut \/ TellWorker \/ \E u \in Users : SignIn(u) \/ MarkByHand(u) \/ \E e \in Reads : TurnElsewhere(u, e)
    \/ TakeAway \/ CloseTab

Spec == Init /\ [][Next]_vars

-----------------------------------------------------------------------------
(* Properties *)

Filed(u) == {f \in filed : f[1] = u}

\* "A queued event may only be discarded when the server has PERMANENTLY
\* rejected it" (downloads.ts:377-388), for the whole way of a reading: once
\* its ping is over it is filed, or refused with a 404, or waits in the outbox
\* under an account that can flush it.  It may be lost where the code gives it
\* up: the tab was closed over the ping, nobody was signed in when it failed,
\* the store did not take it, or its reader signed out while the store was
\* being opened, which may leave the row of 'anon' that downloads.ts:353 rules
\* out.
NothingReadIsLost ==
    \A e \in Reads : ping[e] = "over" =>
        \/ e \in refused \cup unsaved
        \/ e \in outbox /\ tag[e].user \in Users
        \/ \E f \in filed : f[2] = e

\* What one person read is filed against that person, however the two flushes
\* and the device's owners follow on one another; unless the device changed
\* hands in the middle of a ping or a flush, or before the worker was told.
FiledAsItsReader == ~crossed => \A f \in filed : f[1] = who[f[2]]

\* "The newest event wins" (progress.ts:32-38): late, repeated and reordered as
\* they come, the bookmark is the newest of what has been filed for the account
\* and marked by hand; unless a reading got a time that is not its own (the row
\* began with it although newer ones were on their way, or its ping failed
\* after a newer one was made), or was filed against another account.
NewestWins ==
    ~muddled /\ ~crossed => \A u \in Users : row[u] # NoRow =>
        LET shown == IF row[u].ev = ByHand THEN marked[u] ELSE made[row[u].ev] IN
        /\ marked[u] <= shown /\ shown <= row[u].at
        /\ \A f \in Filed(u) : made[f[2]] <= shown

\* "Only a page at least as recent as the stored one may move it": of the times
\* the server was given, the bookmark has the newest, as long as nobody marks
\* the chapter by hand.
NewestTimeWins ==
    \A u \in Users : row[u].ev # ByHand /\ marked[u] = 0 =>
        \E f \in Filed(u) : f[2] = row[u].ev /\ \A g \in Filed(u) : g[3] <= f[3]
=============================================================================
