----------------------------- MODULE OutboxProofs -----------------------------
(***************************************************************************)
(* For any accounts, readings and mishaps: no reading is lost on its way   *)
(* from the page to the bookmark, it is filed against its reader, and the  *)
(* newest wins.                                                            *)
(***************************************************************************)
EXTENDS Outbox, TLAPS

-----------------------------------------------------------------------------
(* The inductive invariant *)

\* A reading has a reader and a time once it is made, and a stamp of its own
\* once it has been queued; nothing is from the future.
Stamps ==
    /\ \A e \in Reads :
        /\ made[e] # 0 <=> ping[e] # "none"
        /\ made[e] # 0 => who[e] \in Users /\ made[e] < clock
        /\ tag[e].user # None => ping[e] = "over" /\ made[e] <= tag[e].ts /\ tag[e].ts < clock
    /\ \A u \in Users :
        /\ row[u].at <= clock /\ marked[u] < clock
        /\ row[u].ev # ByHand => made[row[u].ev] # 0
    /\ \A g \in filed : made[g[2]] # 0

\* What is in the queue, or was read from it, has been queued under an account.
Queued ==
    /\ \A e \in outbox : tag[e].user # None
    /\ \A f \in Flushers :
        /\ \A e \in flush[f].left : tag[e].user # None
        /\ flush[f].at = "idle" => flush[f] = Rest
        /\ flush[f].at \in {"sent", "done", "again"} => flush[f].ev \in Reads /\ tag[flush[f].ev].user # None

\* A flush deletes only what the server has answered.
Answered ==
    \A f \in Flushers : flush[f].at = "done" =>
        flush[f].ev \in refused \/ \E g \in filed : g[2] = flush[f].ev

\* The page and the cookie are the same person's.
OneAccount == me # None => jar = me

\* Whose reading is being queued has signed in, or may have lost it.
SignedOut == \A e \in Reads : ping[e] = "queueing" => me # None \/ e \in unsaved

\* As long as the device did not change hands in the middle of anything, a ping
\* is the page's person's, an entry its reader's, and a flush speaks for whom
\* its entries belong to.
Own ==
    /\ \A e \in Reads : Pending(e) => who[e] = me
    /\ \A e \in Reads : tag[e].user # None => tag[e].user = who[e]
    /\ flush["page"].at # "idle" => flush["page"].me = me
    /\ flush["worker"].at # "idle" => flush["worker"].me = jar /\ hint \in {jar, None}
    /\ \A f \in Flushers : flush[f].at = "sent" => flush[f].as = who[flush[f].ev]

\* The instant of the bookmark of an account that has a row.
Shown(u) == IF row[u].ev = ByHand THEN marked[u] ELSE made[row[u].ev]

\* What is newer than a reading is newer than its stamp in the queue, and what
\* is newer than the bookmark is no older than the row.
InOrder ==
    /\ \A e \in Reads : tag[e].user # None =>
        /\ \A g \in Reads : who[g] = who[e] /\ made[g] > made[e] => made[g] > tag[e].ts
        /\ marked[who[e]] > made[e] => marked[who[e]] > tag[e].ts
    /\ \A u \in Users : row[u] # NoRow =>
        \A g \in Reads : who[g] = u /\ made[g] > Shown(u) => made[g] >= row[u].at

IInv ==
    /\ TypeOK /\ Stamps /\ Queued /\ Answered /\ OneAccount
    /\ SignedOut /\ NothingReadIsLost
    /\ ~crossed => Own
    /\ FiledAsItsReader
    /\ ~crossed /\ ~muddled => InOrder
    /\ NewestWins

-----------------------------------------------------------------------------
(* The first state, and steps that leave the readings alone *)

FlushType == [at : {"idle", "next", "sent", "done", "again"}, me : Users \cup {None},
              left : SUBSET Reads, ev : Reads \cup {ByHand}, as : Users \cup {None}]
RowType == [ev : Reads \cup {ByHand}, at : Nat]

LEMMA InitIInv == Init => IInv
<1> SUFFICES ASSUME Init PROVE IInv
  OBVIOUS
<1>1. TypeOK
  <2>1. Rest \in FlushType /\ NoRow \in RowType
    BY DEF Rest, NoRow, FlushType, RowType, ByHand
  <2>2. /\ clock \in Nat \ {0} /\ made \in [Reads -> Nat] /\ who \in [Reads -> Users \cup {None}]
        /\ ping \in [Reads -> {"none", "sent", "unheard", "queueing", "over"}]
        /\ tag \in [Reads -> [user : Users \cup {None, Anon}, ts : Nat]]
        /\ marked \in [Users -> Nat] /\ upsets \in 0 .. MaxUpsets
    BY ReadsAssumption, SMT DEF Init
  <2>3. flush \in [Flushers -> FlushType] /\ row \in [Users -> RowType]
    BY <2>1 DEF Init
  <2> QED BY <2>2, <2>3, UsersAssumption DEF Init, TypeOK, FlushType, RowType
<1>2. Stamps /\ Queued /\ Answered /\ OneAccount /\ SignedOut
  BY ReadsAssumption, UsersAssumption, SMT DEF Init, Stamps, Queued, Answered, OneAccount, SignedOut, Flushers, ByHand, NoRow, Rest
<1>3. NothingReadIsLost /\ FiledAsItsReader /\ NewestWins
  BY SMT DEF Init, NothingReadIsLost, FiledAsItsReader, NewestWins
<1>4. Own /\ InOrder
  BY UsersAssumption, SMT DEF Init, Own, InOrder, Pending, Failing, Flushers, Rest
<1> QED BY <1>1, <1>2, <1>3, <1>4 DEF IInv

\* What no step of a flush and no change of hands disturbs.
LEMMA Frame ==
    ASSUME IInv, UNCHANGED <<clock, made, who, ping, tag, row, filed, marked, muddled>>, crossed => crossed'
    PROVE  /\ Stamps' /\ FiledAsItsReader'
           /\ ~crossed' /\ ~muddled' => InOrder'
           /\ NewestWins'
<1>1. Stamps'
  BY Zenon DEF IInv, Stamps
<1>2. FiledAsItsReader'
  BY Zenon DEF IInv, FiledAsItsReader
<1>3. ~crossed' /\ ~muddled' => InOrder'
  BY Zenon DEF IInv, InOrder, Shown, NoRow
<1>4. NewestWins'
  BY Zenon DEF IInv, NewestWins, Filed, NoRow
<1> QED BY <1>1, <1>2, <1>3, <1>4

-----------------------------------------------------------------------------
(* The flushes *)

\* The types of what a flush changes.
LEMMA Retyped ==
    ASSUME IInv, NEW f \in Flushers, NEW r \in FlushType, flush' = [flush EXCEPT ![f] = r],
           outbox' \subseteq Reads, refused' \subseteq Reads, crossed' \in BOOLEAN,
           UNCHANGED <<clock, made, who, ping, tag, me, jar, hint, row, filed, marked, present, upsets, unsaved, muddled>>
    PROVE  TypeOK'
<1>1. flush' \in [Flushers -> FlushType]
  BY DEF IInv, TypeOK, FlushType
<1> QED BY <1>1 DEF IInv, TypeOK, FlushType

LEMMA FlushReadStep == ASSUME IInv, NEW f \in Flushers, FlushRead(f) PROVE IInv'
<1>0. /\ flush' = [flush EXCEPT ![f] = [at |-> "next", me |-> IF f = "page" THEN me ELSE jar, left |-> outbox,
                                      ev |-> ByHand, as |-> None]]
      /\ flush[f].at = "idle" /\ crossed' = (crossed \/ (f = "worker" /\ hint # jar))
      /\ UNCHANGED <<clock, made, who, ping, outbox, tag, me, jar, hint, row, filed, marked, present, upsets, refused, unsaved, muddled>>
  BY DEF FlushRead, Goes, account, server
<1>1. TypeOK'
  <2>1. [at |-> "next", me |-> IF f = "page" THEN me ELSE jar, left |-> outbox, ev |-> ByHand, as |-> None] \in FlushType
    BY SMT DEF IInv, TypeOK, FlushType
  <2>2. crossed' \in BOOLEAN /\ outbox' \subseteq Reads /\ refused' \subseteq Reads
    BY <1>0 DEF IInv, TypeOK
  <2> QED BY <1>0, <2>1, <2>2, Retyped
<1>2. Queued' /\ Answered' /\ OneAccount' /\ SignedOut' /\ NothingReadIsLost'
  BY <1>0, SMT DEF IInv, TypeOK, Queued, Answered, OneAccount, SignedOut, NothingReadIsLost, Rest
<1>3. ASSUME ~crossed' PROVE Own'
  <2>1. Own /\ (f = "worker" => hint = jar)
    BY <1>0, <1>3 DEF IInv
  <2> QED BY <1>0, <2>1, SMT DEF IInv, TypeOK, Own, Pending, Failing, Flushers
<1> QED BY <1>0, <1>1, <1>2, <1>3, Frame DEF IInv

LEMMA FlushSendStep == ASSUME IInv, NEW f \in Flushers, FlushSend(f) PROVE IInv'
<1>0. PICK e \in Todo(f) :
        /\ flush[f].at = "next"
        /\ flush' = [flush EXCEPT ![f] = [at |-> "sent", me |-> flush[f].me,
                       left |-> {g \in flush[f].left : tag[g].ts > tag[e].ts}, ev |-> e, as |-> SpeaksFor(f)]]
        /\ UNCHANGED <<clock, made, who, ping, outbox, tag, me, jar, hint, row, filed, marked, present, upsets, refused, unsaved, crossed, muddled>>
  BY DEF FlushSend, Goes, account, server
<1>1. e \in Reads /\ e \in flush[f].left /\ Mine(f, e) /\ tag[e].user # None /\ SpeaksFor(f) \in Users \cup {None}
  BY SMT DEF IInv, TypeOK, Queued, Todo, SpeaksFor
<1>2. TypeOK'
  <2>1. [at |-> "sent", me |-> flush[f].me, left |-> {g \in flush[f].left : tag[g].ts > tag[e].ts}, ev |-> e, as |-> SpeaksFor(f)]
          \in [at : {"idle", "next", "sent", "done", "again"}, me : Users \cup {None},
               left : SUBSET Reads, ev : Reads \cup {ByHand}, as : Users \cup {None}]
    BY <1>1, SMT DEF IInv, TypeOK
  <2> QED BY <1>0, <2>1, SMT DEF IInv, TypeOK
<1>3. Queued' /\ Answered' /\ OneAccount' /\ SignedOut' /\ NothingReadIsLost'
  BY <1>0, <1>1, SMT DEF IInv, TypeOK, Queued, Answered, OneAccount, SignedOut, NothingReadIsLost
<1>4. ASSUME ~crossed' PROVE Own'
  <2>1. Own
    BY <1>0, <1>4 DEF IInv
  <2>2. tag[e].user = who[e] /\ who[e] # Anon
    BY <1>1, <2>1, UsersAssumption, SMT DEF IInv, TypeOK, Own, None, Anon
  <2>3. SpeaksFor(f) = who[e]
    BY <1>0, <1>1, <2>1, <2>2, SMT DEF Own, SpeaksFor, Mine, owner, Flushers
  <2> QED BY <1>0, <2>1, <2>3, SMT DEF IInv, TypeOK, Own, Pending, Failing, Flushers
<1> QED BY <1>0, <1>2, <1>3, <1>4, Frame DEF IInv

\* A reply that is lost, and a request that fails.
LEMMA FailingStep == ASSUME IInv, NEW f \in Flushers, ReplyLost(f) \/ FlushFails(f) PROVE IInv'
<1>0. /\ flush[f].at \in {"done", "sent"}
      /\ flush' = [flush EXCEPT ![f] = [flush[f] EXCEPT !.at = "again"]]
      /\ UNCHANGED <<clock, made, who, ping, outbox, tag, me, jar, hint, row, filed, marked, present, upsets, refused, unsaved, crossed, muddled>>
  BY DEF ReplyLost, FlushFails, Goes, account, server
<1>1. TypeOK'
  <2>0. flush[f] \in FlushType
    BY DEF IInv, TypeOK, FlushType
  <2>1. [flush[f] EXCEPT !.at = "again"] \in FlushType
    BY <2>0, SMT DEF FlushType
  <2>2. outbox' \subseteq Reads /\ refused' \subseteq Reads /\ crossed' \in BOOLEAN
    BY <1>0 DEF IInv, TypeOK
  <2> QED BY <1>0, <2>1, <2>2, Retyped
<1>2. Queued' /\ Answered' /\ OneAccount' /\ SignedOut' /\ NothingReadIsLost'
  BY <1>0, SMT DEF IInv, TypeOK, Queued, Answered, OneAccount, SignedOut, NothingReadIsLost
<1>3. ASSUME ~crossed' PROVE Own'
  BY <1>0, <1>3, SMT DEF IInv, TypeOK, Own, Pending, Failing, Flushers
<1> QED BY <1>0, <1>1, <1>2, <1>3, Frame DEF IInv

LEMMA FlushRejectedStep == ASSUME IInv, NEW f \in Flushers, FlushRejected(f) PROVE IInv'
<1>0. /\ flush[f].at = "sent" /\ refused' = refused \cup {flush[f].ev}
      /\ flush' = [flush EXCEPT ![f] = [flush[f] EXCEPT !.at = "done"]]
      /\ UNCHANGED <<clock, made, who, ping, outbox, tag, me, jar, hint, row, filed, marked, present, upsets, unsaved, crossed, muddled>>
  BY DEF FlushRejected, Goes, account, server
<1>1. TypeOK'
  <2>0. flush[f] \in FlushType
    BY DEF IInv, TypeOK, FlushType
  <2>1. [flush[f] EXCEPT !.at = "done"] \in FlushType
    BY <2>0, SMT DEF FlushType
  <2>2. outbox' \subseteq Reads /\ crossed' \in BOOLEAN
    BY <1>0 DEF IInv, TypeOK
  <2>3. refused' \subseteq Reads
    BY <1>0 DEF IInv, TypeOK, Queued
  <2> QED BY <1>0, <2>1, <2>2, <2>3, Retyped
<1>2. Queued' /\ Answered' /\ OneAccount' /\ SignedOut' /\ NothingReadIsLost'
  BY <1>0, SMT DEF IInv, TypeOK, Queued, Answered, OneAccount, SignedOut, NothingReadIsLost
<1>3. ASSUME ~crossed' PROVE Own'
  BY <1>0, <1>3, SMT DEF IInv, TypeOK, Own, Pending, Failing, Flushers
<1> QED BY <1>0, <1>1, <1>2, <1>3, Frame DEF IInv

LEMMA SettleStep == ASSUME IInv, NEW f \in Flushers, Settle(f) PROVE IInv'
<1>0. /\ flush[f].at \in {"done", "again"}
      /\ outbox' \in {outbox, outbox \ {flush[f].ev}, outbox \cup {flush[f].ev}}
      /\ outbox \ {flush[f].ev} \subseteq outbox'
      /\ flush[f].at # "done" => outbox \subseteq outbox'
      /\ flush' = [flush EXCEPT ![f] = [at |-> "next", me |-> flush[f].me, left |-> flush[f].left, ev |-> ByHand, as |-> None]]
      /\ UNCHANGED <<clock, made, who, ping, tag, me, jar, hint, row, filed, marked, present, upsets, refused, unsaved, crossed, muddled>>
  BY SMT DEF Settle, Goes, account, server
<1>1. TypeOK'
  BY <1>0, SMT DEF IInv, TypeOK, Queued
<1>2. Queued' /\ Answered' /\ OneAccount' /\ SignedOut'
  BY <1>0, SMT DEF IInv, TypeOK, Queued, Answered, OneAccount, SignedOut
<1>3. NothingReadIsLost'
  BY <1>0, SMT DEF IInv, TypeOK, Queued, Answered, NothingReadIsLost
<1>4. ASSUME ~crossed' PROVE Own'
  BY <1>0, <1>4, SMT DEF IInv, TypeOK, Own, Pending, Failing, Flushers
<1> QED BY <1>0, <1>1, <1>2, <1>3, <1>4, Frame DEF IInv

LEMMA FlushEndsStep == ASSUME IInv, NEW f \in Flushers, FlushEnds(f) \/ FlushBreaks(f) PROVE IInv'
<1>0. /\ flush' = [flush EXCEPT ![f] = Rest]
      /\ UNCHANGED <<clock, made, who, ping, outbox, tag, me, jar, hint, row, filed, marked, present, upsets, refused, unsaved, crossed, muddled>>
  BY DEF FlushEnds, FlushBreaks, Goes, account, server
<1>1. TypeOK'
  BY <1>0, SMT DEF IInv, TypeOK, Rest
<1>2. Queued' /\ Answered' /\ OneAccount' /\ SignedOut' /\ NothingReadIsLost'
  BY <1>0, SMT DEF IInv, TypeOK, Queued, Answered, OneAccount, SignedOut, NothingReadIsLost, Rest
<1>3. ASSUME ~crossed' PROVE Own'
  BY <1>0, <1>3, SMT DEF IInv, TypeOK, Own, Pending, Failing, Flushers, Rest
<1> QED BY <1>0, <1>1, <1>2, <1>3, Frame DEF IInv

-----------------------------------------------------------------------------
(* The server *)

\* A reading is filed that has been made, at its own time or at the stamp it
\* was queued with.
Filing(u, e, at) ==
    /\ made[e] # 0 /\ made[e] <= at /\ at < clock
    /\ at = made[e] \/ (tag[e].user # None /\ at = tag[e].ts)

\* What filing does to the server, and to what is said about it.
LEMMA FileStep ==
    ASSUME IInv, NEW u \in Users, NEW e \in Reads, NEW at \in Nat, Filing(u, e, at),
           File(u, e, at), muddled' = (muddled \/ Muddles(u, e)), crossed' = crossed,
           ~crossed => u = who[e],
           UNCHANGED <<clock, made, who, tag>>
    PROVE  /\ row' \in [Users -> [ev : Reads \cup {ByHand}, at : Nat]]
           /\ filed' \subseteq Users \X Reads \X Nat /\ marked' = marked /\ muddled' \in BOOLEAN
           /\ \A v \in Users : row[v]'.at <= clock /\ (row[v]'.ev # ByHand => made[row[v]'.ev] # 0)
           /\ \A g \in filed' : made[g[2]] # 0
           /\ FiledAsItsReader'
           /\ ~crossed' /\ ~muddled' => InOrder' /\ NewestWins'
<1>1. /\ clock \in Nat \ {0} /\ made \in [Reads -> Nat] /\ row \in [Users -> [ev : Reads \cup {ByHand}, at : Nat]]
      /\ filed \subseteq Users \X Reads \X Nat /\ marked \in [Users -> Nat] /\ crossed \in BOOLEAN /\ muddled \in BOOLEAN
      /\ who \in [Reads -> Users \cup {None}] /\ tag \in [Reads -> [user : Users \cup {None, Anon}, ts : Nat]]
  BY DEF IInv, TypeOK
<1>2. /\ row' = [row EXCEPT ![u] = Written(u, e, at)] /\ filed' = filed \cup {<<u, e, at>>} /\ marked' = marked
  BY DEF File
<1>3. Written(u, e, at) \in [ev : Reads \cup {ByHand}, at : Nat]
  BY <1>1, SMT DEF Written, Later
<1>4. /\ row' \in [Users -> [ev : Reads \cup {ByHand}, at : Nat]]
      /\ row[u]' = Written(u, e, at) /\ \A v \in Users \ {u} : row[v]' = row[v]
  BY <1>1, <1>2, <1>3
<1>5. filed' \subseteq Users \X Reads \X Nat
  BY <1>1, <1>2
<1>6. muddled' \in BOOLEAN
  OBVIOUS
<1>7. \A v \in Users : row[v]'.at <= clock /\ (row[v]'.ev # ByHand => made[row[v]'.ev] # 0)
  <2>1. Written(u, e, at).at <= clock /\ (Written(u, e, at).ev # ByHand => made[Written(u, e, at).ev] # 0)
    BY <1>1, SMT DEF IInv, Stamps, Filing, Written, Later
  <2> QED BY <1>4, <2>1 DEF IInv, Stamps
<1>8. \A g \in filed' : made[g[2]] # 0
  BY <1>2 DEF IInv, Stamps, Filing
<1>9. FiledAsItsReader'
  BY <1>2 DEF IInv, FiledAsItsReader
<1>10. ASSUME ~crossed', ~muddled' PROVE InOrder' /\ NewestWins'
  <2>1. ~crossed /\ ~muddled /\ ~Muddles(u, e) /\ u = who[e]
    BY <1>10, Zenon
  <2>2. InOrder /\ NewestWins /\ \A g \in filed : g[1] = who[g[2]]
    BY <2>1 DEF IInv, FiledAsItsReader
  <2> DEFINE now == IF row[u]'.ev = ByHand THEN marked[u] ELSE made[row[u]'.ev]
  <2>3. /\ marked[u] <= now /\ now <= row[u]'.at /\ made[e] <= now
        /\ \A g \in Filed(u) : made[g[2]] <= now
        /\ \A g \in Reads : who[g] = u /\ made[g] > now => made[g] >= row[u]'.at
    <3>1. CASE row[u] = NoRow
      <4>1. row[u]' = [ev |-> e, at |-> clock] /\ ~Newer(u, e)
        BY <1>4, <2>1, <3>1 DEF Written, Muddles
      <4>2. \A g \in Filed(u) : g[2] \in Reads /\ who[g[2]] = u
        BY <1>1, <2>2 DEF Filed
      <4>3. e # ByHand
        BY ReadsAssumption DEF ByHand
      <4> QED BY <1>1, <4>1, <4>2, <4>3, SMT DEF Newer, Filing
    <3>2. CASE row[u] # NoRow
      <4>1. /\ marked[u] <= Shown(u) /\ Shown(u) <= row[u].at
            /\ \A g \in Filed(u) : made[g[2]] <= Shown(u)
            /\ \A g \in Reads : who[g] = u /\ made[g] > Shown(u) => made[g] >= row[u].at
        BY <2>1, <2>2, <3>2 DEF NewestWins, InOrder, Shown
      <4>2. Shown(u) \in Nat /\ row[u].at \in Nat /\ made[e] \in Nat /\ marked[u] \in Nat
        BY <1>1, SMT DEF Shown
      <4>3. CASE at >= row[u].at
        <5>1. row[u]'.ev = e /\ row[u]'.at = at
          BY <1>4, <3>2, <4>2, <4>3, SMT DEF Written, Later
        <5>2. e # ByHand
          BY ReadsAssumption DEF ByHand
        <5>3. /\ \A g \in Reads : who[g] = u /\ made[g] > made[e] => made[g] >= at
              /\ marked[u] > made[e] => marked[u] >= at
              /\ \A g \in Reads : who[g] = u /\ made[g] > made[e] => made[g] > at \/ at = made[e]
              /\ marked[u] > made[e] => marked[u] > at \/ at = made[e]
          BY <1>1, <2>1, <2>2, SMT DEF InOrder, Filing
        <5>4. \A g \in Filed(u) : g[2] \in Reads /\ who[g[2]] = u /\ made[g[2]] \in Nat
          BY <1>1, <2>2 DEF Filed
        <5>5. marked[u] <= made[e]
          BY <4>1, <4>2, <4>3, <5>3, SMT
        <5>6. \A g \in Filed(u) : made[g[2]] <= made[e]
          BY <4>1, <4>2, <4>3, <5>3, <5>4, SMT
        <5>7. now = made[e]
          BY <5>1, <5>2
        <5> QED BY <5>1, <5>3, <5>5, <5>6, <5>7, <4>2, SMT DEF Filing
      <4>4. CASE at < row[u].at
        <5>1. row[u]'.ev = row[u].ev /\ row[u]'.at = row[u].at
          BY <1>4, <3>2, <4>2, <4>4, SMT DEF Written, Later
        <5>2. now = Shown(u)
          BY <5>1 DEF Shown
        <5>3. made[e] <= Shown(u)
          BY <2>1, <4>1, <4>2, <4>4, SMT DEF Filing
        <5> QED BY <4>1, <5>1, <5>2, <5>3
      <4> QED BY <4>2, <4>3, <4>4, SMT
    <3> QED BY <3>1, <3>2
  <2>4. Filed(u)' = Filed(u) \cup {<<u, e, at>>} /\ \A v \in Users \ {u} : Filed(v)' = Filed(v)
    BY <1>2 DEF Filed
  <2>5. Shown(u)' = now /\ \A v \in Users \ {u} : Shown(v)' = Shown(v)
    BY <1>2, <1>4 DEF Shown
  <2>6. NewestWins'
    <3> SUFFICES ASSUME NEW v \in Users, row'[v] # NoRow
                 PROVE  /\ marked'[v] <= Shown(v)' /\ Shown(v)' <= row'[v].at
                        /\ \A g \in Filed(v)' : made'[g[2]] <= Shown(v)'
      BY DEF NewestWins, Shown
    <3>1. CASE v = u
      <4> HIDE DEF now
      <4> QED BY <1>2, <2>3, <2>4, <2>5, <3>1
    <3>2. CASE v # u
      BY <1>2, <1>4, <2>1, <2>2, <2>4, <2>5, <3>2 DEF NewestWins, Shown
    <3> QED BY <3>1, <3>2
  <2>7. InOrder'
    <3>1. ASSUME NEW v \in Users, row'[v] # NoRow, NEW g \in Reads, who'[g] = v, made'[g] > Shown(v)'
          PROVE  made'[g] >= row'[v].at
      <4>1. CASE v = u
        <5> HIDE DEF now
        <5> QED BY <2>3, <2>5, <3>1, <4>1
      <4>2. CASE v # u
        BY <1>4, <2>2, <2>5, <3>1, <4>2 DEF InOrder
      <4> QED BY <4>1, <4>2
    <3> QED BY <1>2, <2>2, <3>1 DEF InOrder
  <2> QED BY <2>6, <2>7
<1> QED BY <1>2, <1>4, <1>5, <1>6, <1>7, <1>8, <1>9, <1>10

LEMMA FlushServedStep == ASSUME IInv, NEW f \in Flushers, FlushServed(f) PROVE IInv'
<1> DEFINE e == flush[f].ev
           u == flush[f].as
<1>0. /\ flush[f].at = "sent" /\ u # None /\ File(u, e, tag[e].ts) /\ muddled' = (muddled \/ Muddles(u, e))
      /\ flush' = [flush EXCEPT ![f] = [flush[f] EXCEPT !.at = "done"]]
      /\ UNCHANGED <<clock, made, who, ping, outbox, tag, me, jar, hint, present, upsets, refused, unsaved, crossed>>
  BY DEF FlushServed, Goes, account
<1>1. flush[f] \in FlushType /\ flush \in [Flushers -> FlushType]
  BY DEF IInv, TypeOK, FlushType
<1>2. e \in Reads /\ u \in Users /\ tag[e].user # None /\ tag[e].ts \in Nat
  BY <1>0, <1>1, SMT DEF IInv, TypeOK, Queued, FlushType
<1>3. Filing(u, e, tag[e].ts)
  <2>1. made[e] # 0
    BY <1>2, SMT DEF IInv, Stamps
  <2> QED BY <1>2, <2>1 DEF IInv, Stamps, Filing
<1>4. ~crossed => u = who[e]
  BY <1>0 DEF IInv, Own
<1>5. /\ row' \in [Users -> [ev : Reads \cup {ByHand}, at : Nat]]
      /\ filed' \subseteq Users \X Reads \X Nat /\ marked' = marked /\ muddled' \in BOOLEAN
      /\ \A v \in Users : row[v]'.at <= clock /\ (row[v]'.ev # ByHand => made[row[v]'.ev] # 0)
      /\ \A g \in filed' : made[g[2]] # 0
      /\ FiledAsItsReader'
      /\ ~crossed' /\ ~muddled' => InOrder' /\ NewestWins'
  <2> HIDE DEF e, u
  <2> QED BY <1>0, <1>2, <1>3, <1>4, FileStep
<1>6. filed' = filed \cup {<<u, e, tag[e].ts>>}
  BY <1>0 DEF File
<1>7. TypeOK'
  <2>1. [flush[f] EXCEPT !.at = "done"] \in FlushType
    BY <1>1, SMT DEF FlushType
  <2>2. flush' \in [Flushers -> FlushType]
    BY <1>0, <1>1, <2>1
  <2> QED BY <1>0, <1>5, <2>2 DEF IInv, TypeOK, FlushType
<1>8. Stamps'
  BY <1>0, <1>5 DEF IInv, Stamps
<1>9. Queued' /\ OneAccount' /\ SignedOut'
  BY <1>0, <1>1, SMT DEF IInv, Queued, OneAccount, SignedOut
<1>10. Answered' /\ NothingReadIsLost'
  <2>1. flush'[f].ev = e /\ \A h \in Flushers \ {f} : flush'[h] = flush[h]
    BY <1>0, <1>1
  <2>2. <<u, e, tag[e].ts>> \in filed' /\ <<u, e, tag[e].ts>>[2] = e /\ filed \subseteq filed'
    BY <1>6
  <2>3. Answered'
    <3> HIDE DEF e, u
    <3> QED BY <1>0, <2>1, <2>2 DEF IInv, Answered
  <2>4. NothingReadIsLost'
    <3> HIDE DEF e, u
    <3> QED BY <1>0, <2>2 DEF IInv, NothingReadIsLost
  <2> QED BY <2>3, <2>4
<1>11. ASSUME ~crossed' PROVE Own'
  BY <1>0, <1>1, <1>11, SMT DEF IInv, Own, Pending, Failing, Flushers
<1>12. NewestWins'
  BY <1>5 DEF NewestWins
<1> QED BY <1>5, <1>7, <1>8, <1>9, <1>10, <1>11, <1>12 DEF IInv

-----------------------------------------------------------------------------
(* The reader *)

LEMMA PingServedStep == ASSUME IInv, NEW e \in Reads, PingServed(e) PROVE IInv'
<1>0. PICK to \in {"over", "unheard"} :
      /\ ping[e] = "sent" /\ File(who[e], e, made[e]) /\ muddled' = (muddled \/ Muddles(who[e], e))
      /\ ping' = [ping EXCEPT ![e] = to]
      /\ UNCHANGED <<clock, made, who, outbox, tag, flush, me, jar, hint, present, upsets, refused, unsaved, crossed>>
  BY DEF PingServed, account
<1>1. /\ made[e] # 0 /\ made[e] \in Nat /\ who[e] \in Users /\ Filing(who[e], e, made[e])
      /\ ping \in [Reads -> {"none", "sent", "unheard", "queueing", "over"}]
  <2>1. made[e] # 0 /\ made[e] \in Nat /\ ping \in [Reads -> {"none", "sent", "unheard", "queueing", "over"}]
    BY <1>0, SMT DEF IInv, Stamps, TypeOK
  <2> QED BY <2>1, SMT DEF IInv, Stamps, Filing
<1>2. /\ row' \in [Users -> [ev : Reads \cup {ByHand}, at : Nat]]
      /\ filed' \subseteq Users \X Reads \X Nat /\ marked' = marked /\ muddled' \in BOOLEAN
      /\ \A v \in Users : row[v]'.at <= clock /\ (row[v]'.ev # ByHand => made[row[v]'.ev] # 0)
      /\ \A g \in filed' : made[g[2]] # 0
      /\ FiledAsItsReader'
      /\ ~crossed' /\ ~muddled' => InOrder' /\ NewestWins'
  BY <1>0, <1>1, FileStep
<1>3. filed' = filed \cup {<<who[e], e, made[e]>>}
  BY <1>0 DEF File
<1>4. /\ ping' \in [Reads -> {"none", "sent", "unheard", "queueing", "over"}]
      /\ ping'[e] = to /\ \A g \in Reads \ {e} : ping'[g] = ping[g]
  BY <1>0, <1>1
<1>5. TypeOK'
  BY <1>0, <1>2, <1>4 DEF IInv, TypeOK
<1>6. Stamps'
  <2>1. tag[e].user = None
    BY <1>0 DEF IInv, Stamps
  <2> QED BY <1>0, <1>1, <1>2, <1>4, <2>1, SMT DEF IInv, Stamps
<1>7. Queued' /\ OneAccount' /\ SignedOut'
  BY <1>0 DEF IInv, Queued, OneAccount, SignedOut
<1>8. Answered'
  BY <1>0, <1>3 DEF IInv, Answered
<1>9. NothingReadIsLost'
  <2>1. <<who[e], e, made[e]>> \in filed' /\ <<who[e], e, made[e]>>[2] = e /\ filed \subseteq filed'
    BY <1>3
  <2> QED BY <1>0, <1>4, <2>1 DEF IInv, NothingReadIsLost
<1>10. ASSUME ~crossed' PROVE Own'
  BY <1>0, <1>4, <1>10, SMT DEF IInv, Own, Pending, Failing
<1>11. NewestWins'
  BY <1>2 DEF NewestWins
<1> QED BY <1>2, <1>5, <1>6, <1>7, <1>8, <1>9, <1>10, <1>11 DEF IInv

\* A new reading disturbs nobody's order: it is later than everything.
LEMMA NewReading ==
    ASSUME IInv, NEW e \in Reads, NEW u \in Users, made[e] = 0,
           made' = [made EXCEPT ![e] = clock], who' = [who EXCEPT ![e] = u],
           UNCHANGED <<tag, row, marked, filed, muddled, crossed>>
    PROVE  /\ FiledAsItsReader'
           /\ ~crossed /\ ~muddled => InOrder' /\ NewestWins'
<1>1. /\ clock \in Nat \ {0} /\ made \in [Reads -> Nat] /\ who \in [Reads -> Users \cup {None}]
      /\ row \in [Users -> [ev : Reads \cup {ByHand}, at : Nat]] /\ marked \in [Users -> Nat]
      /\ tag \in [Reads -> [user : Users \cup {None, Anon}, ts : Nat]] /\ filed \subseteq Users \X Reads \X Nat
  BY DEF IInv, TypeOK
<1>2. /\ \A g \in Reads \ {e} : made'[g] = made[g] /\ who'[g] = who[g]
      /\ made'[e] = clock /\ who'[e] = u
  BY <1>1
<1>3. \A g \in filed : g[2] \in Reads \ {e}
  BY <1>1 DEF IInv, Stamps
<1>4. FiledAsItsReader'
  BY <1>2, <1>3 DEF IInv, FiledAsItsReader
<1>5. ASSUME ~crossed, ~muddled PROVE InOrder' /\ NewestWins'
  <2>1. InOrder /\ NewestWins
    BY <1>5 DEF IInv
  <2>2. \A v \in Users : /\ Shown(v)' = Shown(v) /\ Filed(v)' = Filed(v) /\ row[v].at <= clock
                         /\ row[v].at \in Nat /\ Shown(v) \in Nat
    <3>1. \A v \in Users : row[v].ev # ByHand => row[v].ev \in Reads \ {e}
      BY <1>1, SMT DEF IInv, Stamps
    <3> QED BY <1>1, <1>2, <3>1, SMT DEF IInv, Stamps, Shown, Filed
  <2>3. NewestWins'
    BY <1>2, <1>3, <2>1, <2>2 DEF NewestWins, Shown, Filed
  <2>4. \A g \in Reads : tag[g].user # None => g # e /\ tag[g].ts < clock /\ made[g] < clock /\ who[g] \in Users
    BY <1>1, SMT DEF IInv, Stamps
  <2>5. InOrder'
    <3>1. ASSUME NEW g \in Reads, tag'[g].user # None
          PROVE  /\ \A h \in Reads : who'[h] = who'[g] /\ made'[h] > made'[g] => made'[h] > tag'[g].ts
                 /\ marked'[who'[g]] > made'[g] => marked'[who'[g]] > tag'[g].ts
      BY <1>1, <1>2, <2>1, <2>4, <3>1, SMT DEF InOrder
    <3>2. ASSUME NEW v \in Users, row'[v] # NoRow, NEW g \in Reads, who'[g] = v, made'[g] > Shown(v)'
          PROVE  made'[g] >= row'[v].at
      BY <1>1, <1>2, <2>1, <2>2, <3>2, SMT DEF InOrder
    <3> QED BY <3>1, <3>2 DEF InOrder
  <2> QED BY <2>3, <2>5
<1> QED BY <1>4, <1>5

LEMMA TurnStep == ASSUME IInv, NEW e \in Reads, Turn(e) PROVE IInv'
<1>0. /\ me # None /\ made[e] = 0 /\ made' = [made EXCEPT ![e] = clock] /\ who' = [who EXCEPT ![e] = me]
      /\ ping' = [ping EXCEPT ![e] = "sent"] /\ clock' = clock + 1
      /\ UNCHANGED <<outbox, tag, flush, me, jar, hint, row, filed, marked, present, upsets, refused, unsaved, crossed, muddled>>
  BY DEF Turn, account, server
<1>1. me \in Users /\ clock \in Nat \ {0}
  BY <1>0 DEF IInv, TypeOK
<1>2. FiledAsItsReader' /\ (~crossed /\ ~muddled => InOrder' /\ NewestWins')
  BY <1>0, <1>1, NewReading
<1>3. TypeOK'
  <2>1. made' \in [Reads -> Nat] /\ who' \in [Reads -> Users \cup {None}]
        /\ ping' \in [Reads -> {"none", "sent", "unheard", "queueing", "over"}] /\ clock' \in Nat \ {0}
    BY <1>0, <1>1, SMT DEF IInv, TypeOK
  <2> QED BY <1>0, <2>1 DEF IInv, TypeOK
<1>4. Stamps'
  BY <1>0, <1>1, SMT DEF IInv, TypeOK, Stamps
<1>5. Queued' /\ Answered' /\ OneAccount' /\ SignedOut'
  BY <1>0 DEF IInv, Queued, Answered, OneAccount, SignedOut
<1>6. NothingReadIsLost'
  BY <1>0, SMT DEF IInv, TypeOK, NothingReadIsLost
<1>7. ASSUME ~crossed' PROVE Own'
  <2>1. \A g \in Reads : tag[g].user # None => g # e
    BY <1>0 DEF IInv, Stamps
  <2>2. \A f \in Flushers : flush[f].at = "sent" => flush[f].ev \in Reads \ {e}
    BY <2>1 DEF IInv, Queued
  <2> QED BY <1>0, <1>7, <2>1, <2>2, SMT DEF IInv, TypeOK, Own, Pending, Failing
<1>8. NewestWins'
  BY <1>0, <1>2 DEF NewestWins
<1> QED BY <1>0, <1>2, <1>3, <1>4, <1>5, <1>6, <1>7, <1>8 DEF IInv

\* A ping that goes over to the queue, or is given up.
LEMMA QueueProgressStep == ASSUME IInv, NEW e \in Reads, QueueProgress(e) \/ AddFails(e) PROVE IInv'
<1>0. PICK to \in {"queueing", "over"} :
      /\ Pending(e) /\ ping' = [ping EXCEPT ![e] = to]
      /\ unsaved' \in {unsaved, unsaved \cup {e}} /\ (to = "over" => e \in unsaved')
      /\ to = "queueing" => me # None
      /\ UNCHANGED <<clock, made, who, outbox, tag, flush, me, jar, hint, row, filed, marked, present, upsets, refused, crossed, muddled>>
  BY DEF QueueProgress, AddFails, Pending, account, server
<1>1. /\ made[e] # 0 /\ tag[e].user = None
      /\ ping' \in [Reads -> {"none", "sent", "unheard", "queueing", "over"}]
      /\ ping'[e] = to /\ \A g \in Reads \ {e} : ping'[g] = ping[g]
  BY <1>0, SMT DEF IInv, TypeOK, Stamps, Pending, Failing
<1>2. TypeOK'
  <2>1. unsaved' \subseteq Reads
    BY <1>0 DEF IInv, TypeOK
  <2> QED BY <1>0, <1>1, <2>1 DEF IInv, TypeOK
<1>3. Stamps'
  BY <1>0, <1>1, SMT DEF IInv, Stamps
<1>4. Queued' /\ Answered' /\ OneAccount' /\ SignedOut' /\ FiledAsItsReader'
  <2>1. SignedOut'
    BY <1>0, <1>1, SMT DEF IInv, SignedOut
  <2> QED BY <1>0, <2>1 DEF IInv, Queued, Answered, OneAccount, FiledAsItsReader
<1>5. NothingReadIsLost'
  BY <1>0, <1>1, SMT DEF IInv, NothingReadIsLost
<1>6. ASSUME ~crossed' PROVE Own'
  BY <1>0, <1>1, <1>6, SMT DEF IInv, Own, Pending, Failing
<1>7. NewestWins' /\ (~crossed' /\ ~muddled' => InOrder')
  BY <1>0, Zenon DEF IInv, NewestWins, InOrder, Shown, Filed, NoRow
<1> QED BY <1>2, <1>3, <1>4, <1>5, <1>6, <1>7 DEF IInv

\* A row that is stamped 'anon' is its reader's no more; they have signed out.
LEMMA AddToOutboxStep == ASSUME IInv, NEW e \in Reads, AddToOutbox(e) PROVE IInv'
<1>0. /\ ping[e] = "queueing" /\ ping' = [ping EXCEPT ![e] = "over"]
      /\ outbox' = outbox \cup {e} /\ tag' = [tag EXCEPT ![e] = [user |-> owner(me), ts |-> clock]]
      /\ clock' = clock + 1 /\ muddled' = (muddled \/ Newer(who[e], e))
      /\ UNCHANGED <<made, who, flush, me, jar, hint, row, filed, marked, present, upsets, refused, unsaved, crossed>>
  BY DEF AddToOutbox, account, server
<1>1. /\ made[e] # 0 /\ tag[e].user = None /\ made[e] < clock /\ who[e] \in Users
      /\ clock \in Nat \ {0} /\ made \in [Reads -> Nat]
      /\ tag \in [Reads -> [user : Users \cup {None, Anon}, ts : Nat]]
      /\ ping' \in [Reads -> {"none", "sent", "unheard", "queueing", "over"}]
      /\ ping'[e] = "over" /\ \A g \in Reads \ {e} : ping'[g] = ping[g]
  BY <1>0, SMT DEF IInv, TypeOK, Stamps
<1>2. /\ owner(me) \in Users \cup {Anon} /\ owner(me) # None /\ (me # None => owner(me) = me)
  BY UsersAssumption DEF IInv, TypeOK, owner, None, Anon
<1>3. /\ tag' \in [Reads -> [user : Users \cup {None, Anon}, ts : Nat]]
      /\ tag'[e] = [user |-> owner(me), ts |-> clock] /\ \A g \in Reads \ {e} : tag'[g] = tag[g]
  BY <1>0, <1>1, <1>2, SMT
<1>4. FiledAsItsReader' /\ OneAccount' /\ SignedOut'
  BY <1>0 DEF IInv, FiledAsItsReader, OneAccount, SignedOut
<1>5. TypeOK'
  <2>1. muddled' \in BOOLEAN
    BY <1>0
  <2>2. clock' \in Nat \ {0} /\ outbox' \subseteq Reads
    BY <1>0, <1>1, SMT DEF IInv, TypeOK
  <2> QED BY <1>0, <1>1, <1>3, <2>1, <2>2 DEF IInv, TypeOK
<1>6. Stamps'
  BY <1>0, <1>1, <1>3, SMT DEF IInv, TypeOK, Stamps
<1>7. Queued' /\ Answered'
  BY <1>0, <1>1, <1>2, <1>3, SMT DEF IInv, Queued, Answered
<1>8. NothingReadIsLost'
  <2>1. me # None \/ e \in unsaved
    BY <1>0 DEF IInv, SignedOut
  <2>2. e \in unsaved' \/ (e \in outbox' /\ tag'[e].user \in Users)
    BY <1>0, <1>2, <1>3, <2>1 DEF IInv, TypeOK
  <2> QED BY <1>0, <1>1, <1>3, <2>2, SMT DEF IInv, NothingReadIsLost
<1>9. ASSUME ~crossed' PROVE Own'
  <2>1. who[e] = me /\ me # None
    BY <1>0, <1>1, <1>9, UsersAssumption DEF IInv, Own, Pending
  <2> QED BY <1>0, <1>1, <1>2, <1>3, <1>9, <2>1, SMT DEF IInv, Own, Pending, Failing
<1>10. ASSUME ~crossed', ~muddled' PROVE InOrder' /\ NewestWins'
  <2>1. ~crossed /\ ~muddled /\ ~Newer(who[e], e)
    BY <1>0, <1>10, Zenon
  <2>2. InOrder /\ NewestWins
    BY <2>1 DEF IInv
  <2>3. NewestWins'
    BY <1>0, <2>1, <2>2 DEF NewestWins, Filed
  <2>4. InOrder'
    BY <1>0, <1>1, <1>3, <2>1, <2>2, SMT DEF InOrder, Newer, Shown
  <2> QED BY <2>3, <2>4
<1>11. NewestWins'
  BY <1>10 DEF NewestWins
<1> QED BY <1>4, <1>5, <1>6, <1>7, <1>8, <1>9, <1>10, <1>11 DEF IInv

-----------------------------------------------------------------------------
(* People *)

LEMMA SignOutStep == ASSUME IInv, SignOut PROVE IInv'
<1>0. /\ me' = None /\ jar' \in {jar, None} /\ crossed' = (crossed \/ Busy) /\ Upset
      /\ unsaved' = unsaved \cup {e \in Reads : ping[e] = "queueing"}
      /\ UNCHANGED <<clock, made, who, ping, outbox, tag, flush, hint, row, filed, marked, present, refused, muddled>>
  BY DEF SignOut, HandsOver, device, server
<1>1. TypeOK'
  <2>1. upsets' \in 0 .. MaxUpsets
    BY <1>0, ReadsAssumption, SMT DEF IInv, TypeOK, Upset
  <2>2. crossed' \in BOOLEAN
    BY <1>0
  <2> QED BY <1>0, <2>1, <2>2 DEF IInv, TypeOK
<1>2. Queued' /\ Answered' /\ OneAccount' /\ SignedOut' /\ NothingReadIsLost'
  BY <1>0 DEF IInv, Queued, Answered, OneAccount, SignedOut, NothingReadIsLost
<1>3. ASSUME ~crossed' PROVE Own'
  <2>1. Own /\ ~Busy
    BY <1>0, <1>3, Zenon DEF IInv
  <2> QED BY <1>0, <2>1, SMT DEF Own, Busy, Pending, Failing, Flushers
<1> QED BY <1>0, <1>1, <1>2, <1>3, Frame DEF IInv

LEMMA SignInStep == ASSUME IInv, NEW u \in Users, SignIn(u) PROVE IInv'
<1>0. /\ me' = u /\ jar' = u /\ crossed' = (crossed \/ Busy)
      /\ UNCHANGED <<clock, made, who, ping, outbox, tag, flush, hint, row, filed, marked, present, upsets, refused, unsaved, muddled>>
  BY DEF SignIn, HandsOver, device, server
<1>1. TypeOK'
  <2>1. crossed' \in BOOLEAN
    BY <1>0
  <2> QED BY <1>0, <2>1 DEF IInv, TypeOK
<1>2. Queued' /\ Answered' /\ OneAccount' /\ SignedOut' /\ NothingReadIsLost'
  BY <1>0, UsersAssumption DEF IInv, Queued, Answered, OneAccount, SignedOut, NothingReadIsLost
<1>3. ASSUME ~crossed' PROVE Own'
  <2>1. Own /\ ~Busy
    BY <1>0, <1>3, Zenon DEF IInv
  <2> QED BY <1>0, <2>1, SMT DEF Own, Busy, Pending, Failing, Flushers
<1> QED BY <1>0, <1>1, <1>2, <1>3, Frame DEF IInv

LEMMA TellWorkerStep == ASSUME IInv, TellWorker PROVE IInv'
<1>0. /\ hint' = me
      /\ UNCHANGED <<clock, made, who, ping, outbox, tag, flush, me, jar, row, filed, marked, present, upsets, refused, unsaved, crossed, muddled>>
  BY DEF TellWorker, device, server
<1>1. TypeOK'
  BY <1>0 DEF IInv, TypeOK
<1>2. Queued' /\ Answered' /\ OneAccount' /\ SignedOut' /\ NothingReadIsLost'
  BY <1>0 DEF IInv, Queued, Answered, OneAccount, SignedOut, NothingReadIsLost
<1>3. ASSUME ~crossed' PROVE Own'
  BY <1>0, <1>3, SMT DEF IInv, OneAccount, SignedOut, Own, Pending, Failing
<1> QED BY <1>0, <1>1, <1>2, <1>3, Frame DEF IInv

\* What is filed as it is made is the newest there is.
LEMMA TurnElsewhereStep == ASSUME IInv, NEW u \in Users, NEW e \in Reads, TurnElsewhere(u, e) PROVE IInv'
<1>0. /\ made[e] = 0 /\ made' = [made EXCEPT ![e] = clock] /\ who' = [who EXCEPT ![e] = u]
      /\ ping' = [ping EXCEPT ![e] = "over"] /\ clock' = clock + 1
      /\ row' = [row EXCEPT ![u] = Written(u, e, clock)] /\ filed' = filed \cup {<<u, e, clock>>}
      /\ UNCHANGED <<outbox, tag, flush, me, jar, hint, marked, present, upsets, refused, unsaved, crossed, muddled>>
  BY DEF TurnElsewhere, File, account
<1>1. /\ clock \in Nat \ {0} /\ made \in [Reads -> Nat] /\ who \in [Reads -> Users \cup {None}]
      /\ ping \in [Reads -> {"none", "sent", "unheard", "queueing", "over"}]
      /\ row \in [Users -> [ev : Reads \cup {ByHand}, at : Nat]] /\ marked \in [Users -> Nat]
      /\ tag \in [Reads -> [user : Users \cup {None, Anon}, ts : Nat]] /\ filed \subseteq Users \X Reads \X Nat
  BY DEF IInv, TypeOK
<1>2. /\ \A g \in Reads \ {e} : made'[g] = made[g] /\ who'[g] = who[g] /\ ping'[g] = ping[g]
      /\ made'[e] = clock /\ who'[e] = u /\ ping'[e] = "over" /\ tag[e].user = None
  <2>1. ping[e] = "none"
    BY <1>0 DEF IInv, Stamps
  <2> QED BY <1>0, <1>1, <2>1 DEF IInv, Stamps
<1>3. row'[u] = [ev |-> e, at |-> clock] /\ \A v \in Users \ {u} : row'[v] = row[v]
  <2>1. row[u].at \in Nat /\ row[u].at <= clock
    BY <1>1 DEF IInv, Stamps
  <2> QED BY <1>0, <1>1, <2>1, SMT DEF Written, Later
<1>4. \A g \in filed : g[2] \in Reads \ {e} /\ g[1] \in Users
  BY <1>0, <1>1 DEF IInv, Stamps
<1>5. \A v \in Users : row[v].ev # ByHand => row[v].ev \in Reads \ {e}
  BY <1>0, <1>1, SMT DEF IInv, Stamps
<1>6. TypeOK'
  <2>1. made' \in [Reads -> Nat] /\ clock' \in Nat \ {0}
    BY <1>0, <1>1, SMT
  <2>2. [ev |-> e, at |-> clock] \in [ev : Reads \cup {ByHand}, at : Nat]
    BY <1>1, SMT
  <2>3. row' \in [Users -> [ev : Reads \cup {ByHand}, at : Nat]]
    BY <1>0, <1>1, <1>3, <2>2
  <2>4. filed' \subseteq Users \X Reads \X Nat
    BY <1>0, <1>1
  <2> QED BY <1>0, <1>1, <2>1, <2>3, <2>4 DEF IInv, TypeOK
<1>7. Stamps'
  <2>1. ASSUME NEW g \in Reads
        PROVE  /\ made'[g] # 0 <=> ping'[g] # "none"
               /\ made'[g] # 0 => who'[g] \in Users /\ made'[g] < clock'
               /\ tag'[g].user # None => ping'[g] = "over" /\ made'[g] <= tag'[g].ts /\ tag'[g].ts < clock'
    BY <1>0, <1>1, <1>2, SMT DEF IInv, Stamps
  <2>2. ASSUME NEW v \in Users
        PROVE  /\ row'[v].at <= clock' /\ marked'[v] < clock'
               /\ row'[v].ev # ByHand => made'[row'[v].ev] # 0
    <3>1. row[v].at \in Nat /\ row[v].at <= clock /\ marked[v] \in Nat /\ marked[v] < clock
      BY <1>1 DEF IInv, Stamps
    <3>2. CASE v = u
      BY <1>0, <1>1, <1>2, <1>3, <3>1, <3>2, SMT
    <3>3. CASE v # u
      <4>1. row'[v] = row[v] /\ (row[v].ev # ByHand => made[row[v].ev] # 0)
        BY <1>3, <3>3 DEF IInv, Stamps
      <4>2. row[v].ev # ByHand => made'[row[v].ev] = made[row[v].ev]
        BY <1>2, <1>5
      <4> QED BY <1>0, <1>1, <3>1, <4>1, <4>2, SMT
    <3> QED BY <3>2, <3>3
  <2>3. \A g \in filed' : made'[g[2]] # 0
    <3>1. \A g \in filed : made'[g[2]] # 0
      BY <1>2, <1>4 DEF IInv, Stamps
    <3>2. made'[<<u, e, clock>>[2]] # 0
      BY <1>1, <1>2
    <3> QED BY <1>0, <3>1, <3>2
  <2> QED BY <2>1, <2>2, <2>3 DEF Stamps
<1>8. Queued' /\ OneAccount' /\ SignedOut'
  BY <1>0 DEF IInv, Queued, OneAccount, SignedOut
<1>9. Answered'
  BY <1>0 DEF IInv, Answered
<1>10. NothingReadIsLost'
  <2>1. \E g \in filed' : g[2] = e
    <3>1. <<u, e, clock>> \in filed' /\ <<u, e, clock>>[2] = e
      BY <1>0
    <3> QED BY <3>1
  <2> QED BY <1>0, <1>2, <2>1 DEF IInv, NothingReadIsLost
<1>11. FiledAsItsReader'
  BY <1>0, <1>2, <1>4 DEF IInv, FiledAsItsReader
<1>12. ASSUME ~crossed' PROVE Own'
  <2>1. \A f \in Flushers : flush[f].at = "sent" => flush[f].ev \in Reads \ {e}
    BY <1>2 DEF IInv, Queued
  <2> QED BY <1>0, <1>2, <1>12, <2>1, SMT DEF IInv, Own, Pending, Failing
<1>13. ASSUME ~crossed', ~muddled' PROVE InOrder' /\ NewestWins'
  <2>1. InOrder /\ NewestWins /\ ~crossed /\ ~muddled
    BY <1>0, <1>13 DEF IInv
  <2>2. Shown(u)' = clock /\ \A v \in Users \ {u} : Shown(v)' = Shown(v)
    <3>1. e # ByHand
      BY ReadsAssumption DEF ByHand
    <3>2. Shown(u)' = clock
      BY <1>2, <1>3, <3>1 DEF Shown
    <3>3. ASSUME NEW v \in Users \ {u} PROVE Shown(v)' = Shown(v)
      BY <1>0, <1>2, <1>3, <1>5 DEF Shown
    <3> QED BY <3>2, <3>3
  <2>3. /\ \A v \in Users \ {u} : Filed(v)' = Filed(v)
        /\ Filed(u)' = Filed(u) \cup {<<u, e, clock>>}
    BY <1>0 DEF Filed
  <2>4. \A g \in filed : made'[g[2]] = made[g[2]] /\ made[g[2]] \in Nat /\ made[g[2]] < clock
    <3>1. \A g \in Reads : made[g] \in Nat /\ made[g] < clock
      BY <1>1, SMT DEF IInv, Stamps
    <3> QED BY <1>2, <1>4, <3>1
  <2>5. NewestWins'
    <3> SUFFICES ASSUME NEW v \in Users, row'[v] # NoRow
                 PROVE  /\ marked'[v] <= Shown(v)' /\ Shown(v)' <= row'[v].at
                        /\ \A g \in Filed(v)' : made'[g[2]] <= Shown(v)'
      BY DEF NewestWins, Shown
    <3>1. CASE v = u
      <4>1. marked[u] \in Nat /\ marked[u] < clock
        BY <1>1 DEF IInv, Stamps
      <4>2. \A g \in Filed(u)' : made'[g[2]] <= clock
        BY <1>1, <1>2, <2>3, <2>4, SMT DEF Filed
      <4> QED BY <1>0, <1>1, <1>3, <2>2, <3>1, <4>1, <4>2, SMT
    <3>2. CASE v # u
      <4>1. /\ row'[v] = row[v] /\ marked'[v] = marked[v] /\ Shown(v)' = Shown(v) /\ Filed(v)' = Filed(v)
            /\ \A g \in Filed(v) : made'[g[2]] = made[g[2]]
        BY <1>0, <1>3, <2>2, <2>3, <2>4, <3>2 DEF Filed
      <4>2. /\ marked[v] <= Shown(v) /\ Shown(v) <= row[v].at
            /\ \A g \in Filed(v) : made[g[2]] <= Shown(v)
        BY <2>1, <4>1 DEF NewestWins, Shown
      <4> QED BY <4>1, <4>2
    <3> QED BY <3>1, <3>2
  <2>6. InOrder'
    <3>1. ASSUME NEW g \in Reads, tag'[g].user # None
          PROVE  /\ \A h \in Reads : who'[h] = who'[g] /\ made'[h] > made'[g] => made'[h] > tag'[g].ts
                 /\ marked'[who'[g]] > made'[g] => marked'[who'[g]] > tag'[g].ts
      <4>1. g # e /\ tag[g].ts < clock /\ made[g] < clock /\ made[g] \in Nat /\ tag[g].ts \in Nat
        BY <1>0, <1>1, <1>2, <3>1, SMT DEF IInv, Stamps
      <4> QED BY <1>0, <1>1, <1>2, <2>1, <3>1, <4>1, SMT DEF InOrder
    <3>2. ASSUME NEW v \in Users, row'[v] # NoRow, NEW g \in Reads, who'[g] = v, made'[g] > Shown(v)'
          PROVE  made'[g] >= row'[v].at
      <4>1. CASE v = u
        BY <1>3, <2>2, <3>2, <4>1, <1>1, <1>2, SMT
      <4>2. CASE v # u
        <5>1. g # e /\ row'[v] = row[v] /\ Shown(v)' = Shown(v)
          BY <1>2, <1>3, <2>2, <3>2, <4>2
        <5> QED BY <1>2, <2>1, <3>2, <5>1 DEF InOrder
      <4> QED BY <4>1, <4>2
    <3> QED BY <3>1, <3>2 DEF InOrder
  <2> QED BY <2>5, <2>6
<1>14. NewestWins'
  BY <1>13 DEF NewestWins
<1> QED BY <1>6, <1>7, <1>8, <1>9, <1>10, <1>11, <1>12, <1>13, <1>14 DEF IInv

LEMMA MarkByHandStep == ASSUME IInv, NEW u \in Users, MarkByHand(u) PROVE IInv'
<1>0. PICK r \in {NoRow, [ev |-> ByHand, at |-> clock]} :
      /\ row' = [row EXCEPT ![u] = r] /\ marked' = [marked EXCEPT ![u] = clock] /\ clock' = clock + 1 /\ Upset
      /\ UNCHANGED <<made, who, ping, outbox, tag, flush, me, jar, hint, filed, present, refused, unsaved, crossed, muddled>>
  BY DEF MarkByHand, device, account
<1>1. /\ clock \in Nat \ {0} /\ made \in [Reads -> Nat] /\ who \in [Reads -> Users \cup {None}]
      /\ row \in [Users -> [ev : Reads \cup {ByHand}, at : Nat]] /\ marked \in [Users -> Nat]
      /\ tag \in [Reads -> [user : Users \cup {None, Anon}, ts : Nat]] /\ filed \subseteq Users \X Reads \X Nat
  BY DEF IInv, TypeOK
<1>2. /\ row'[u] = r /\ \A v \in Users \ {u} : row'[v] = row[v]
      /\ marked'[u] = clock /\ \A v \in Users \ {u} : marked'[v] = marked[v]
  BY <1>0, <1>1
<1>3. r \in [ev : Reads \cup {ByHand}, at : Nat] /\ r.ev = ByHand /\ r.at <= clock /\ (r # NoRow => r.at = clock)
  BY <1>1, SMT DEF NoRow, ByHand
<1>4. \A g \in Reads : made[g] \in Nat /\ made[g] < clock
  BY <1>1, SMT DEF IInv, Stamps
<1>5. TypeOK'
  <2>1. upsets' \in 0 .. MaxUpsets /\ clock' \in Nat \ {0} /\ marked' \in [Users -> Nat]
    BY <1>0, <1>1, ReadsAssumption, SMT DEF IInv, TypeOK, Upset
  <2>2. row' \in [Users -> [ev : Reads \cup {ByHand}, at : Nat]]
    BY <1>0, <1>1, <1>3
  <2> QED BY <1>0, <2>1, <2>2 DEF IInv, TypeOK
<1>6. Stamps'
  <2>1. ASSUME NEW v \in Users
        PROVE  /\ row'[v].at <= clock' /\ marked'[v] < clock'
               /\ row'[v].ev # ByHand => made'[row'[v].ev] # 0
    BY <1>0, <1>1, <1>2, <1>3, SMT DEF IInv, Stamps
  <2>2. \A g \in Reads : made[g] < clock' /\ (tag[g].user # None => tag[g].ts < clock')
    BY <1>0, <1>1, <1>4, SMT DEF IInv, Stamps
  <2> QED BY <1>0, <2>1, <2>2, SMT DEF IInv, Stamps
<1>7. Queued' /\ Answered' /\ OneAccount' /\ SignedOut' /\ NothingReadIsLost' /\ FiledAsItsReader'
  BY <1>0 DEF IInv, Queued, Answered, OneAccount, SignedOut, NothingReadIsLost, FiledAsItsReader
<1>8. ASSUME ~crossed' PROVE Own'
  BY <1>0, <1>8 DEF IInv, Own, Pending, Failing
<1>9. ASSUME ~crossed', ~muddled' PROVE InOrder' /\ NewestWins'
  <2>1. InOrder /\ NewestWins /\ ~crossed /\ ~muddled
    BY <1>0, <1>9 DEF IInv
  <2>2. Shown(u)' = clock /\ \A v \in Users \ {u} : Shown(v)' = Shown(v)
    BY <1>0, <1>2, <1>3 DEF Shown
  <2>3. \A v \in Users : Filed(v)' = Filed(v) /\ \A g \in Filed(v) : g[2] \in Reads
    BY <1>0, <1>1 DEF Filed
  <2>4. NewestWins'
    <3> SUFFICES ASSUME NEW v \in Users, row'[v] # NoRow'
                 PROVE  /\ marked'[v] <= Shown(v)' /\ Shown(v)' <= row'[v].at
                        /\ \A g \in Filed(v)' : made'[g[2]] <= Shown(v)'
      BY DEF NewestWins, Shown
    <3>1. CASE v = u
      <4>1. row'[u].at = clock
        BY <1>2, <1>3, <3>1 DEF NoRow
      <4>2. \A g \in Filed(u)' : made'[g[2]] <= clock
        BY <1>0, <1>1, <1>4, <2>3, SMT
      <4> QED BY <1>1, <1>2, <2>2, <3>1, <4>1, <4>2, SMT
    <3>2. CASE v # u
      <4>1. row'[v] = row[v] /\ marked'[v] = marked[v] /\ Shown(v)' = Shown(v)
        BY <1>2, <2>2, <3>2
      <4>2. row[v] # NoRow
        BY <1>2, <3>2 DEF NoRow
      <4>3. /\ marked[v] <= Shown(v) /\ Shown(v) <= row[v].at
            /\ \A g \in Filed(v) : made[g[2]] <= Shown(v)
        BY <2>1, <4>2 DEF NewestWins, Shown
      <4> QED BY <1>0, <2>3, <4>1, <4>3
    <3> QED BY <3>1, <3>2
  <2>5. InOrder'
    <3>1. ASSUME NEW g \in Reads, tag'[g].user # None
          PROVE  /\ \A h \in Reads : who'[h] = who'[g] /\ made'[h] > made'[g] => made'[h] > tag'[g].ts
                 /\ marked'[who'[g]] > made'[g] => marked'[who'[g]] > tag'[g].ts
      <4>1. who[g] \in Users /\ tag[g].ts < clock
        BY <1>0, <1>1, <3>1, SMT DEF IInv, Stamps
      <4>2. who[g] = u \/ marked'[who[g]] = marked[who[g]]
        BY <1>2, <4>1
      <4> QED BY <1>0, <1>1, <1>2, <2>1, <3>1, <4>1, <4>2, SMT DEF InOrder
    <3>2. ASSUME NEW v \in Users, row'[v] # NoRow', NEW g \in Reads, who'[g] = v, made'[g] > Shown(v)'
          PROVE  made'[g] >= row'[v].at
      <4>1. CASE v = u
        BY <1>0, <1>1, <1>4, <2>2, <3>2, <4>1, SMT
      <4>2. CASE v # u
        <5>1. row'[v] = row[v] /\ Shown(v)' = Shown(v) /\ row[v] # NoRow
          BY <1>2, <2>2, <3>2, <4>2 DEF NoRow
        <5> QED BY <1>0, <2>1, <3>2, <5>1 DEF InOrder
      <4> QED BY <4>1, <4>2
    <3> QED BY <3>1, <3>2 DEF InOrder
  <2> QED BY <2>4, <2>5
<1>10. NewestWins'
  BY <1>9 DEF NewestWins
<1> QED BY <1>5, <1>6, <1>7, <1>8, <1>9, <1>10 DEF IInv

LEMMA TakeAwayStep == ASSUME IInv, TakeAway PROVE IInv'
<1>0. /\ present' = FALSE /\ Upset
      /\ UNCHANGED <<clock, made, who, ping, outbox, tag, flush, me, jar, hint, row, filed, marked, refused, unsaved, crossed, muddled>>
  BY DEF TakeAway, device, account, server
<1>1. TypeOK'
  <2>1. upsets' \in 0 .. MaxUpsets
    BY <1>0, ReadsAssumption, SMT DEF IInv, TypeOK, Upset
  <2> QED BY <1>0, <2>1 DEF IInv, TypeOK
<1>2. Queued' /\ Answered' /\ OneAccount' /\ SignedOut' /\ NothingReadIsLost'
  BY <1>0 DEF IInv, Queued, Answered, OneAccount, SignedOut, NothingReadIsLost
<1>3. ASSUME ~crossed' PROVE Own'
  BY <1>0, <1>3 DEF IInv, Own, Pending, Failing
<1> QED BY <1>0, <1>1, <1>2, <1>3, Frame DEF IInv

LEMMA CloseTabStep == ASSUME IInv, CloseTab PROVE IInv'
<1>0. /\ unsaved' = unsaved \cup {e \in Reads : Pending(e)} /\ Upset
      /\ ping' = [e \in Reads |-> IF made[e] # 0 THEN "over" ELSE "none"]
      /\ flush' = [flush EXCEPT !["page"] = Rest]
      /\ UNCHANGED <<clock, made, who, outbox, tag, me, jar, hint, row, filed, marked, present, refused, crossed, muddled>>
  BY DEF CloseTab, Goes, account, server
<1>1. ping \in [Reads -> {"none", "sent", "unheard", "queueing", "over"}] /\ flush \in [Flushers -> FlushType]
  BY DEF IInv, TypeOK, FlushType
<1>2. TypeOK'
  <2>1. upsets' \in 0 .. MaxUpsets
    BY <1>0, ReadsAssumption, SMT DEF IInv, TypeOK, Upset
  <2>2. Rest \in FlushType
    BY DEF Rest, FlushType
  <2>3. flush' \in [Flushers -> FlushType] /\ ping' \in [Reads -> {"none", "sent", "unheard", "queueing", "over"}]
    BY <1>0, <1>1, <2>2
  <2>4. unsaved' \subseteq Reads
    BY <1>0 DEF IInv, TypeOK
  <2> QED BY <1>0, <2>1, <2>3, <2>4 DEF IInv, TypeOK, FlushType
<1>3. \A e \in Reads : /\ made[e] # 0 <=> ping[e] # "none"
                       /\ ping'[e] = (IF made[e] # 0 THEN "over" ELSE "none")
  BY <1>0 DEF IInv, Stamps
<1>4. Stamps'
  BY <1>0, <1>3, SMT DEF IInv, Stamps
<1>5. Queued' /\ Answered' /\ OneAccount' /\ SignedOut'
  BY <1>0, <1>1, SMT DEF IInv, Queued, Answered, OneAccount, SignedOut, Rest, Flushers
<1>6. NothingReadIsLost'
  <2> SUFFICES ASSUME NEW e \in Reads, ping'[e] = "over"
               PROVE  \/ e \in refused' \cup unsaved'
                      \/ e \in outbox' /\ tag'[e].user \in Users
                      \/ \E f \in filed' : f[2] = e
    BY DEF NothingReadIsLost
  <2>1. CASE Pending(e)
    BY <1>0, <2>1
  <2>2. CASE ~Pending(e)
    <3>1. ping[e] = "over"
      BY <1>1, <1>3, <2>2 DEF Pending, Failing
    <3> QED BY <1>0, <3>1 DEF IInv, NothingReadIsLost
  <2> QED BY <2>1, <2>2
<1>7. FiledAsItsReader'
  BY <1>0 DEF IInv, FiledAsItsReader
<1>8. ASSUME ~crossed' PROVE Own'
  <2>1. \A e \in Reads : ~Pending(e)'
    BY <1>3 DEF Pending, Failing
  <2> QED BY <1>0, <1>1, <1>8, <2>1, SMT DEF IInv, Own, Rest, Flushers
<1>9. NewestWins' /\ (~crossed' /\ ~muddled' => InOrder')
  BY <1>0, Zenon DEF IInv, NewestWins, InOrder, Shown, Filed, NoRow
<1> QED BY <1>2, <1>4, <1>5, <1>6, <1>7, <1>8, <1>9 DEF IInv

-----------------------------------------------------------------------------
(* The theorems *)

LEMMA NextIInv == IInv /\ [Next]_vars => IInv'
<1> SUFFICES ASSUME IInv, [Next]_vars PROVE IInv'
  OBVIOUS
<1>1. ASSUME NEW e \in Reads, Turn(e) \/ PingServed(e) \/ QueueProgress(e) \/ AddToOutbox(e) \/ AddFails(e)
      PROVE  IInv'
  BY <1>1, TurnStep, PingServedStep, QueueProgressStep, AddToOutboxStep
<1>2. ASSUME NEW f \in Flushers, FlushRead(f) \/ FlushSend(f) \/ FlushEnds(f) \/ FlushBreaks(f) PROVE IInv'
  BY <1>2, FlushReadStep, FlushSendStep, FlushEndsStep
<1>3. ASSUME NEW f \in Flushers, FlushServed(f) \/ ReplyLost(f) \/ FlushRejected(f) \/ FlushFails(f) \/ Settle(f)
      PROVE  IInv'
  BY <1>3, FlushServedStep, FailingStep, FlushRejectedStep, SettleStep
<1>4. ASSUME NEW u \in Users, SignIn(u) \/ MarkByHand(u) \/ \E e \in Reads : TurnElsewhere(u, e) PROVE IInv'
  BY <1>4, SignInStep, MarkByHandStep, TurnElsewhereStep
<1>5. ASSUME SignOut \/ TellWorker \/ TakeAway \/ CloseTab PROVE IInv'
  BY <1>5, SignOutStep, TellWorkerStep, TakeAwayStep, CloseTabStep
<1>6. CASE UNCHANGED vars
  <2>1. UNCHANGED <<clock, made, who, ping, outbox, tag, flush, me, jar, hint, row, filed, marked, present, upsets, refused, unsaved, crossed, muddled>>
    BY <1>6 DEF vars, device, account, server
  <2>2. TypeOK' /\ Queued' /\ Answered' /\ OneAccount' /\ SignedOut' /\ NothingReadIsLost'
    BY <2>1 DEF IInv, TypeOK, Queued, Answered, OneAccount, SignedOut, NothingReadIsLost
  <2>3. ASSUME ~crossed' PROVE Own'
    BY <2>1, <2>3 DEF IInv, Own, Pending, Failing
  <2> QED BY <2>1, <2>2, <2>3, Frame DEF IInv
<1> QED BY <1>1, <1>2, <1>3, <1>4, <1>5, <1>6 DEF Next

LEMMA Invariance == Spec => []IInv
<1> QED BY InitIInv, NextIInv, PTL DEF Spec

\* Every variable keeps its type.
THEOREM TypeCorrect == Spec => []TypeOK
<1>1. IInv => TypeOK
  BY DEF IInv
<1> QED BY Invariance, <1>1, PTL

\* What was read reaches the server or waits under an account that can send it
\* (queueProgress, flushOutbox and flushOutboxWith), whatever fails or is sent
\* twice, with any number of readings and mishaps.
THEOREM NothingIsLost == Spec => []NothingReadIsLost
<1>1. IInv => NothingReadIsLost
  BY DEF IInv
<1> QED BY Invariance, <1>1, PTL

\* With any number of accounts on one device, a reading is filed against its
\* reader unless the device changed hands beside a ping or a flush.
THEOREM FiledRight == Spec => []FiledAsItsReader
<1>1. IInv => FiledAsItsReader
  BY DEF IInv
<1> QED BY Invariance, <1>1, PTL

\* The newest event wins (writeProgress), in whatever order, and however often,
\* the pings, the replays of two flushers and other devices' readings arrive.
THEOREM NewestStays == Spec => []NewestWins
<1>1. IInv => NewestWins
  BY DEF IInv
<1> QED BY Invariance, <1>1, PTL
=============================================================================
