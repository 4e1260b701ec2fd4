--------------------------- MODULE TrackersProofs ---------------------------
(***************************************************************************)
(* For any series, any number of pushes and mishaps: the lane keeps its    *)
(* slot, the floor is never above what the service took, and silence means *)
(* that the service is up to date, but for what SilenceMeansSynced leaves  *)
(* out.                                                                    *)
(***************************************************************************)
EXTENDS Trackers, TLAPS

-----------------------------------------------------------------------------
(* The lane *)

Entries(l) == {l[i] : i \in DOMAIN l}
Distinct(l) == \A i, j \in DOMAIN l : l[i] = l[j] => i = j

\* A push that queues is last.
LEMMA Joined ==
    ASSUME NEW l \in Seq(Pushes), NEW x \in Pushes, Distinct(l), x \notin Entries(l)
    PROVE  /\ Append(l, x) \in Seq(Pushes)
           /\ Entries(Append(l, x)) = Entries(l) \cup {x}
           /\ Distinct(Append(l, x))
           /\ l # << >> => Head(Append(l, x)) = Head(l)
<1> DEFINE a == Append(l, x)
<1>1. /\ a \in Seq(Pushes) /\ Len(a) = Len(l) + 1 /\ Len(l) \in Nat
      /\ \A i \in 1 .. Len(l) : a[i] = l[i]
      /\ a[Len(l) + 1] = x
      /\ DOMAIN a = 1 .. Len(a) /\ DOMAIN l = 1 .. Len(l)
  OBVIOUS
<1> HIDE DEF a
<1>2. Entries(a) = Entries(l) \cup {x}
  BY <1>1 DEF Entries
<1>3. Distinct(a)
  BY <1>1 DEF Distinct, Entries
<1>4. l # << >> => Head(a) = Head(l)
  BY <1>1
<1> QED BY <1>1, <1>2, <1>3, <1>4 DEF a

\* The slot passes to the next in line.
LEMMA Left ==
    ASSUME NEW l \in Seq(Pushes), Distinct(l), l # << >>
    PROVE  /\ Tail(l) \in Seq(Pushes)
           /\ Entries(Tail(l)) = Entries(l) \ {Head(l)}
           /\ Distinct(Tail(l))
<1> DEFINE t == Tail(l)
<1>1. /\ t \in Seq(Pushes) /\ Len(t) = Len(l) - 1 /\ Len(l) \in Nat \ {0}
      /\ \A i \in 1 .. Len(t) : t[i] = l[i + 1]
      /\ DOMAIN t = 1 .. Len(t) /\ DOMAIN l = 1 .. Len(l)
      /\ Head(l) = l[1]
  OBVIOUS
<1> HIDE DEF t
<1>2. \A i \in DOMAIN l : i = 1 \/ (i - 1 \in DOMAIN t /\ t[i - 1] = l[i])
  BY <1>1
<1>3. \A i \in DOMAIN t : i + 1 \in DOMAIN l /\ t[i] = l[i + 1] /\ i + 1 # 1
  BY <1>1
<1>4. 1 \in DOMAIN l
  BY <1>1
<1>5. Entries(t) = Entries(l) \ {Head(l)}
  <2>1. ASSUME NEW y \in Entries(t) PROVE y \in Entries(l) \ {Head(l)}
    <3>1. PICK i \in DOMAIN t : y = t[i]
      BY DEF Entries
    <3>2. i + 1 \in DOMAIN l /\ y = l[i + 1] /\ i + 1 # 1
      BY <1>3, <3>1
    <3> QED BY <3>2, <1>1, <1>4 DEF Entries, Distinct
  <2>2. ASSUME NEW y \in Entries(l), y # Head(l) PROVE y \in Entries(t)
    <3>1. PICK i \in DOMAIN l : y = l[i]
      BY DEF Entries
    <3> QED BY <3>1, <2>2, <1>1, <1>2 DEF Entries
  <2> QED BY <2>1, <2>2
<1>6. Distinct(t)
  <2> SUFFICES ASSUME NEW i \in DOMAIN t, NEW j \in DOMAIN t, t[i] = t[j] PROVE i = j
    BY DEF Distinct
  <2>1. i + 1 \in DOMAIN l /\ j + 1 \in DOMAIN l /\ l[i + 1] = l[j + 1]
    BY <1>3
  <2>2. i + 1 = j + 1
    BY <2>1 DEF Distinct
  <2> QED BY <2>2, <1>1
<1> QED BY <1>1, <1>5, <1>6 DEF t

-----------------------------------------------------------------------------
(* The invariant *)

\* Only a connection that is there is switched on, or shows an error.
EnabledIsThere == conn.enabled \/ conn.error => conn.there

\* Until a series goes astray, a push of it is alone.
AloneOrAstray ==
    \A x, y \in Pushes : push[x].of = push[y].of /\ x # y /\ ~At(x, "idle") => astray[push[x].of]

\* And it carries what is completed, has told it once it was accepted, and
\* leaves with that told or with an error shown.
Carries == {"link", "floor", "lane", "sent", "accepted", "synced"}
CarriesWell(x) ==
    ~At(x, "idle") /\ ~astray[push[x].of] =>
        LET s == push[x].of IN
        /\ push[x].at \in Carries => reached[s] <= push[x].chapters
        /\ push[x].at \in {"accepted", "synced"} => reached[s] <= remote[s]
        /\ At(x, "leaving") => reached[s] <= remote[s] \/ conn.error \/ ~conn.enabled
CarriesAll == \A x \in Pushes : CarriesWell(x)

\* What is to become the floor was taken.
AcceptedIsTaken == \A x \in Pushes : push[x].at \in {"accepted", "synced"} => push[x].chapters <= taken[push[x].of]

Gated == TypeOK /\ LaneIsSound
Told == EnabledIsThere /\ AloneOrAstray /\ CarriesAll /\ SilenceMeansSynced
Heard == AcceptedIsTaken /\ FloorWasTaken
IInv == Gated /\ Told /\ Heard

PushType == [at : Stages, of : Series \cup {NoSeries}, chapters : Nat]

LEMMA InitIInv == Init => IInv
<1> SUFFICES ASSUME Init PROVE IInv
  OBVIOUS
<1>1. TypeOK
  <2>1. lane \in Seq(Pushes) /\ upsets \in 0 .. MaxUpsets
    BY TrackersAssumption DEF Init
  <2>2. conn \in [there : BOOLEAN, enabled : BOOLEAN, error : BOOLEAN]
    <3>1. NoConn \in [there : BOOLEAN, enabled : BOOLEAN, error : BOOLEAN]
      BY DEF NoConn
    <3>2. Connected \in [there : BOOLEAN, enabled : BOOLEAN, error : BOOLEAN]
      BY DEF Connected
    <3> QED BY <3>1, <3>2 DEF Init
  <2>3. linked \in [Series -> BOOLEAN] /\ astray \in [Series -> BOOLEAN]
    BY DEF Init
  <2> QED BY <2>1, <2>2, <2>3 DEF TypeOK, Init, Idle, At, Stages
<1>2. LaneIsSound /\ EnabledIsThere /\ AloneOrAstray /\ CarriesAll /\ AcceptedIsTaken /\ FloorWasTaken
  BY DEF Init, LaneIsSound, EnabledIsThere, AloneOrAstray, CarriesAll, CarriesWell, Carries, AcceptedIsTaken, FloorWasTaken,
     InGate, At, Idle, NoConn, Connected
<1>3. SilenceMeansSynced
  BY DEF Init, SilenceMeansSynced
<1> QED BY <1>1, <1>2, <1>3 DEF IInv, Gated, Told, Heard

-----------------------------------------------------------------------------
(* What a step of one push does to the lane *)

Only(x) == \A y \in Pushes \ {x} : push'[y] = push[y]

LEMMA LaneStays ==
    ASSUME LaneIsSound, NEW x \in Pushes, Only(x), lane' = lane,
           x \in InGate <=> x \in InGate',
           x \in InGate' => At(x, "lane")' \/ x = Head(lane)
    PROVE  LaneIsSound'
<1>1. InGate' = InGate
  BY DEF InGate, Only
<1>2. \A y \in InGate' : ~At(y, "lane")' => y = Head(lane')
  BY <1>1 DEF LaneIsSound, InGate, Only, At
<1> QED BY <1>1, <1>2 DEF LaneIsSound

LEMMA LaneIsJoined ==
    ASSUME LaneIsSound, lane \in Seq(Pushes), NEW x \in Pushes, Only(x), lane' = Append(lane, x),
           x \notin InGate, At(x, "lane")'
    PROVE  LaneIsSound' /\ lane' \in Seq(Pushes)
<1>1. InGate' = InGate \cup {x}
  BY DEF InGate, Only, At
<1>2. Entries(lane) = InGate /\ Distinct(lane)
  BY DEF LaneIsSound, Entries, Distinct
<1>3. /\ lane' \in Seq(Pushes) /\ Entries(lane') = InGate' /\ Distinct(lane')
      /\ lane # << >> => Head(lane') = Head(lane)
  BY <1>1, <1>2, Joined
<1>4. ASSUME NEW y \in InGate', ~At(y, "lane")'
      PROVE  y = Head(lane')
  <2>1. y \in InGate /\ y # x /\ push'[y] = push[y]
    BY <1>1, <1>4 DEF Only, InGate
  <2>2. y = Head(lane)
    BY <2>1, <1>4 DEF LaneIsSound, At
  <2>3. lane # << >>
    BY <2>1, <1>2 DEF Entries
  <2> QED BY <2>2, <2>3, <1>3
<1> QED BY <1>3, <1>4 DEF LaneIsSound, Entries, Distinct

LEMMA LaneIsLeft ==
    ASSUME LaneIsSound, lane \in Seq(Pushes), NEW x \in Pushes, Only(x), lane' = Tail(lane),
           x \in InGate, ~At(x, "lane"), x \notin InGate'
    PROVE  LaneIsSound' /\ lane' \in Seq(Pushes)
<1>1. InGate' = InGate \ {x}
  BY DEF InGate, Only
<1>2. Entries(lane) = InGate /\ Distinct(lane)
  BY DEF LaneIsSound, Entries, Distinct
<1>3. x = Head(lane) /\ lane # << >>
  BY <1>2 DEF LaneIsSound, Entries
<1>4. lane' \in Seq(Pushes) /\ Entries(lane') = InGate' /\ Distinct(lane')
  BY <1>1, <1>2, <1>3, Left
<1>5. \A y \in InGate' : At(y, "lane")'
  BY <1>1, <1>3 DEF LaneIsSound, InGate, Only, At
<1> QED BY <1>4, <1>5 DEF LaneIsSound, Entries, Distinct

-----------------------------------------------------------------------------
(* The steps *)

LEMMA GoesOn ==
    ASSUME TypeOK, NEW x \in Pushes, NEW p \in Stages, Goes(x, p)
    PROVE  /\ Only(x) /\ push' \in [Pushes -> PushType]
           /\ push'[x].at = p /\ push'[x].of = push[x].of /\ push'[x].chapters = push[x].chapters
  BY DEF TypeOK, Goes, Only, PushType

LEMMA IsOver ==
    ASSUME TypeOK, NEW x \in Pushes, Ends(x)
    PROVE  /\ Only(x) /\ push' \in [Pushes -> PushType]
           /\ push'[x] = Idle /\ push'[x].at = "idle" /\ push'[x].of = NoSeries
<1>1. Idle \in PushType /\ Idle.at = "idle" /\ Idle.of = NoSeries
  BY DEF Idle, PushType, Stages
<1> QED BY <1>1 DEF TypeOK, Ends, Only, PushType

\* The type invariant, from what a step of a push leaves of it.
LEMMA TypedStep ==
    ASSUME TypeOK, NEW x \in Pushes, Only(x), push' \in [Pushes -> PushType], ~At(x, "idle"),
           push'[x] = Idle \/ (push'[x].of = push[x].of /\ push'[x].at # "idle"),
           floor' \in [Series -> Nat], remote' \in [Series -> Nat], taken' \in [Series -> Nat],
           conn' \in [there : BOOLEAN, enabled : BOOLEAN, error : BOOLEAN],
           astray' \in [Series -> BOOLEAN], upsets' \in 0 .. MaxUpsets, lane' \in Seq(Pushes),
           UNCHANGED <<reached, linked>>
    PROVE  TypeOK'
<1>1. ASSUME NEW y \in Pushes
      PROVE  At(y, "idle")' <=> push'[y].of = NoSeries
  <2>1. (push[y].at = "idle" <=> push[y].of = NoSeries) /\ push[x].of # NoSeries
    BY DEF TypeOK, At
  <2>2. CASE y = x
    BY <2>1, <2>2 DEF At, Idle
  <2>3. CASE y # x
    BY <2>1, <2>3 DEF At, Only
  <2> QED BY <2>2, <2>3
<1> QED BY <1>1 DEF TypeOK, PushType

\* What the person is told, or not.
LEMMA Marked ==
    ASSUME TypeOK, EnabledIsThere, NEW x \in Pushes, NEW s \in Series, s = push[x].of,
           MarkError(x) \/ (Unseen(x) /\ UNCHANGED conn)
    PROVE  /\ astray' \in [Series -> BOOLEAN] /\ upsets' \in 0 .. MaxUpsets
           /\ \A t \in Series : astray[t] => astray'[t]
           /\ conn' \in [there : BOOLEAN, enabled : BOOLEAN, error : BOOLEAN]
           /\ conn'.enabled = conn.enabled /\ conn'.there = conn.there /\ (conn.error => conn'.error) /\ EnabledIsThere'
           /\ astray'[s] \/ conn'.error \/ ~conn'.enabled
<1>1. CASE Unseen(x) /\ UNCHANGED conn
  <2>1. upsets' \in 0 .. MaxUpsets
    BY <1>1, TrackersAssumption DEF Unseen, Upset, TypeOK
  <2>2. astray' \in [Series -> BOOLEAN] /\ astray'[s] /\ \A t \in Series : astray[t] => astray'[t]
    BY <1>1 DEF Unseen, TypeOK
  <2> QED BY <1>1, <2>1, <2>2 DEF TypeOK, EnabledIsThere
<1>2. CASE conn' = [conn EXCEPT !.error = conn.there] /\ UNCHANGED <<upsets, astray>>
  BY <1>2 DEF TypeOK, EnabledIsThere
<1> QED BY <1>1, <1>2 DEF MarkError

\* Started, by whatever changes the rows of its series.
LEMMA StartedStep ==
    ASSUME IInv, NEW x \in Pushes, NEW s \in Series, Started(x, s),
           UNCHANGED <<linked, conn, remote, taken, lane, upsets>>,
           reached' \in [Series -> Nat], floor' \in [Series -> Nat],
           \A t \in Series \ {s} : reached'[t] = reached[t],
           \A t \in Series : floor'[t] <= floor[t]
    PROVE  IInv'
<1>1. /\ Only(x) /\ At(x, "idle") /\ At(x, "conn")' /\ push'[x] = [at |-> "conn", of |-> s, chapters |-> 0]
      /\ s # NoSeries /\ push[x].of = NoSeries
  BY TrackersAssumption DEF Started, Only, IInv, Gated, TypeOK, At
<1>0. \A y \in Pushes : (push[y].at = "idle" <=> push[y].of = NoSeries) /\ push[y].of \in Series \cup {NoSeries}
  BY DEF IInv, Gated, TypeOK, At
<1>2. TypeOK'
  <2>1. astray' \in [Series -> BOOLEAN] /\ linked' \in [Series -> BOOLEAN]
    BY DEF Started, IInv, Gated, TypeOK
  <2>2. push' \in [Pushes -> PushType]
    BY DEF Started, IInv, Gated, TypeOK, PushType, Stages
  <2>3. \A y \in Pushes : At(y, "idle")' <=> push'[y].of = NoSeries
    BY <1>0, <1>1 DEF At, Only
  <2> QED BY <2>1, <2>2, <2>3 DEF IInv, Gated, TypeOK, PushType
<1>3. LaneIsSound'
  BY <1>1, LaneStays DEF IInv, Gated, InGate, At
<1>4. \A t \in Series : t # s => astray'[t] = astray[t]
  BY DEF Started, IInv, Gated, TypeOK
<1>5. astray'[s] <=> \E y \in Pushes : push[y].of = s
  BY DEF Started, IInv, Gated, TypeOK, UnderWay
<1>6. EnabledIsThere' /\ AloneOrAstray'
  <2>1. EnabledIsThere'
    BY DEF IInv, Told, EnabledIsThere
  <2>2. ASSUME NEW y \in Pushes, NEW z \in Pushes, push'[y].of = push'[z].of, y # z, push'[y].at # "idle"
        PROVE  astray'[push'[y].of]
    <3>1. CASE push'[y].of = s
      <4>1. \E w \in Pushes : push[w].of = s
        BY <1>1, <2>2, <3>1 DEF Only
      <4> QED BY <3>1, <4>1, <1>5
    <3>2. CASE push'[y].of # s
      <4>1. y # x /\ z # x /\ push[y] = push'[y] /\ push[z] = push'[z]
        BY <1>1, <2>2, <3>2 DEF Only
      <4>2. push[y].of \in Series
        BY <1>0, <2>2, <4>1
      <4> QED BY <4>1, <4>2, <2>2, <3>2, <1>4 DEF IInv, Told, AloneOrAstray, At
    <3> QED BY <3>1, <3>2
  <2> QED BY <2>1, <2>2 DEF AloneOrAstray, At
<1>7. CarriesAll'
  <2>1. ASSUME NEW y \in Pushes, y # x, ~At(y, "idle"), ~astray'[push[y].of]
        PROVE  push[y].of # s /\ push[y].of \in Series /\ ~astray[push[y].of]
    BY <2>1, <1>0, <1>4, <1>5 DEF At
  <2> QED BY <2>1, <1>1 DEF IInv, Told, CarriesAll, CarriesWell, Carries, Only, At
<1>8. SilenceMeansSynced'
  <2> SUFFICES ASSUME NEW t \in Series, UnderWay(t)' = {}, linked'[t], conn'.enabled, ~conn'.error, ~astray'[t]
               PROVE  remote'[t] >= reached'[t]
    BY DEF SilenceMeansSynced
  <2>1. t # s
    BY <1>1 DEF UnderWay
  <2>2. UnderWay(t) = {}
    BY <1>1, <2>1, TrackersAssumption DEF UnderWay, Only
  <2> QED BY <2>1, <2>2, <1>4 DEF IInv, Told, SilenceMeansSynced
<1>9. Heard'
  <2>1. AcceptedIsTaken'
    BY <1>1 DEF IInv, Heard, AcceptedIsTaken, Only, At
  <2>2. FloorWasTaken'
    <3>1. \A t \in Series : floor'[t] <= floor[t] /\ floor[t] <= taken[t] /\ floor[t] \in Nat /\ floor'[t] \in Nat
                           /\ taken[t] \in Nat /\ taken'[t] = taken[t]
      BY DEF IInv, Gated, TypeOK, Heard, FloorWasTaken
    <3> QED BY <3>1 DEF FloorWasTaken
  <2> QED BY <2>1, <2>2 DEF Heard
<1> QED BY <1>2, <1>3, <1>6, <1>7, <1>8, <1>9 DEF IInv, Gated, Told

LEMMA StartStep ==
    ASSUME IInv, NEW x \in Pushes, NEW s \in Series,
           Backfill(x, s) \/ Resync(x, s) \/ \E n \in Numbers(s) \ {0} : Complete(x, s, n)
    PROVE  IInv'
<1>1. Started(x, s) /\ UNCHANGED <<linked, conn, remote, taken, lane, upsets>>
  BY DEF Complete, Backfill, Resync, person, service
<1>2. /\ reached' \in [Series -> Nat] /\ floor' \in [Series -> Nat]
      /\ \A t \in Series \ {s} : reached'[t] = reached[t]
      /\ \A t \in Series : floor'[t] <= floor[t]
  <2>1. CASE Backfill(x, s)
    BY <2>1 DEF Backfill, person, IInv, Gated, TypeOK
  <2>2. CASE Resync(x, s)
    BY <2>2 DEF Resync, person, IInv, Gated, TypeOK
  <2>3. ASSUME NEW n \in Numbers(s), Complete(x, s, n)
        PROVE  /\ reached' \in [Series -> Nat] /\ floor' = floor
               /\ \A t \in Series \ {s} : reached'[t] = reached[t]
    BY <2>3, TrackersAssumption DEF Complete, IInv, Gated, TypeOK, Numbers, Larger
  <2> QED BY <2>1, <2>2, <2>3 DEF IInv, Gated, TypeOK
<1> QED BY <1>1, <1>2, StartedStep

\* SilenceMeansSynced, for one series.
InSync(s) ==
    UnderWay(s) = {} /\ linked[s] /\ conn.enabled /\ ~conn.error /\ ~astray[s] => remote[s] >= reached[s]

\* What a step of one push leaves to the other pushes and the other series.
LEMMA OthersKeep ==
    ASSUME IInv, NEW x \in Pushes, NEW s \in Series, s = push[x].of, Only(x), ~At(x, "idle"), UNCHANGED <<reached, linked>>,
           push'[x] = Idle \/ (push'[x].of = s /\ push'[x].at # "idle"),
           \A t \in Series : astray[t] => astray'[t],
           \A t \in Series \ {s} : remote'[t] = remote[t],
           conn'.enabled => conn.enabled,
           conn.error /\ ~conn'.error => \A t \in Series \ {s} : astray'[t],
           CarriesWell(x)', InSync(s)'
    PROVE  AloneOrAstray' /\ CarriesAll' /\ SilenceMeansSynced'
<1>0. /\ \A y \in Pushes : (push[y].at = "idle" <=> push[y].of = NoSeries) /\ push[y].of \in Series \cup {NoSeries}
      /\ push[x].of \in Series /\ push[x].of # NoSeries
  BY TrackersAssumption DEF IInv, Gated, TypeOK, At
<1>1. \A y \in Pushes : push'[y].of = push[y].of \/ (y = x /\ push'[x].of = NoSeries /\ push'[x].at = "idle")
  BY DEF Only, Idle
<1>2. AloneOrAstray'
  <2> SUFFICES ASSUME NEW y \in Pushes, NEW z \in Pushes, push'[y].of = push'[z].of, y # z, push'[y].at # "idle"
               PROVE  astray'[push'[y].of]
    BY DEF AloneOrAstray, At
  <2>1. push'[y].of = push[y].of /\ push[y].at # "idle" /\ push[y].of \in Series
    BY <1>0, <1>1 DEF Only, At
  <2>2. push[z].of = push[y].of
    BY <2>1, <1>0, <1>1
  <2> QED BY <2>1, <2>2 DEF IInv, Told, AloneOrAstray, At
<1>3. CarriesAll'
  <2> SUFFICES ASSUME NEW y \in Pushes, y # x PROVE CarriesWell(y)'
    BY DEF CarriesAll
  <2> SUFFICES ASSUME push[y].at # "idle", ~astray'[push[y].of] PROVE CarriesWell(y)'
    BY DEF CarriesWell, Only, At
  <2>1. push'[y] = push[y] /\ push[y].of \in Series /\ ~astray[push[y].of]
    BY <1>0 DEF Only
  <2>2. push[y].of # push[x].of
    BY <2>1, <1>0 DEF IInv, Told, AloneOrAstray, At
  <2>3. remote'[push[y].of] = remote[push[y].of] /\ (conn.error => conn'.error)
    BY <2>1, <2>2
  <2>4. CarriesWell(y)
    BY DEF IInv, Told, CarriesAll
  <2> QED BY <2>1, <2>3, <2>4 DEF CarriesWell, At
<1>4. SilenceMeansSynced'
  <2> SUFFICES ASSUME NEW t \in Series, t # s PROVE InSync(t)'
    BY DEF SilenceMeansSynced, InSync
  <2>1. UnderWay(t)' = UnderWay(t)
    BY <1>0, <1>1, TrackersAssumption DEF UnderWay
  <2>2. InSync(t)
    BY DEF IInv, Told, SilenceMeansSynced, InSync
  <2> QED BY <2>1, <2>2 DEF InSync
<1> QED BY <1>2, <1>3, <1>4

LEMMA BeforeTheGate ==
    ASSUME IInv, NEW x \in Pushes, ReadConn(x) \/ ReadProgress(x) \/ ReadLink(x) \/ ReadFails(x) \/ Refuse(x)
    PROVE  IInv'
<1> DEFINE Acts == ReadConn(x) \/ ReadProgress(x) \/ ReadLink(x) \/ ReadFails(x) \/ Refuse(x)
<1>a. Acts
  OBVIOUS
<1> PICK s \in Series : s = push[x].of
  BY <1>a DEF ReadConn, ReadProgress, ReadLink, ReadFails, Refuse, IInv, Gated, TypeOK, At
<1>0. /\ s # NoSeries /\ push[x].chapters \in Nat /\ ~At(x, "idle")
      /\ push[x].at \in {"conn", "progress", "link", "floor", "refused"}
      /\ TypeOK /\ EnabledIsThere
  BY <1>a, TrackersAssumption DEF ReadConn, ReadProgress, ReadLink, ReadFails, Refuse, IInv, Gated, Told, TypeOK, At
<1>1. /\ Only(x) /\ lane' = lane /\ UNCHANGED <<reached, linked, floor, remote, taken>>
      /\ push' \in [Pushes -> PushType]
      /\ \/ push'[x] = Idle
         \/ push'[x].of = s /\ push'[x].at \in {"progress", "link", "floor", "refused"}
  <2>1. CASE ReadConn(x)
    BY <1>0, <2>1, GoesOn, IsOver DEF ReadConn, person, service, Stages
  <2>2. CASE ReadProgress(x)
    <3>1. CASE reached[s] = 0
      BY <1>0, <2>2, <3>1, IsOver DEF ReadProgress, person, service
    <3>2. CASE reached[s] # 0
      <4>1. push' = [push EXCEPT ![x].at = "link", ![x].chapters = reached[s]]
        BY <2>2, <3>2, Zenon DEF ReadProgress
      <4>2. reached[s] \in Nat
        BY <1>0 DEF TypeOK
      <4> QED BY <1>0, <2>2, <4>1, <4>2 DEF ReadProgress, person, service, Only, TypeOK, PushType, Stages
    <3> QED BY <3>1, <3>2
  <2>3. CASE ReadLink(x)
    BY <1>0, <2>3, GoesOn, IsOver DEF ReadLink, person, service, Stages
  <2>4. CASE ReadFails(x) \/ Refuse(x)
    BY <1>0, <2>4, IsOver DEF ReadFails, Refuse, person, service
  <2> QED BY <1>a, <2>1, <2>2, <2>3, <2>4
<1>2. /\ astray' \in [Series -> BOOLEAN] /\ upsets' \in 0 .. MaxUpsets
      /\ \A t \in Series : astray[t] => astray'[t]
      /\ conn' \in [there : BOOLEAN, enabled : BOOLEAN, error : BOOLEAN]
      /\ conn'.enabled = conn.enabled /\ conn'.there = conn.there /\ (conn.error => conn'.error) /\ EnabledIsThere'
      /\ ReadFails(x) \/ Refuse(x) => astray'[s] \/ conn'.error \/ ~conn'.enabled
  <2>1. CASE ReadFails(x) \/ Refuse(x)
    BY <1>0, <2>1, Marked DEF ReadFails, Refuse
  <2>2. CASE ~(ReadFails(x) \/ Refuse(x))
    BY <1>a, <1>0, <2>2 DEF ReadConn, ReadProgress, ReadLink, TypeOK, EnabledIsThere
  <2> QED BY <2>1, <2>2
<1>3. TypeOK'
  BY <1>0, <1>1, <1>2, TypedStep DEF TypeOK
<1>4. LaneIsSound'
  BY <1>0, <1>1, LaneStays DEF IInv, Gated, InGate, Idle
<1>5. EnabledIsThere'
  BY <1>2
<1>6. CarriesWell(x)'
  <2>1. CarriesWell(x)
    BY DEF IInv, Told, CarriesAll
  <2>2. CASE ReadProgress(x)
    <3>1. push'[x] = Idle \/ (push'[x].at = "link" /\ push'[x].of = s /\ push'[x].chapters = reached[s])
      BY <2>2 DEF ReadProgress, Ends, IInv, Gated, TypeOK
    <3>2. reached'[s] = reached[s] /\ reached[s] \in Nat
      BY <1>1 DEF IInv, Gated, TypeOK
    <3> QED BY <3>1, <3>2 DEF CarriesWell, At, Idle
  <2>3. CASE ReadLink(x)
    <3>1. /\ push'[x] = Idle \/ (push'[x].of = s /\ push'[x].chapters = push[x].chapters /\ push'[x].at \in {"refused", "floor"})
          /\ At(x, "link")
      BY <2>3 DEF ReadLink, Goes, Ends, IInv, Gated, TypeOK
    <3> QED BY <1>1, <1>2, <2>1, <3>1 DEF CarriesWell, Carries, At, Idle
  <2>4. CASE ReadConn(x) \/ ReadFails(x) \/ Refuse(x)
    <3>1. push'[x] = Idle \/ push'[x].at = "progress"
      BY <2>4 DEF ReadConn, ReadFails, Refuse, Goes, Ends, IInv, Gated, TypeOK
    <3> QED BY <3>1 DEF CarriesWell, Carries, At, Idle
  <2> QED BY <1>a, <2>2, <2>3, <2>4
<1>7. InSync(s)'
  <2>1. CASE push'[x] # Idle
    BY <1>1, <2>1 DEF InSync, UnderWay
  <2>2. CASE push'[x] = Idle
    <3>1. CASE ReadConn(x)
      BY <2>2, <3>1 DEF ReadConn, Goes, InSync, IInv, Gated, TypeOK, Idle
    <3>2. CASE ReadProgress(x)
      <4>1. reached[s] = 0
        BY <2>2, <3>2 DEF ReadProgress, IInv, Gated, TypeOK, Idle
      <4> QED BY <1>1, <4>1 DEF InSync, IInv, Gated, TypeOK
    <3>3. CASE ReadLink(x)
      <4>1. ~linked[s]
        BY <2>2, <3>3 DEF ReadLink, Goes, IInv, Gated, TypeOK, Idle
      <4> QED BY <1>1, <4>1 DEF InSync
    <3>4. CASE ReadFails(x) \/ Refuse(x)
      BY <1>2, <3>4 DEF InSync
    <3> QED BY <1>a, <3>1, <3>2, <3>3, <3>4
  <2> QED BY <2>1, <2>2
<1>8. AloneOrAstray' /\ CarriesAll' /\ SilenceMeansSynced'
  <2>1. push'[x] = Idle \/ (push'[x].of = s /\ push'[x].at # "idle")
    BY <1>1
  <2>2. UNCHANGED <<reached, linked, remote>>
    BY <1>1
  <2> HIDE DEF Acts
  <2> QED BY <1>0, <1>1, <1>2, <1>6, <1>7, <2>1, <2>2, OthersKeep
<1>9. Heard'
  BY <1>1 DEF IInv, Heard, AcceptedIsTaken, FloorWasTaken, Only, Idle
<1> QED BY <1>3, <1>4, <1>5, <1>8, <1>9 DEF IInv, Gated, Told

LEMMA EnterGate == ASSUME IInv, NEW x \in Pushes, ReadFloor(x) PROVE IInv'
<1> PICK s \in Series : s = push[x].of
  BY DEF ReadFloor, IInv, Gated, TypeOK, At
<1>0. /\ s # NoSeries /\ At(x, "floor") /\ ~At(x, "idle") /\ TypeOK /\ LaneIsSound /\ lane \in Seq(Pushes)
      /\ UNCHANGED <<reached, linked, conn, floor, remote, taken, upsets, astray>>
  BY TrackersAssumption DEF ReadFloor, person, service, IInv, Gated, TypeOK, At
<1>1. \/ Goes(x, "refused") /\ lane' = lane
      \/ Goes(x, "lane") /\ lane' = Append(lane, x)
  BY DEF ReadFloor
<1>2. /\ Only(x) /\ push' \in [Pushes -> PushType] /\ push'[x].of = s /\ push'[x].chapters = push[x].chapters
      /\ push'[x].at \in {"refused", "lane"}
  BY <1>0, <1>1, GoesOn DEF Stages
<1>3. LaneIsSound' /\ lane' \in Seq(Pushes)
  <2>1. CASE Goes(x, "refused") /\ lane' = lane
    <3>1. push'[x].at = "refused"
      BY <1>0, <2>1, GoesOn DEF Stages
    <3> QED BY <1>0, <1>2, <2>1, <3>1, LaneStays DEF InGate, At
  <2>2. CASE Goes(x, "lane") /\ lane' = Append(lane, x)
    <3>1. push'[x].at = "lane"
      BY <1>0, <2>2, GoesOn DEF Stages
    <3> QED BY <1>0, <1>2, <2>2, <3>1, LaneIsJoined DEF InGate, At
  <2> QED BY <1>1, <2>1, <2>2
<1>4. TypeOK'
  BY <1>0, <1>2, <1>3, TypedStep DEF TypeOK
<1>5. CarriesWell(x)' /\ InSync(s)'
  <2>1. CarriesWell(x)
    BY DEF IInv, Told, CarriesAll
  <2> QED BY <1>0, <1>2, <2>1 DEF CarriesWell, Carries, InSync, UnderWay, At
<1>6. AloneOrAstray' /\ CarriesAll' /\ SilenceMeansSynced'
  BY <1>0, <1>2, <1>5, OthersKeep
<1>7. EnabledIsThere' /\ Heard'
  BY <1>0, <1>2 DEF IInv, Told, EnabledIsThere, Heard, AcceptedIsTaken, FloorWasTaken, Only
<1> QED BY <1>3, <1>4, <1>6, <1>7 DEF IInv, Gated, Told

LEMMA InTheGate ==
    ASSUME IInv, NEW x \in Pushes,
           \/ Send(x) \/ Accept(x) \/ Reject(x) \/ TimeOut(x) \/ Synced(x) \/ RaiseFloor(x)
           \/ StoreFails(x) \/ Fail(x) \/ Disable(x)
    PROVE  IInv'
<1> DEFINE Early == Send(x) \/ Accept(x) \/ Reject(x) \/ TimeOut(x)
           Late == Synced(x) \/ RaiseFloor(x) \/ StoreFails(x) \/ Fail(x) \/ Disable(x)
<1>a. Early \/ Late
  OBVIOUS
<1> PICK s \in Series : s = push[x].of
  BY <1>a DEF Send, Accept, Reject, TimeOut, Synced, RaiseFloor, StoreFails, Fail, Disable, IInv, Gated, TypeOK, At
<1>0. /\ s # NoSeries /\ push[x].chapters \in Nat /\ ~At(x, "idle") /\ x \in InGate
      /\ TypeOK /\ EnabledIsThere /\ LaneIsSound
  BY <1>a, TrackersAssumption DEF Send, Accept, Reject, TimeOut, Synced, RaiseFloor, StoreFails, Fail, Disable, InGate,
     IInv, Gated, Told, TypeOK, At
<1>1. \E p \in {"sent", "accepted", "synced", "rejected", "failed", "leaving"} :
        /\ Goes(x, p)
        /\ p = "sent" => Send(x)
        /\ p = "accepted" => Accept(x)
        /\ p = "synced" => Synced(x)
        /\ p = "leaving" => RaiseFloor(x) \/ Fail(x) \/ Disable(x)
  BY <1>a DEF Send, Accept, Reject, TimeOut, Synced, RaiseFloor, StoreFails, Fail, Disable
<1>2. /\ Only(x) /\ push' \in [Pushes -> PushType] /\ push'[x].of = s /\ push'[x].chapters = push[x].chapters
      /\ push'[x].at \in {"sent", "accepted", "synced", "rejected", "failed", "leaving"}
      /\ push'[x].at = "sent" => Send(x)
      /\ push'[x].at = "accepted" => Accept(x)
      /\ push'[x].at = "synced" => Synced(x)
      /\ push'[x].at = "leaving" => RaiseFloor(x) \/ Fail(x) \/ Disable(x)
  BY <1>0, <1>1, GoesOn DEF Stages
<1>3. UNCHANGED <<reached, linked, lane>>
  BY <1>a DEF Send, Accept, Reject, TimeOut, Synced, RaiseFloor, StoreFails, Fail, Disable, person
<1>4. LaneIsSound'
  <2>1. x = Head(lane)
    BY <1>a, <1>0 DEF Send, Accept, Reject, TimeOut, Synced, RaiseFloor, StoreFails, Fail, Disable, LaneIsSound, At
  <2> QED BY <1>0, <1>2, <1>3, <2>1, LaneStays DEF InGate
\* The rows.
<1>5. /\ floor' \in [Series -> Nat] /\ \A t \in Series : floor'[t] <= taken[t]
      /\ taken' \in [Series -> Nat] /\ \A t \in Series : taken[t] <= taken'[t]
  <2>1. CASE RaiseFloor(x)
    <3>1. push[x].chapters <= taken[s]
      BY <2>1 DEF RaiseFloor, At, IInv, Heard, AcceptedIsTaken
    <3> QED BY <1>0, <2>1, <3>1 DEF RaiseFloor, service, Larger, TypeOK, IInv, Heard, FloorWasTaken
  <2>2. CASE Accept(x)
    BY <1>0, <2>2 DEF Accept, Larger, TypeOK, IInv, Heard, FloorWasTaken
  <2>3. CASE ~RaiseFloor(x) /\ ~Accept(x)
    <3>1. UNCHANGED <<floor, taken>>
      BY <1>a, <2>3 DEF Send, Reject, TimeOut, Synced, StoreFails, Fail, Disable, service
    <3> QED BY <1>0, <3>1 DEF TypeOK, IInv, Heard, FloorWasTaken
  <2> QED BY <2>1, <2>2, <2>3
<1>6. /\ remote' \in [Series -> Nat] /\ \A t \in Series \ {s} : remote'[t] = remote[t]
      /\ IF Accept(x) THEN remote'[s] = push[x].chapters /\ push[x].chapters <= taken'[s] ELSE remote' = remote
  <2>1. CASE Accept(x)
    BY <1>0, <2>1 DEF Accept, Larger, TypeOK
  <2>2. CASE ~Accept(x)
    BY <1>a, <1>0, <2>2 DEF Send, Reject, TimeOut, Synced, RaiseFloor, StoreFails, Fail, Disable, service, TypeOK
  <2> QED BY <2>1, <2>2
\* The connection, and what is left unsaid of it.
<1>7. /\ astray' \in [Series -> BOOLEAN] /\ upsets' \in 0 .. MaxUpsets
      /\ \A t \in Series : astray[t] => astray'[t]
      /\ conn' \in [there : BOOLEAN, enabled : BOOLEAN, error : BOOLEAN]
      /\ conn'.enabled => conn.enabled
      /\ EnabledIsThere'
      /\ conn.error /\ ~conn'.error => \A t \in Series \ {s} : astray'[t]
      /\ Fail(x) \/ Disable(x) => astray'[s] \/ conn'.error \/ ~conn'.enabled
  <2>1. CASE Fail(x)
    BY <1>0, <2>1, Marked DEF Fail
  <2>2. CASE Disable(x)
    <3>1. CASE Unseen(x) /\ UNCHANGED conn
      BY <1>0, <3>1, Marked
    <3>2. CASE conn' = [conn EXCEPT !.enabled = FALSE, !.error = conn.there] /\ UNCHANGED <<upsets, astray>>
      BY <1>0, <3>2 DEF TypeOK, EnabledIsThere
    <3> QED BY <2>2, <3>1, <3>2 DEF Disable
  <2>3. CASE Synced(x)
    <3>1. conn' = [conn EXCEPT !.error = FALSE] /\ upsets' = upsets
      BY <2>3 DEF Synced
    <3>2. astray' = [t \in Series |-> astray[t] \/ (conn.error /\ t # s)]
      BY <2>3 DEF Synced
    <3>3. astray' \in [Series -> BOOLEAN] /\ (\A t \in Series : astray[t] => astray'[t])
      BY <1>0, <3>2 DEF TypeOK
    <3>4. conn.error => \A t \in Series \ {s} : astray'[t]
      BY <3>2
    <3>5. /\ conn' \in [there : BOOLEAN, enabled : BOOLEAN, error : BOOLEAN]
          /\ conn'.enabled = conn.enabled /\ conn'.there = conn.there /\ ~conn'.error
      BY <1>0, <3>1 DEF TypeOK
    <3>6. ~Fail(x) /\ ~Disable(x)
      BY <2>3 DEF Synced, Fail, Disable, At
    <3> QED BY <1>0, <3>1, <3>3, <3>4, <3>5, <3>6 DEF TypeOK, EnabledIsThere
  <2>4. CASE ~Fail(x) /\ ~Disable(x) /\ ~Synced(x)
    <3>1. UNCHANGED <<conn, astray>> /\ (UNCHANGED upsets \/ Upset)
      BY <1>a, <2>4 DEF Send, Accept, Reject, TimeOut, RaiseFloor, StoreFails
    <3> QED BY <1>0, <2>4, <3>1, TrackersAssumption DEF TypeOK, EnabledIsThere, Upset
  <2> QED BY <2>1, <2>2, <2>3, <2>4
<1>8. TypeOK'
  BY <1>0, <1>2, <1>3, <1>5, <1>6, <1>7, TypedStep DEF TypeOK
<1>9. CarriesWell(x)'
  <2>1. CarriesWell(x) /\ reached[s] \in Nat
    BY <1>0 DEF IInv, Told, CarriesAll, TypeOK
  <2> SUFFICES ASSUME ~astray'[s] PROVE CarriesWell(x)'
    BY <1>2 DEF CarriesWell
  <2>2. ~astray[s]
    BY <1>7
  <2>3. push'[x].at \in Carries => reached[s] <= push[x].chapters
    <3>1. push'[x].at \in Carries => push[x].at \in Carries
      BY <1>2 DEF Send, Accept, Synced, Carries, At
    <3> QED BY <1>0, <2>1, <2>2, <3>1 DEF CarriesWell
  <2>4. push'[x].at = "accepted" => reached[s] <= remote'[s]
    BY <1>2, <1>6, <2>3 DEF Carries
  <2>5. push'[x].at = "synced" => reached[s] <= remote'[s]
    BY <1>0, <1>2, <1>6, <2>1, <2>2 DEF Synced, Accept, CarriesWell, At
  <2>6. push'[x].at = "leaving" => reached[s] <= remote'[s] \/ conn'.error \/ ~conn'.enabled
    <3>1. CASE RaiseFloor(x)
      BY <1>0, <1>6, <2>1, <2>2, <3>1 DEF RaiseFloor, Accept, CarriesWell, At
    <3>2. CASE Fail(x) \/ Disable(x)
      BY <1>7, <3>2
    <3> QED BY <1>2, <3>1, <3>2
  <2> QED BY <1>2, <1>3, <2>3, <2>4, <2>5, <2>6 DEF CarriesWell, At
<1>10. AloneOrAstray' /\ CarriesAll' /\ SilenceMeansSynced'
  <2>1. InSync(s)'
    BY <1>2 DEF InSync, UnderWay
  <2>2. push'[x].at # "idle"
    BY <1>2
  <2> HIDE DEF Early, Late
  <2> QED BY <1>0, <1>2, <1>3, <1>6, <1>7, <1>9, <2>1, <2>2, OthersKeep
<1>11. Heard'
  <2>1. FloorWasTaken'
    <3>1. \A t \in Series : floor'[t] \in Nat /\ taken[t] \in Nat /\ taken'[t] \in Nat
      BY <1>0, <1>5 DEF TypeOK
    <3> QED BY <1>5, <3>1 DEF FloorWasTaken
  <2>2. ASSUME NEW y \in Pushes, push'[y].at \in {"accepted", "synced"}
        PROVE  push'[y].chapters <= taken'[push'[y].of]
    <3>1. CASE y = x
      <4>1. CASE Accept(x)
        BY <1>2, <1>6, <3>1, <4>1
      <4>2. CASE Synced(x)
        <5>1. push[x].chapters <= taken[s] /\ taken[s] \in Nat /\ taken'[s] \in Nat /\ taken[s] <= taken'[s]
          BY <1>0, <1>5, <4>2 DEF Synced, At, IInv, Heard, AcceptedIsTaken, TypeOK
        <5> QED BY <1>0, <1>2, <3>1, <5>1
      <4> QED BY <1>2, <2>2, <3>1, <4>1, <4>2
    <3>2. CASE y # x
      <4>1. push'[y] = push[y] /\ push[y].of \in Series /\ push[y].chapters \in Nat
        BY <1>0, <1>2, <2>2, <3>2 DEF Only, TypeOK, At
      <4>2. push[y].chapters <= taken[push[y].of]
        BY <2>2, <4>1 DEF IInv, Heard, AcceptedIsTaken
      <4>3. taken[push[y].of] \in Nat /\ taken'[push[y].of] \in Nat /\ taken[push[y].of] <= taken'[push[y].of]
        BY <1>0, <1>5, <4>1 DEF TypeOK
      <4> QED BY <4>1, <4>2, <4>3
    <3> QED BY <3>1, <3>2
  <2> QED BY <2>1, <2>2 DEF Heard, AcceptedIsTaken
<1> QED BY <1>4, <1>7, <1>8, <1>10, <1>11 DEF IInv, Gated, Told

LEMMA LeaveStep == ASSUME IInv, NEW x \in Pushes, Leave(x) PROVE IInv'
<1> PICK s \in Series : s = push[x].of
  BY DEF Leave, IInv, Gated, TypeOK, At
<1>0. /\ s # NoSeries /\ At(x, "leaving") /\ ~At(x, "idle") /\ TypeOK /\ LaneIsSound /\ lane \in Seq(Pushes)
      /\ x \in InGate /\ lane' = Tail(lane) /\ Ends(x)
      /\ UNCHANGED <<reached, linked, conn, floor, remote, taken, upsets, astray>>
  BY TrackersAssumption DEF Leave, InGate, person, service, IInv, Gated, TypeOK, At
<1>1. Only(x) /\ push' \in [Pushes -> PushType] /\ push'[x] = Idle /\ push'[x].at = "idle"
  BY <1>0, IsOver
<1>2. LaneIsSound' /\ lane' \in Seq(Pushes)
  BY <1>0, <1>1, LaneIsLeft DEF InGate, At
<1>3. TypeOK'
  BY <1>0, <1>1, <1>2, TypedStep DEF TypeOK
<1>4. CarriesWell(x)'
  BY <1>1 DEF CarriesWell, At
<1>5. InSync(s)'
  <2>1. ~astray[s] => reached[s] <= remote[s] \/ conn.error \/ ~conn.enabled
    BY <1>0 DEF IInv, Told, CarriesAll, CarriesWell
  <2>2. reached[s] \in Nat /\ remote[s] \in Nat
    BY <1>0 DEF TypeOK
  <2> QED BY <1>0, <2>1, <2>2 DEF InSync
<1>6. AloneOrAstray' /\ CarriesAll' /\ SilenceMeansSynced'
  BY <1>0, <1>1, <1>4, <1>5, OthersKeep
<1>7. EnabledIsThere' /\ Heard'
  BY <1>0, <1>1 DEF IInv, Told, EnabledIsThere, Heard, AcceptedIsTaken, FloorWasTaken, Only
<1> QED BY <1>2, <1>3, <1>6, <1>7 DEF IInv, Gated, Told

LEMMA FromOutside ==
    ASSUME IInv,
           \/ \E s \in Series : Link(s) \/ Unlink(s) \/ MarkUnread(s) \/ Renumber(s)
           \/ Connect \/ Disconnect \/ UNCHANGED vars
    PROVE  IInv'
<1>0. TypeOK /\ EnabledIsThere /\ MaxUpsets \in Nat
  BY TrackersAssumption DEF IInv, Gated, Told
<1>1. UNCHANGED <<push, lane, floor, taken>>
  BY DEF Link, Unlink, MarkUnread, Renumber, Connect, Disconnect, vars, service
\* For a series that is not astray afterwards, nothing was changed that could put it behind.
<1>2. /\ reached' \in [Series -> Nat] /\ remote' \in [Series -> Nat]
      /\ linked' \in [Series -> BOOLEAN] /\ astray' \in [Series -> BOOLEAN]
      /\ conn' \in [there : BOOLEAN, enabled : BOOLEAN, error : BOOLEAN]
      /\ upsets' \in 0 .. MaxUpsets /\ EnabledIsThere'
      /\ \A t \in Series : ~astray'[t] =>
            /\ ~astray[t] /\ reached'[t] <= reached[t] /\ remote'[t] = remote[t] /\ (linked'[t] => linked[t])
            /\ conn' = conn \/ ~conn'.enabled
  <2>1. ASSUME NEW s \in Series, Link(s) PROVE <1>2
    <3>1. UNCHANGED <<reached, conn>> /\ Upset
      BY <2>1 DEF Link
    <3>2. \A t \in Series : t # s => linked'[t] = linked[t] /\ astray'[t] = astray[t] /\ remote'[t] = remote[t]
      BY <1>0, <2>1 DEF Link, TypeOK
    <3>3. /\ linked' \in [Series -> BOOLEAN] /\ astray' \in [Series -> BOOLEAN] /\ astray'[s]
          /\ remote' \in [Series -> Nat]
      BY <1>0, <2>1 DEF Link, TypeOK
    <3>4. \A t \in Series : ~astray'[t] =>
            ~astray[t] /\ reached'[t] <= reached[t] /\ remote'[t] = remote[t] /\ (linked'[t] => linked[t])
      <4>1. \A t \in Series : reached[t] <= reached[t]
        BY <1>0 DEF TypeOK
      <4> QED BY <3>1, <3>2, <3>3, <4>1
    <3>5. upsets' \in 0 .. MaxUpsets /\ EnabledIsThere' /\ reached' \in [Series -> Nat]
      BY <1>0, <3>1 DEF TypeOK, Upset, EnabledIsThere
    <3>6. conn' \in [there : BOOLEAN, enabled : BOOLEAN, error : BOOLEAN] /\ conn' = conn
      BY <1>0, <3>1 DEF TypeOK
    <3> QED BY <3>3, <3>4, <3>5, <3>6
  <2>2. ASSUME NEW s \in Series, Unlink(s) PROVE <1>2
    <3>1. UNCHANGED <<reached, conn, remote, astray>> /\ Upset
      BY <2>2 DEF Unlink, service
    <3>2. linked' \in [Series -> BOOLEAN] /\ \A t \in Series : linked'[t] => linked[t]
      BY <1>0, <2>2 DEF Unlink, TypeOK
    <3> QED BY <1>0, <3>1, <3>2 DEF TypeOK, Upset, EnabledIsThere
  <2>3. ASSUME NEW s \in Series, MarkUnread(s) PROVE <1>2
    <3>1. UNCHANGED <<linked, conn, remote, astray>> /\ Upset
      BY <2>3 DEF MarkUnread, service
    <3>2. reached' \in [Series -> Nat] /\ \A t \in Series : reached'[t] <= reached[t]
      BY <1>0, <2>3 DEF MarkUnread, TypeOK
    <3> QED BY <1>0, <3>1, <3>2 DEF TypeOK, Upset, EnabledIsThere
  <2>4. ASSUME NEW s \in Series, Renumber(s) PROVE <1>2
    <3>1. UNCHANGED <<linked, conn, remote>> /\ Upset
      BY <2>4 DEF Renumber, service
    <3>2. \A t \in Series : t # s => reached'[t] = reached[t] /\ astray'[t] = astray[t]
      BY <1>0, <2>4 DEF Renumber, TypeOK
    <3>3. reached' \in [Series -> Nat] /\ astray' \in [Series -> BOOLEAN] /\ astray'[s]
      BY <1>0, <2>4, TrackersAssumption DEF Renumber, TypeOK, Numbers
    <3>4. \A t \in Series : ~astray'[t] =>
            ~astray[t] /\ reached'[t] <= reached[t] /\ remote'[t] = remote[t] /\ (linked'[t] => linked[t])
      <4>1. \A t \in Series : reached[t] <= reached[t]
        BY <1>0 DEF TypeOK
      <4> QED BY <3>1, <3>2, <3>3, <4>1
    <3>5. upsets' \in 0 .. MaxUpsets /\ EnabledIsThere' /\ remote' \in [Series -> Nat] /\ linked' \in [Series -> BOOLEAN]
      BY <1>0, <3>1 DEF TypeOK, Upset, EnabledIsThere
    <3>6. conn' \in [there : BOOLEAN, enabled : BOOLEAN, error : BOOLEAN] /\ conn' = conn
      BY <1>0, <3>1 DEF TypeOK
    <3> QED BY <3>3, <3>4, <3>5, <3>6
  <2>5. CASE Connect
    <3>1. UNCHANGED <<reached, linked, remote>> /\ Upset
      BY <2>5 DEF Connect, person, service
    <3>2. astray' \in [Series -> BOOLEAN] /\ \A t \in Series : astray'[t]
      BY <2>5 DEF Connect
    <3>3. conn' = Connected
      BY <2>5 DEF Connect
    <3>4. conn' \in [there : BOOLEAN, enabled : BOOLEAN, error : BOOLEAN] /\ conn'.there
      BY <3>3 DEF Connected
    <3> QED BY <1>0, <3>1, <3>2, <3>4 DEF TypeOK, Upset, EnabledIsThere
  <2>6. CASE Disconnect
    <3>1. UNCHANGED <<reached, linked, remote, astray>> /\ Upset
      BY <2>6 DEF Disconnect, person, service
    <3>2. conn' = NoConn
      BY <2>6 DEF Disconnect
    <3>3. conn' \in [there : BOOLEAN, enabled : BOOLEAN, error : BOOLEAN] /\ ~conn'.enabled /\ ~conn'.error
      BY <3>2 DEF NoConn
    <3> QED BY <1>0, <3>1, <3>3 DEF TypeOK, Upset, EnabledIsThere
  <2>7. CASE UNCHANGED vars
    BY <1>0, <2>7 DEF vars, person, service, TypeOK, EnabledIsThere
  <2> QED BY <2>1, <2>2, <2>3, <2>4, <2>5, <2>6, <2>7
<1>3. TypeOK'
  BY <1>0, <1>1, <1>2 DEF TypeOK, At
<1>4. LaneIsSound'
  BY <1>1 DEF IInv, Gated, LaneIsSound, InGate, At
<1>5. AloneOrAstray'
  <2> SUFFICES ASSUME NEW y \in Pushes, NEW z \in Pushes, push[y].of = push[z].of, y # z, push[y].at # "idle",
                      ~astray'[push[y].of]
               PROVE  FALSE
    BY <1>1 DEF AloneOrAstray, At
  <2>1. push[y].of \in Series
    BY <1>0 DEF TypeOK, At
  <2>2. ~astray[push[y].of]
    BY <1>2, <2>1
  <2> QED BY <2>2 DEF IInv, Told, AloneOrAstray, At
<1>6. CarriesAll'
  <2> SUFFICES ASSUME NEW y \in Pushes, push[y].at # "idle", ~astray'[push[y].of] PROVE CarriesWell(y)'
    BY <1>1 DEF CarriesAll, CarriesWell, At
  <2> PICK s \in Series : s = push[y].of
    BY <1>0 DEF TypeOK, At
  <2>1. /\ ~astray[s] /\ reached'[s] <= reached[s] /\ remote'[s] = remote[s] /\ (conn' = conn \/ ~conn'.enabled)
        /\ reached'[s] \in Nat /\ reached[s] \in Nat /\ remote[s] \in Nat /\ push[y].chapters \in Nat
    BY <1>0, <1>2 DEF TypeOK
  <2>2. CarriesWell(y)
    BY DEF IInv, Told, CarriesAll
  <2> QED BY <1>1, <2>1, <2>2 DEF CarriesWell, At
<1>7. SilenceMeansSynced'
  <2> SUFFICES ASSUME NEW s \in Series, InSync(s) PROVE InSync(s)'
    BY DEF IInv, Told, SilenceMeansSynced, InSync
  <2>1. UnderWay(s)' = UnderWay(s)
    BY <1>1 DEF UnderWay
  <2>2. reached'[s] \in Nat /\ reached[s] \in Nat /\ remote[s] \in Nat
    BY <1>0, <1>2 DEF TypeOK
  <2> QED BY <1>2, <2>1, <2>2 DEF InSync
<1>8. Heard'
  BY <1>1 DEF IInv, Heard, AcceptedIsTaken, FloorWasTaken
<1> QED BY <1>2, <1>3, <1>4, <1>5, <1>6, <1>7, <1>8 DEF IInv, Gated, Told

LEMMA RestartStep == ASSUME IInv, Restart PROVE IInv'
<1>0. /\ push' = [x \in Pushes |-> Idle] /\ lane' = << >>
      /\ UNCHANGED <<reached, linked, conn, floor, remote, taken>>
      /\ astray' = [s \in Series |-> astray[s] \/ UnderWay(s) # {}]
      /\ upsets' \in 0 .. MaxUpsets /\ TypeOK
  BY TrackersAssumption DEF Restart, Upset, person, service, IInv, Gated, TypeOK
<1>1. Idle \in PushType /\ Idle.at = "idle" /\ Idle.of = NoSeries
  BY DEF Idle, PushType, Stages
<1>2. TypeOK'
  BY <1>0, <1>1 DEF TypeOK, PushType, At
<1>3. LaneIsSound' /\ EnabledIsThere' /\ AloneOrAstray' /\ CarriesAll' /\ Heard'
  <2>1. LaneIsSound' /\ AloneOrAstray' /\ CarriesAll' /\ AcceptedIsTaken'
    BY <1>0, <1>1 DEF LaneIsSound, AloneOrAstray, CarriesAll, CarriesWell, AcceptedIsTaken, InGate, At
  <2>2. EnabledIsThere' /\ FloorWasTaken'
    BY <1>0 DEF IInv, Told, EnabledIsThere, Heard, FloorWasTaken
  <2> QED BY <2>1, <2>2 DEF Heard
<1>4. SilenceMeansSynced'
  <2> SUFFICES ASSUME NEW s \in Series, InSync(s), ~astray'[s] PROVE InSync(s)'
    BY DEF IInv, Told, SilenceMeansSynced, InSync
  <2>1. ~astray[s] /\ UnderWay(s) = {}
    BY <1>0
  <2> QED BY <1>0, <2>1 DEF InSync
<1> QED BY <1>2, <1>3, <1>4 DEF IInv, Gated, Told

LEMMA NextIInv == IInv /\ [Next]_vars => IInv'
<1> SUFFICES ASSUME IInv, [Next]_vars PROVE IInv'
  OBVIOUS
<1>1. ASSUME NEW x \in Pushes, Step(x) PROVE IInv'
  BY <1>1, BeforeTheGate, EnterGate, InTheGate, LeaveStep DEF Step
<1>2. ASSUME NEW x \in Pushes, NEW s \in Series,
             Backfill(x, s) \/ Resync(x, s) \/ \E n \in Numbers(s) \ {0} : Complete(x, s, n)
      PROVE  IInv'
  BY <1>2, StartStep
<1>3. CASE \/ \E s \in Series : Link(s) \/ Unlink(s) \/ MarkUnread(s) \/ Renumber(s)
           \/ Connect \/ Disconnect \/ UNCHANGED vars
  BY <1>3, FromOutside
<1>4. CASE Restart
  BY <1>4, RestartStep
<1> QED BY <1>1, <1>2, <1>3, <1>4 DEF Next

\* The strengthening that carries the theorems below.
THEOREM InductiveInvariant == Spec => []IInv
<1> QED BY InitIInv, NextIInv, PTL DEF Spec

-----------------------------------------------------------------------------
(* The theorems *)

\* The types of the rows and of what a push carries.
THEOREM TypeCorrect == Spec => []TypeOK
<1>1. IInv => TypeOK
  BY DEF IInv, Gated
<1> QED BY <1>1, InductiveInvariant, PTL

\* gate.ts:47-50 as trackers.ts:230 uses it: the slot is never lost and never shared.
THEOREM SlotIsKept == Spec => []LaneIsSound
<1>1. IInv => LaneIsSound
  BY DEF IInv, Gated
<1> QED BY <1>1, InductiveInvariant, PTL

\* trackers.ts:165-166, 256: what did not reach the service is shown to the
\* person, of each series the code leaves no silence behind for.
THEOREM ShortEndsAreTold == Spec => []SilenceMeansSynced
<1>1. IInv => SilenceMeansSynced
  BY DEF IInv, Told
<1> QED BY <1>1, InductiveInvariant, PTL

\* trackers.ts:234: the floor is never above what the service took.
THEOREM FloorIsTaken == Spec => []FloorWasTaken
<1>1. IInv => FloorWasTaken
  BY DEF IInv, Heard
<1> QED BY <1>1, InductiveInvariant, PTL
=============================================================================
