--------------------------- MODULE SessionsProofs ---------------------------
(***************************************************************************)
(* For any number of tabs, tokens, ticks of grace and of latency (with the *)
(* grace more than twice the latency): a device is not signed out by its   *)
(* own refreshes, and a session that was ended is over.                    *)
(***************************************************************************)
EXTENDS Sessions, TLAPS

Pending(r) == req[r].at \in {"issued", "cookie"}

\* Nothing refers to a token that was never issued.
OnlyIssued ==
    /\ jar # None => token[jar] # "unused"
    /\ \A r \in Refreshers :
        /\ Under(r) => req[r].tok \in Tokens /\ token[req[r].tok] # "unused"
        /\ Pending(r) => req[r].next \in Tokens /\ token[req[r].next] # "unused"

\* A token on its way to the device is there, or asked about, nowhere else.
Fresh ==
    \A r \in Refreshers : Pending(r) =>
        /\ req[r].next # jar
        /\ \A q \in Refreshers : Under(q) => req[q].tok # req[r].next
        /\ \A q \in Refreshers : Pending(q) /\ q # r => req[q].next # req[r].next

KilledStaysKilled == \A t \in killed : token[t] = "ended"

\* An end elsewhere that nobody slipped past leaves nothing to rotate.
NothingLeft ==
    closed /\ ~slipped /\ logout[1] = "no" => (\A t \in Tokens : ~Live(t)) /\ ~LetIn

\* A sign-out that no refresh ran beside has the device to itself.
SignedOutAlone ==
    /\ logout[1] \in {"sent", "done"} /\ ~slipped => \A r \in Refreshers : ~Under(r)
    /\ logout[1] = "done" /\ ~slipped => jar = None
    /\ logout[2] = None /\ logout[1] # "no" => closed

Good == ~closed /\ ~trouble /\ ~crossed
Standing(t) == token[t] \in {"live", "rotated"}

\* While all is well the cookie is live, or its replacement is on its way and
\* was asked for before the cookie was rotated.
CookieStands ==
    /\ jar # None /\ Standing(jar)
    /\ token[jar] = "rotated" =>
        \E r \in Refreshers : At(r, "cookie") /\ req[r].tok = jar /\ since[jar] <= req[r].age

\* What a refresh asks about stands, or was rotated not long before it was sent.
AskedInTime ==
    \A r \in Refreshers : At(r, "sent") =>
        /\ Standing(req[r].tok)
        /\ token[req[r].tok] = "rotated" => since[req[r].tok] <= Latency + req[r].age

\* During a sign-out of the others, this device's cookie is the one that is kept.
KeepsTheCookie ==
    keep[1] =>
        /\ keep[2] = jar /\ token[jar] = "live"
        /\ \A r \in Refreshers : req[r].at \in {"idle", "sent", "valid"} /\ (Under(r) => req[r].tok = jar)

AllIsWell ==
    Good => /\ CookieStands /\ AskedInTime /\ KeepsTheCookie
            /\ \A r \in Refreshers : ~At(r, "refused")
            /\ \A r \in Refreshers : Pending(r) => token[req[r].next] = "live"

IInv ==
    /\ TypeOK /\ OnlyIssued /\ Fresh
    /\ KilledStaysKilled /\ NothingLeft /\ SignedOutAlone
    /\ AllIsWell

ReqType == [at : {"idle", "sent", "valid", "issued", "cookie", "stale", "refused"},
            tok : Tokens \cup {None}, next : Tokens \cup {None}, age : 0 .. Latency]

Observations == <<closed, slipped, crossed, trouble>> \in BOOLEAN \X BOOLEAN \X BOOLEAN \X BOOLEAN

LEMMA InitIInv == Init => IInv
<1> SUFFICES ASSUME Init PROVE IInv
  OBVIOUS
<1>0. 1 \in Tokens /\ None \notin Tokens
  BY BoundsAssumption DEF Tokens, None
<1>1. TypeOK
  <2>1. Observations
    BY DEF Init, Observations
  <2>2. req \in [Refreshers -> ReqType] /\ since \in [Tokens -> 0 .. Grace]
    BY BoundsAssumption DEF Init, Idle, ReqType
  <2>3. token \in [Tokens -> {"unused", "live", "rotated", "ended"}]
    BY DEF Init
  <2> QED BY <2>1, <2>2, <2>3, <1>0 DEF Init, TypeOK, Idle, At, Observations, ReqType
<1>2. OnlyIssued /\ Fresh /\ KilledStaysKilled /\ NothingLeft /\ SignedOutAlone
  BY <1>0 DEF Init, OnlyIssued, Fresh, KilledStaysKilled, NothingLeft, SignedOutAlone, Under, Pending, Idle
<1>3. AllIsWell
  BY <1>0 DEF Init, AllIsWell, CookieStands, AskedInTime, KeepsTheCookie, Standing, At, Pending, Idle, Good
<1> QED BY <1>1, <1>2, <1>3 DEF IInv

-----------------------------------------------------------------------------
(* The steps *)

Others(r) == \A q \in Refreshers : q # r => req'[q] = req[q]

\* The parts that speak of the tokens and the requests, from what a step does.
LEMMA Booleans ==
    ASSUME TypeOK, [Next]_vars
    PROVE  Observations'
<1>1. closed \in BOOLEAN /\ slipped \in BOOLEAN /\ crossed \in BOOLEAN /\ trouble \in BOOLEAN
  BY DEF TypeOK
<1>2. closed' \in BOOLEAN
  BY <1>1, Zenon DEF Next, vars, observed, Send, Server, Validate, Issue, Retire, Receive, Lose, EndElsewhere, SignOut,
     Revoke, SignedOut, Keep, EndOthers, Tick
<1>3. slipped' \in BOOLEAN
  BY <1>1, Zenon DEF Next, vars, observed, Send, Server, Validate, Issue, Retire, Receive, Lose, EndElsewhere, SignOut,
     Revoke, SignedOut, Keep, EndOthers, Tick
<1>4. crossed' \in BOOLEAN
  BY <1>1, Zenon DEF Next, vars, observed, Send, Server, Validate, Issue, Retire, Receive, Lose, EndElsewhere, SignOut,
     Revoke, SignedOut, Keep, EndOthers, Tick
<1>5. trouble' \in BOOLEAN
  BY <1>1, Zenon DEF Next, vars, observed, Send, Server, Validate, Issue, Retire, Receive, Lose, EndElsewhere, SignOut,
     Revoke, SignedOut, Keep, EndOthers, Tick
<1> QED BY <1>2, <1>3, <1>4, <1>5 DEF Observations

LEMMA SendStep == ASSUME IInv, Observations', NEW r \in Refreshers, Send(r) PROVE IInv'
<1> USE DEF Send, Becomes
<1>0. None \notin Tokens /\ jar \in Tokens
  BY BoundsAssumption DEF IInv, TypeOK, Tokens, None
<1>1. Others(r) /\ req'[r] = [at |-> "sent", tok |-> jar, next |-> None, age |-> 0]
  BY DEF IInv, TypeOK, Others, Idle
<1>2. TypeOK'
  <2>1. req' \in [Refreshers -> ReqType]
    <3>1. req'[r] \in ReqType
      BY <1>0, <1>1, BoundsAssumption DEF ReqType
    <3> QED BY <3>1, <1>1 DEF IInv, TypeOK, ReqType, Others
  <2> QED BY <2>1, <1>1 DEF IInv, TypeOK, Observations, ReqType, At, Others
<1>3. OnlyIssued' /\ Fresh'
  BY <1>0, <1>1 DEF IInv, OnlyIssued, Fresh, Under, Pending, Others
<1>4. KilledStaysKilled' /\ NothingLeft'
  <2>1. ~slipped' => ~slipped
    OBVIOUS
  <2>2. ~LetIn => ~LetIn'
    BY <1>1 DEF LetIn, At, Others
  <2>3. \A t : Live(t)' = Live(t)
    BY DEF Live
  <2> QED BY <2>1, <2>2, <2>3 DEF IInv, KilledStaysKilled, NothingLeft
<1>5. SignedOutAlone'
  BY <1>0, <1>1 DEF IInv, SignedOutAlone, Under, Others, TypeOK
<1>6. AllIsWell'
  <2> SUFFICES ASSUME Good' PROVE CookieStands' /\ AskedInTime' /\ KeepsTheCookie'
                                  /\ (\A q \in Refreshers : ~At(q, "refused"))'
                                  /\ (\A q \in Refreshers : Pending(q) => token[req[q].next] = "live")'
    BY DEF AllIsWell
  <2>0. Good /\ CookieStands /\ AskedInTime /\ KeepsTheCookie
    BY DEF Good, IInv, AllIsWell
  <2>1. CookieStands'
    BY <2>0, <1>1 DEF CookieStands, Standing, At, Others
  <2>2. token[jar] = "rotated" => since[jar] <= Latency + 0
    BY <2>0, <1>0, BoundsAssumption DEF CookieStands, IInv, TypeOK
  <2>3. AskedInTime'
    <3> SUFFICES ASSUME NEW q \in Refreshers, At(q, "sent")'
                 PROVE  /\ Standing(req'[q].tok)
                        /\ token[req'[q].tok] = "rotated" => since[req'[q].tok] <= Latency + req'[q].age
      BY DEF AskedInTime, Standing
    <3>1. CASE q = r
      BY <3>1, <2>0, <2>2, <1>1 DEF CookieStands
    <3>2. CASE q # r
      BY <3>2, <2>0, <1>1 DEF AskedInTime, Others, At
    <3> QED BY <3>1, <3>2
  <2>4. KeepsTheCookie'
    BY <2>0, <1>1 DEF KeepsTheCookie, Under, Others
  <2>5. (\A q \in Refreshers : ~At(q, "refused"))' /\ (\A q \in Refreshers : Pending(q) => token[req[q].next] = "live")'
    BY <2>0, <1>1 DEF IInv, AllIsWell, At, Pending, Others
  <2> QED BY <2>1, <2>3, <2>4, <2>5
<1> QED BY <1>2, <1>3, <1>4, <1>5, <1>6 DEF IInv

LEMMA ValidateStep == ASSUME IInv, Observations', NEW r \in Refreshers, Validate(r) PROVE IInv'
<1> USE DEF Validate, Becomes, observed
<1>0. None \notin Tokens /\ req[r].tok \in Tokens /\ req[r].at = "sent"
  BY BoundsAssumption DEF IInv, OnlyIssued, Under, At, Tokens, None
<1>1. /\ Others(r) /\ req'[r].at \in {"valid", "stale", "refused"}
      /\ req'[r].tok = req[r].tok /\ req'[r].next = req[r].next /\ req'[r].age = req[r].age
      /\ req'[r].at = "valid" <=> Live(req[r].tok)
      /\ req'[r].at = "refused" <=> ~Accepted(req[r].tok)
  BY DEF IInv, TypeOK, Others, Accepted, Live
<1>2. TypeOK'
  <2>1. req' \in [Refreshers -> ReqType]
    BY DEF IInv, TypeOK, ReqType
  <2> QED BY <2>1, <1>1 DEF IInv, TypeOK, Observations, ReqType, At, Others
<1>3. OnlyIssued' /\ Fresh'
  BY <1>0, <1>1 DEF IInv, OnlyIssued, Fresh, Under, Pending, Others
<1>4. KilledStaysKilled'
  BY DEF IInv, KilledStaysKilled
<1>5. NothingLeft'
  BY <1>0, <1>1 DEF IInv, NothingLeft, Live, LetIn, At, Others
<1>6. SignedOutAlone'
  BY <1>0, <1>1 DEF IInv, SignedOutAlone, Under, Others
<1>7. AllIsWell'
  <2> SUFFICES ASSUME Good' PROVE CookieStands' /\ AskedInTime' /\ KeepsTheCookie'
                                  /\ (\A q \in Refreshers : ~At(q, "refused"))'
                                  /\ (\A q \in Refreshers : Pending(q) => token[req[q].next] = "live")'
    BY DEF AllIsWell
  <2>0. Good /\ CookieStands /\ AskedInTime /\ KeepsTheCookie
    BY DEF Good, IInv, AllIsWell
  <2>1. CookieStands'
    BY <2>0, <1>0, <1>1 DEF CookieStands, Standing, At, Others
  <2>2. AskedInTime'
    BY <2>0, <1>1 DEF AskedInTime, Standing, At, Others
  <2>3. Accepted(req[r].tok)
    <3>1. Standing(req[r].tok) /\ (token[req[r].tok] = "rotated" => since[req[r].tok] <= Latency + req[r].age)
      BY <2>0, <1>0 DEF AskedInTime, At
    <3>2. req[r].age \in 0 .. Latency /\ since[req[r].tok] \in 0 .. Grace
      BY <1>0 DEF IInv, TypeOK
    <3>3. token[req[r].tok] = "rotated" => since[req[r].tok] < Grace
      BY <3>1, <3>2, BoundsAssumption, LatencyAssumption
    <3> QED BY <1>0, <3>1, <3>3 DEF Accepted, Live, RecentlyRotated, Standing, None
  <2>4. KeepsTheCookie'
    BY <2>0, <1>0, <1>1 DEF KeepsTheCookie, Under, Others, Live
  <2>5. (\A q \in Refreshers : ~At(q, "refused"))' /\ (\A q \in Refreshers : Pending(q) => token[req[q].next] = "live")'
    BY <2>0, <2>3, <1>1 DEF IInv, AllIsWell, At, Pending, Others
  <2> QED BY <2>1, <2>2, <2>4, <2>5
<1> QED BY <1>2, <1>3, <1>4, <1>5, <1>6, <1>7 DEF IInv

LEMMA IssueStep == ASSUME IInv, Observations', NEW r \in Refreshers, Issue(r) PROVE IInv'
<1> USE DEF Issue, Becomes
<1>0. None \notin Tokens /\ req[r].tok \in Tokens /\ req[r].at = "valid"
  BY BoundsAssumption DEF IInv, OnlyIssued, Under, At, Tokens, None
<1> PICK t \in Tokens :
        /\ token[t] = "unused"
        /\ token' = [token EXCEPT ![t] = "live"]
        /\ req' = [req EXCEPT ![r] = [at |-> "issued", tok |-> req[r].tok, next |-> t, age |-> req[r].age]]
  OBVIOUS
<1>1. /\ Others(r) /\ req'[r].at = "issued" /\ req'[r].next = t
      /\ req'[r].tok = req[r].tok /\ req'[r].age = req[r].age
      /\ token'[t] = "live" /\ \A u \in Tokens : u # t => token'[u] = token[u]
  BY DEF IInv, TypeOK, Others
<1>2. TypeOK'
  <2>1. req' \in [Refreshers -> ReqType]
    <3>1. req \in [Refreshers -> ReqType]
      BY DEF IInv, TypeOK, ReqType
    <3>2. [at |-> "issued", tok |-> req[r].tok, next |-> t, age |-> req[r].age] \in ReqType
      BY <3>1 DEF ReqType
    <3> QED BY <3>1, <3>2
  <2>2. token' \in [Tokens -> {"unused", "live", "rotated", "ended"}]
    BY DEF IInv, TypeOK
  <2>3. \A q \in Refreshers : (At(q, "cookie") => token[req[q].next] # "unused")'
    BY <1>0, <1>1 DEF IInv, OnlyIssued, Pending, At, Others
  <2> QED BY <2>1, <2>2, <2>3 DEF IInv, TypeOK, Observations, ReqType
<1>3. OnlyIssued'
  BY <1>0, <1>1 DEF IInv, TypeOK, OnlyIssued, Under, Pending, Others
<1>4. Fresh'
  BY <1>0, <1>1 DEF IInv, TypeOK, OnlyIssued, Fresh, Under, Pending, Others
<1>5. KilledStaysKilled'
  BY <1>1 DEF IInv, TypeOK, KilledStaysKilled
<1>6. NothingLeft'
  BY <1>0, <1>1 DEF IInv, NothingLeft, LetIn, At
<1>7. SignedOutAlone'
  BY <1>0, <1>1 DEF IInv, SignedOutAlone, Under, Others
<1>8. AllIsWell'
  <2> SUFFICES ASSUME Good' PROVE CookieStands' /\ AskedInTime' /\ KeepsTheCookie'
                                  /\ (\A q \in Refreshers : ~At(q, "refused"))'
                                  /\ (\A q \in Refreshers : Pending(q) => token[req[q].next] = "live")'
    BY DEF AllIsWell
  <2>0. Good /\ CookieStands /\ AskedInTime /\ ~keep[1] /\ keep' = keep
    BY DEF Good, IInv, AllIsWell
  <2>1. CookieStands'
    BY <2>0, <1>0, <1>1 DEF CookieStands, Standing, At, Others, IInv, TypeOK
  <2>2. AskedInTime'
    BY <2>0, <1>1 DEF AskedInTime, Standing, At, Others, IInv, TypeOK, OnlyIssued, Under
  <2>3. KeepsTheCookie'
    BY <2>0 DEF KeepsTheCookie
  <2>4. (\A q \in Refreshers : ~At(q, "refused"))' /\ (\A q \in Refreshers : Pending(q) => token[req[q].next] = "live")'
    BY <2>0, <1>1 DEF IInv, AllIsWell, At, Pending, Others, OnlyIssued
  <2> QED BY <2>1, <2>2, <2>3, <2>4
<1> QED BY <1>2, <1>3, <1>4, <1>5, <1>6, <1>7, <1>8 DEF IInv

LEMMA RetireStep == ASSUME IInv, Observations', NEW r \in Refreshers, Retire(r) PROVE IInv'
<1> USE DEF Retire, Becomes, observed
<1>0. None \notin Tokens /\ req[r].tok \in Tokens /\ req[r].at = "issued"
  BY BoundsAssumption DEF IInv, OnlyIssued, Under, At, Tokens, None
<1>1. /\ Others(r) /\ req'[r].at = "cookie" /\ req'[r].next = req[r].next
      /\ req'[r].tok = req[r].tok /\ req'[r].age = req[r].age
  BY DEF IInv, TypeOK, Others
<1>2. /\ Live(req[r].tok) => token'[req[r].tok] = "rotated" /\ since'[req[r].tok] = 0
      /\ ~Live(req[r].tok) => token'[req[r].tok] = token[req[r].tok] /\ since'[req[r].tok] = since[req[r].tok]
      /\ \A t \in Tokens : t # req[r].tok => token'[t] = token[t] /\ since'[t] = since[t]
  BY <1>0 DEF IInv, TypeOK, Live
<1>3. TypeOK'
  <2>1. req' \in [Refreshers -> ReqType]
    BY DEF IInv, TypeOK, ReqType
  <2>2. token' \in [Tokens -> {"unused", "live", "rotated", "ended"}] /\ since' \in [Tokens -> 0 .. Grace]
    BY <1>0, BoundsAssumption DEF IInv, TypeOK, Live
  <2>3. \A q \in Refreshers : (At(q, "cookie") => token[req[q].next] # "unused")'
    BY <1>0, <1>1, <1>2 DEF IInv, TypeOK, OnlyIssued, Pending, At, Others
  <2> QED BY <2>1, <2>2, <2>3 DEF IInv, TypeOK, Observations, ReqType
<1>4. OnlyIssued' /\ Fresh'
  <2>1. OnlyIssued'
    BY <1>0, <1>1, <1>2 DEF IInv, TypeOK, OnlyIssued, Under, Pending, Others
  <2>2. Fresh'
    BY <1>0, <1>1 DEF IInv, Fresh, Under, Pending, Others
  <2> QED BY <2>1, <2>2
<1>5. KilledStaysKilled'
  BY <1>0, <1>2 DEF IInv, TypeOK, KilledStaysKilled, Live
<1>6. NothingLeft'
  BY <1>0, <1>1, <1>2 DEF IInv, NothingLeft, Live, LetIn, At, Others
<1>7. SignedOutAlone'
  BY <1>0, <1>1 DEF IInv, SignedOutAlone, Under, Others
<1>8. AllIsWell'
  <2> SUFFICES ASSUME Good' PROVE CookieStands' /\ AskedInTime' /\ KeepsTheCookie'
                                  /\ (\A q \in Refreshers : ~At(q, "refused"))'
                                  /\ (\A q \in Refreshers : Pending(q) => token[req[q].next] = "live")'
    BY DEF AllIsWell
  <2>0. Good /\ CookieStands /\ AskedInTime /\ ~keep[1] /\ keep' = keep /\ jar \in Tokens
    BY <1>0 DEF Good, IInv, AllIsWell, KeepsTheCookie, CookieStands, TypeOK
  <2>1. CookieStands'
    <3>1. CASE req[r].tok = jar /\ Live(jar)
      <4>1. token'[jar] = "rotated" /\ since'[jar] = 0 /\ req'[r].age \in 0 .. Latency
        BY <3>1, <1>1, <1>2 DEF IInv, TypeOK
      <4> QED BY <4>1, <3>1, <1>1, <2>0, BoundsAssumption DEF CookieStands, Standing, At
    <3>2. CASE ~(req[r].tok = jar /\ Live(jar))
      <4>1. token'[jar] = token[jar] /\ since'[jar] = since[jar]
        BY <3>2, <1>2, <2>0
      <4>2. \A q \in Refreshers : At(q, "cookie") => At(q, "cookie")' /\ req'[q] = req[q]
        BY <1>0, <1>1 DEF Others, At
      <4> QED BY <4>1, <4>2, <2>0 DEF CookieStands, Standing
    <3> QED BY <3>1, <3>2
  <2>2. AskedInTime'
    <3> SUFFICES ASSUME NEW q \in Refreshers, At(q, "sent")'
                 PROVE  /\ token'[req'[q].tok] \in {"live", "rotated"}
                        /\ token'[req'[q].tok] = "rotated" => since'[req'[q].tok] <= Latency + req'[q].age
      BY DEF AskedInTime, Standing
    <3>1. req'[q] = req[q] /\ At(q, "sent") /\ req[q].tok \in Tokens /\ req[q].age \in 0 .. Latency
      BY <1>1 DEF IInv, TypeOK, OnlyIssued, Under, At, Others
    <3>2. CASE req[q].tok = req[r].tok /\ Live(req[r].tok)
      BY <3>1, <3>2, <1>2, BoundsAssumption DEF Standing
    <3>3. CASE ~(req[q].tok = req[r].tok /\ Live(req[r].tok))
      BY <3>1, <3>3, <1>2, <2>0 DEF Standing, AskedInTime
    <3> QED BY <3>2, <3>3
  <2>3. KeepsTheCookie'
    BY <2>0 DEF KeepsTheCookie
  <2>4. (\A q \in Refreshers : ~At(q, "refused"))'
    BY <2>0, <1>1 DEF IInv, AllIsWell, At, Others
  <2>5. (\A q \in Refreshers : Pending(q) => token[req[q].next] = "live")'
    BY <2>0, <1>0, <1>1, <1>2 DEF IInv, AllIsWell, OnlyIssued, Fresh, Under, Pending, Others
  <2> QED BY <2>1, <2>2, <2>3, <2>4, <2>5
<1> QED BY <1>3, <1>4, <1>5, <1>6, <1>7, <1>8 DEF IInv

LEMMA ReceiveStep == ASSUME IInv, Observations', NEW r \in Refreshers, Receive(r) PROVE IInv'
<1> USE DEF Receive, Becomes, observed
<1>0. None \notin Tokens /\ req[r].tok \in Tokens /\ req[r].at \in {"cookie", "stale", "refused"}
  BY BoundsAssumption DEF IInv, OnlyIssued, Under, At, Tokens, None
<1>1. Others(r) /\ req'[r] = Idle
  BY DEF IInv, TypeOK, Others
<1>2. /\ req[r].at = "cookie" => jar' = req[r].next
      /\ req[r].at = "refused" => jar' = None
      /\ req[r].at = "stale" => jar' = jar
  BY DEF At
<1>3. TypeOK'
  <2>1. req' \in [Refreshers -> ReqType]
    <3>1. Idle \in ReqType
      BY BoundsAssumption DEF Idle, ReqType
    <3> QED BY <3>1 DEF IInv, TypeOK, ReqType
  <2>2. jar' \in Tokens \cup {None}
    BY <1>0, <1>2 DEF IInv, TypeOK
  <2> QED BY <2>1, <2>2, <1>1 DEF IInv, TypeOK, Observations, ReqType, At, Others, Idle
<1>4. OnlyIssued'
  BY <1>0, <1>1, <1>2 DEF IInv, OnlyIssued, Under, Pending, Others, Idle
<1>5. Fresh'
  BY <1>0, <1>1, <1>2 DEF IInv, OnlyIssued, Fresh, Under, Pending, Others, Idle
<1>6. KilledStaysKilled'
  BY DEF IInv, KilledStaysKilled
<1>7. NothingLeft'
  BY <1>1 DEF IInv, NothingLeft, Live, LetIn, At, Others, Idle
<1>8. SignedOutAlone'
  BY <1>0, <1>1 DEF IInv, SignedOutAlone, Under, Others, Idle
<1>9. AllIsWell'
  <2> SUFFICES ASSUME Good' PROVE CookieStands' /\ AskedInTime' /\ KeepsTheCookie'
                                  /\ (\A q \in Refreshers : ~At(q, "refused"))'
                                  /\ (\A q \in Refreshers : Pending(q) => token[req[q].next] = "live")'
    BY DEF AllIsWell
  <2>0. Good /\ CookieStands /\ AskedInTime /\ ~keep[1] /\ keep' = keep /\ ~At(r, "refused")
    BY <1>0 DEF Good, IInv, AllIsWell, KeepsTheCookie
  <2>1. CookieStands'
    <3>1. CASE req[r].at = "cookie"
      BY <3>1, <1>0, <1>2, <2>0 DEF CookieStands, Standing, IInv, AllIsWell, OnlyIssued, Pending
    <3>2. CASE req[r].at = "stale"
      BY <3>2, <1>1, <1>2, <2>0 DEF CookieStands, Standing, At, Others
    <3> QED BY <3>1, <3>2, <1>0, <2>0 DEF At
  <2>2. AskedInTime'
    BY <2>0, <1>1 DEF AskedInTime, Standing, At, Others, Idle
  <2>3. KeepsTheCookie'
    BY <2>0 DEF KeepsTheCookie
  <2>4. (\A q \in Refreshers : ~At(q, "refused"))' /\ (\A q \in Refreshers : Pending(q) => token[req[q].next] = "live")'
    BY <2>0, <1>1 DEF IInv, AllIsWell, At, Pending, Others, Idle
  <2> QED BY <2>1, <2>2, <2>3, <2>4
<1> QED BY <1>3, <1>4, <1>5, <1>6, <1>7, <1>8, <1>9 DEF IInv

LEMMA LoseStep == ASSUME IInv, Observations', NEW r \in Refreshers, Lose(r) PROVE IInv'
<1> USE DEF Lose, Becomes
<1>1. Others(r) /\ req'[r] = Idle
  BY DEF IInv, TypeOK, Others
<1>2. TypeOK'
  <2>1. req' \in [Refreshers -> ReqType]
    <3>1. Idle \in ReqType
      BY BoundsAssumption DEF Idle, ReqType
    <3> QED BY <3>1 DEF IInv, TypeOK, ReqType
  <2> QED BY <2>1, <1>1 DEF IInv, TypeOK, Observations, ReqType, At, Others, Idle
<1>3. OnlyIssued' /\ Fresh' /\ KilledStaysKilled'
  BY <1>1 DEF IInv, OnlyIssued, Fresh, KilledStaysKilled, Under, Pending, Others, Idle
<1>4. NothingLeft' /\ SignedOutAlone'
  BY <1>1 DEF IInv, NothingLeft, SignedOutAlone, Live, LetIn, Under, At, Others, Idle
<1>5. AllIsWell'
  BY DEF AllIsWell, Good
<1> QED BY <1>2, <1>3, <1>4, <1>5 DEF IInv

-----------------------------------------------------------------------------
(* The steps that end a session, and time *)

\* What an end leaves of the tokens.
LEMMA EndFacts ==
    ASSUME IInv, NEW S \in SUBSET Tokens, End(S)
    PROVE  /\ token' \in [Tokens -> {"unused", "live", "rotated", "ended"}] /\ killed' \subseteq Tokens
           /\ \A t \in Tokens : token'[t] = "unused" <=> token[t] = "unused"
           /\ \A t \in Tokens : token'[t] = "live" <=> token[t] = "live" /\ t \notin S
           /\ KilledStaysKilled'
  BY DEF IInv, TypeOK, End, KilledStaysKilled

LEMMA EndElsewhereStep == ASSUME IInv, Observations', EndElsewhere PROVE IInv'
<1> USE DEF EndElsewhere
<1>0. None \notin Tokens
  BY BoundsAssumption DEF Tokens, None
<1>1. End(Tokens) /\ Tokens \in SUBSET Tokens
  OBVIOUS
<1>2. TypeOK' /\ OnlyIssued' /\ KilledStaysKilled'
  BY <1>0, <1>1, EndFacts DEF IInv, TypeOK, Observations, OnlyIssued, At, Pending, Under
<1>3. Fresh' /\ SignedOutAlone'
  BY DEF IInv, Fresh, SignedOutAlone, Under, Pending
<1>4. NothingLeft'
  BY <1>0, <1>1, EndFacts DEF NothingLeft, Live, LetIn, At
<1>5. AllIsWell'
  BY DEF AllIsWell, Good
<1> QED BY <1>2, <1>3, <1>4, <1>5 DEF IInv

LEMMA SignOutStep == ASSUME IInv, Observations', SignOut PROVE IInv'
<1> USE DEF SignOut
<1>1. TypeOK' /\ OnlyIssued' /\ Fresh' /\ KilledStaysKilled'
  BY DEF IInv, TypeOK, Observations, OnlyIssued, Fresh, KilledStaysKilled, At, Pending, Under
<1>2. NothingLeft' /\ SignedOutAlone'
  BY DEF IInv, NothingLeft, SignedOutAlone, Under
<1>3. AllIsWell'
  BY DEF IInv, AllIsWell, Good, CookieStands, AskedInTime, KeepsTheCookie, Standing, Pending, Under, At
<1> QED BY <1>1, <1>2, <1>3 DEF IInv

LEMMA RevokeStep == ASSUME IInv, Observations', Revoke PROVE IInv'
<1> USE DEF Revoke
<1>0. None \notin Tokens
  BY BoundsAssumption DEF Tokens, None
<1>1. End({logout[2]}) /\ {logout[2]} \in SUBSET Tokens
  BY DEF IInv, TypeOK
<1>2. TypeOK' /\ OnlyIssued' /\ KilledStaysKilled'
  <2>1. logout' \in {"no", "sent", "done"} \X (Tokens \cup {None})
    OBVIOUS
  <2>2. token' \in [Tokens -> {"unused", "live", "rotated", "ended"}] /\ killed' \subseteq Tokens
    BY <1>1, EndFacts
  <2>3. \A t \in Tokens : token'[t] = "unused" <=> token[t] = "unused"
    BY <1>1, EndFacts
  <2>4. OnlyIssued' /\ KilledStaysKilled'
    BY <1>0, <1>1, <2>3, EndFacts DEF IInv, TypeOK, OnlyIssued, Pending, Under
  <2> QED BY <2>1, <2>2, <2>4 DEF IInv, TypeOK, Observations, OnlyIssued, At, Pending
<1>3. Fresh' /\ SignedOutAlone' /\ NothingLeft'
  BY DEF IInv, Fresh, SignedOutAlone, NothingLeft, Under, Pending
<1>4. AllIsWell'
  BY DEF AllIsWell, Good
<1> QED BY <1>2, <1>3, <1>4 DEF IInv

LEMMA SignedOutStep == ASSUME IInv, Observations', SignedOut PROVE IInv'
<1> USE DEF SignedOut, observed
<1>0. None \notin Tokens /\ closed
  BY BoundsAssumption DEF IInv, SignedOutAlone, Tokens, None
<1>1. TypeOK' /\ OnlyIssued' /\ KilledStaysKilled'
  BY DEF IInv, TypeOK, Observations, OnlyIssued, KilledStaysKilled, At, Pending, Under
<1>2. Fresh'
  BY <1>0 DEF IInv, Fresh, OnlyIssued, Under, Pending
<1>3. SignedOutAlone' /\ NothingLeft'
  BY <1>0 DEF IInv, SignedOutAlone, NothingLeft, Under
<1>4. AllIsWell'
  BY <1>0 DEF AllIsWell, Good
<1> QED BY <1>1, <1>2, <1>3, <1>4 DEF IInv

LEMMA KeepStep == ASSUME IInv, Observations', Keep PROVE IInv'
<1> USE DEF Keep
<1>1. TypeOK' /\ OnlyIssued' /\ Fresh' /\ KilledStaysKilled'
  BY DEF IInv, TypeOK, Observations, OnlyIssued, Fresh, KilledStaysKilled, At, Pending, Under
<1>2. NothingLeft' /\ SignedOutAlone'
  BY DEF IInv, NothingLeft, SignedOutAlone, Under, Live, LetIn, At
<1>3. AllIsWell'
  <2> SUFFICES ASSUME Good' PROVE CookieStands' /\ AskedInTime' /\ KeepsTheCookie'
                                  /\ (\A q \in Refreshers : ~At(q, "refused"))'
                                  /\ (\A q \in Refreshers : Pending(q) => token[req[q].next] = "live")'
    BY DEF AllIsWell
  <2>1. Good /\ CookieStands /\ \A q \in Refreshers : ~Under(q)
    BY DEF Good, IInv, AllIsWell
  <2>2. token[jar] = "live"
    BY <2>1 DEF CookieStands, Standing, Under, At
  <2>3. KeepsTheCookie'
    BY <2>1, <2>2 DEF KeepsTheCookie, Live, Under
  <2> QED BY <2>1, <2>3 DEF CookieStands, AskedInTime, Standing, At, Pending, Under
<1> QED BY <1>1, <1>2, <1>3 DEF IInv

LEMMA EndOthersStep == ASSUME IInv, Observations', EndOthers PROVE IInv'
<1> USE DEF EndOthers
<1>0. None \notin Tokens
  BY BoundsAssumption DEF Tokens, None
<1>1. End(Tokens \ {keep[2]}) /\ Tokens \ {keep[2]} \in SUBSET Tokens
  OBVIOUS
<1>2. TypeOK' /\ OnlyIssued' /\ KilledStaysKilled'
  <2>1. keep' \in BOOLEAN \X (Tokens \cup {None})
    OBVIOUS
  <2>2. token' \in [Tokens -> {"unused", "live", "rotated", "ended"}] /\ killed' \subseteq Tokens
    BY <1>1, EndFacts
  <2>3. \A t \in Tokens : token'[t] = "unused" <=> token[t] = "unused"
    BY <1>1, EndFacts
  <2>4. OnlyIssued' /\ KilledStaysKilled'
    BY <1>0, <1>1, <2>3, EndFacts DEF IInv, TypeOK, OnlyIssued, Pending, Under
  <2> QED BY <2>1, <2>2, <2>4 DEF IInv, TypeOK, Observations, OnlyIssued, At, Pending
<1>3. Fresh' /\ SignedOutAlone'
  BY DEF IInv, Fresh, SignedOutAlone, Under, Pending
<1>4. NothingLeft'
  BY <1>0, <1>1, EndFacts DEF IInv, NothingLeft, Live, LetIn, At
<1>5. AllIsWell'
  <2> SUFFICES ASSUME Good' PROVE CookieStands' /\ AskedInTime' /\ KeepsTheCookie'
                                  /\ (\A q \in Refreshers : ~At(q, "refused"))'
                                  /\ (\A q \in Refreshers : Pending(q) => token[req[q].next] = "live")'
    BY DEF AllIsWell
  <2>1. Good /\ KeepsTheCookie /\ jar \in Tokens
    BY DEF Good, IInv, AllIsWell, CookieStands, TypeOK
  <2>2. token'[jar] = "live" /\ jar' = jar /\ req' = req /\ ~keep'[1]
    BY <2>1, <1>1, EndFacts DEF KeepsTheCookie
  <2>3. \A q \in Refreshers : req[q].at \in {"idle", "sent", "valid"} /\ (Under(q) => req[q].tok = jar)
    BY <2>1 DEF KeepsTheCookie
  <2>4. CookieStands' /\ KeepsTheCookie'
    BY <1>0, <2>1, <2>2 DEF CookieStands, KeepsTheCookie, Standing
  <2> QED BY <2>2, <2>3, <2>4 DEF AskedInTime, Standing, Under, At, Pending
<1> QED BY <1>2, <1>3, <1>4, <1>5 DEF IInv

LEMMA TickStep == ASSUME IInv, Observations', Tick PROVE IInv'
<1> USE DEF Tick
<1>0. None \notin Tokens
  BY BoundsAssumption DEF Tokens, None
<1>1. \A r \in Refreshers : /\ req[r] \in ReqType /\ req'[r] \in ReqType
                            /\ req'[r].at = req[r].at /\ req'[r].tok = req[r].tok /\ req'[r].next = req[r].next
                            /\ Under(r) /\ req[r].age # Latency => req'[r].age = req[r].age + 1
  <2> TAKE r \in Refreshers
  <2>1. req[r] \in ReqType /\ req[r].age \in 0 .. Latency
    BY DEF IInv, TypeOK, ReqType
  <2>2. CASE Under(r) /\ req[r].age < Latency
    BY <2>1, <2>2, BoundsAssumption DEF ReqType
  <2>3. CASE ~(Under(r) /\ req[r].age < Latency)
    BY <2>1, <2>3, BoundsAssumption
  <2> QED BY <2>2, <2>3
<1>2. \A t \in Tokens : since[t] \in 0 .. Grace /\ since'[t] \in 0 .. Grace /\ since'[t] <= since[t] + 1
  BY BoundsAssumption DEF IInv, TypeOK
<1>3. TypeOK'
  <2>1. req' \in [Refreshers -> ReqType] /\ since' \in [Tokens -> 0 .. Grace]
    BY <1>1, <1>2
  <2>2. \A r \in Refreshers : (At(r, "cookie") => token[req[r].next] # "unused")'
    BY <1>1 DEF IInv, TypeOK, At
  <2> QED BY <2>1, <2>2 DEF IInv, TypeOK, Observations, ReqType
<1>4. OnlyIssued' /\ Fresh' /\ KilledStaysKilled'
  BY <1>1 DEF IInv, OnlyIssued, Fresh, KilledStaysKilled, Under, Pending
<1>5. NothingLeft' /\ SignedOutAlone'
  BY <1>1 DEF IInv, NothingLeft, SignedOutAlone, Live, LetIn, Under, At
<1>6. AllIsWell'
  <2> SUFFICES ASSUME Good' PROVE CookieStands' /\ AskedInTime' /\ KeepsTheCookie'
                                  /\ (\A q \in Refreshers : ~At(q, "refused"))'
                                  /\ (\A q \in Refreshers : Pending(q) => token[req[q].next] = "live")'
    BY DEF AllIsWell
  <2>0. Good /\ CookieStands /\ AskedInTime /\ KeepsTheCookie /\ jar \in Tokens
    BY DEF Good, IInv, AllIsWell, CookieStands, TypeOK
  <2>1. \A r \in Refreshers : Under(r) => req'[r].age = req[r].age + 1 /\ req[r].age \in 0 .. Latency
    BY <1>1 DEF Good, ReqType
  <2>2. CookieStands'
    <3> SUFFICES ASSUME token'[jar] = "rotated"
                 PROVE  \E r \in Refreshers : (At(r, "cookie") /\ req[r].tok = jar /\ since[jar] <= req[r].age)'
      BY <2>0 DEF CookieStands, Standing
    <3>1. PICK r \in Refreshers : At(r, "cookie") /\ req[r].tok = jar /\ since[jar] <= req[r].age
      BY <2>0 DEF CookieStands
    <3>2. since'[jar] <= req'[r].age
      BY <3>1, <2>0, <2>1, <1>2, BoundsAssumption DEF Under, At
    <3> QED BY <3>1, <3>2, <1>1 DEF At
  <2>3. AskedInTime'
    <3> SUFFICES ASSUME NEW r \in Refreshers, At(r, "sent")'
                 PROVE  /\ token'[req'[r].tok] \in {"live", "rotated"}
                        /\ token'[req'[r].tok] = "rotated" => since'[req'[r].tok] <= Latency + req'[r].age
      BY DEF AskedInTime, Standing
    <3>1. At(r, "sent") /\ Under(r) /\ req'[r].tok = req[r].tok /\ req[r].tok \in Tokens
      BY <1>1 DEF IInv, OnlyIssued, Under, At
    <3>2. Standing(req[r].tok) /\ (token[req[r].tok] = "rotated" => since[req[r].tok] <= Latency + req[r].age)
      BY <2>0, <3>1 DEF AskedInTime
    <3>3. req'[r].age = req[r].age + 1 /\ req[r].age \in 0 .. Latency /\ since'[req[r].tok] <= since[req[r].tok] + 1
          /\ since[req[r].tok] \in 0 .. Grace /\ since'[req[r].tok] \in 0 .. Grace
      BY <3>1, <2>1, <1>2
    <3> QED BY <3>1, <3>2, <3>3, BoundsAssumption DEF Standing
  <2>4. KeepsTheCookie'
    BY <2>0, <1>1 DEF KeepsTheCookie, Under
  <2>5. (\A q \in Refreshers : ~At(q, "refused"))' /\ (\A q \in Refreshers : Pending(q) => token[req[q].next] = "live")'
    BY <2>0, <1>1 DEF IInv, AllIsWell, At, Pending
  <2> QED BY <2>2, <2>3, <2>4, <2>5
<1> QED BY <1>3, <1>4, <1>5, <1>6 DEF IInv

-----------------------------------------------------------------------------
(* The theorems *)

LEMMA NextIInv == IInv /\ [Next]_vars => IInv'
<1> SUFFICES ASSUME IInv, [Next]_vars PROVE IInv'
  OBVIOUS
<1>0. Observations'
  BY Booleans DEF IInv
<1>1. CASE UNCHANGED vars
  BY <1>1, Zenon DEF vars, IInv, TypeOK, OnlyIssued, Fresh, KilledStaysKilled, NothingLeft, SignedOutAlone, AllIsWell,
     CookieStands, AskedInTime, KeepsTheCookie, Standing, Good, Under, Pending, At, Live, LetIn
<1>2. ASSUME NEW r \in Refreshers, Send(r) \/ Server(r) \/ Receive(r) \/ Lose(r) PROVE IInv'
  BY <1>0, <1>2, SendStep, ValidateStep, IssueStep, RetireStep, ReceiveStep, LoseStep DEF Server
<1>3. CASE EndElsewhere \/ SignOut \/ Revoke \/ SignedOut \/ Keep \/ EndOthers \/ Tick
  BY <1>0, <1>3, EndElsewhereStep, SignOutStep, RevokeStep, SignedOutStep, KeepStep, EndOthersStep, TickStep
<1> QED BY <1>1, <1>2, <1>3 DEF Next

\* Type correctness, for any number of refreshers, tokens and ticks.
THEOREM TypeCorrect == Spec => []TypeOK
<1>1. IInv => TypeOK
  BY DEF IInv
<1> QED BY <1>1, InitIInv, NextIInv, PTL DEF Spec

\* auth.ts:177-185: as long as the refreshes are answered within half the
\* grace, no collision of a device's tabs and its worker signs it out.
THEOREM DeviceStays == Spec => []DeviceStaysSignedIn
<1>1. IInv => DeviceStaysSignedIn
  <2> SUFFICES ASSUME IInv, Good
               PROVE  Accepted(jar) /\ \A r \in Refreshers : ~At(r, "refused")
    BY DEF DeviceStaysSignedIn, Good
  <2>1. CookieStands /\ jar \in Tokens
    BY DEF IInv, AllIsWell, CookieStands, TypeOK
  <2>2. token[jar] = "rotated" => since[jar] < Grace
    <3> SUFFICES ASSUME token[jar] = "rotated" PROVE since[jar] < Grace
      OBVIOUS
    <3>1. PICK r \in Refreshers : since[jar] <= req[r].age
      BY <2>1 DEF CookieStands
    <3>2. req[r].age \in 0 .. Latency /\ since[jar] \in 0 .. Grace
      BY <2>1 DEF IInv, TypeOK
    <3> QED BY <3>1, <3>2, BoundsAssumption, LatencyAssumption
  <2> QED BY <2>1, <2>2 DEF IInv, AllIsWell, CookieStands, Standing, Accepted, Live, RecentlyRotated
<1> QED BY <1>1, InitIInv, NextIInv, PTL DEF Spec

\* auth.ts:191-193: what an end has killed is never taken again, nothing is
\* left when no rotation had been let in, and a signed-out device stays out.
THEOREM EndIsEnd == Spec => []EndMeansEnd
<1>1. IInv => EndMeansEnd
  BY DEF IInv, EndMeansEnd, KilledStaysKilled, NothingLeft, SignedOutAlone, Accepted, Live, RecentlyRotated
<1> QED BY <1>1, InitIInv, NextIInv, PTL DEF Spec
=============================================================================
