------------------------------ MODULE Sessions ------------------------------
(***************************************************************************)
(* bff/src/lib/auth.ts and routes/auth.ts: the refresh tokens of one       *)
(* account, seen from one device.  The device is one cookie jar with       *)
(* several refreshers over it (each tab's AuthProvider, web/lib/api.ts,    *)
(* and the service worker, web/public/sw.js), each with one request under  *)
(* way at most.  A refresh rotates the token in three statements; the      *)
(* session may be ended meanwhile, here or elsewhere.                      *)
(*                                                                         *)
(* One action per statement to the database, and one when a reply arrives. *)
(* The model begins when the device has signed in, and nobody signs in     *)
(* again.  Access tokens, and the sixty days of a refresh token, are left  *)
(* out.                                                                    *)
(***************************************************************************)
EXTENDS Naturals, FiniteSets

CONSTANTS
    Refreshers,     \* tabs and the service worker
    MaxTokens,      \* bound on the tokens issued
    Grace,          \* REFRESH_GRACE_MS, in ticks
    Latency         \* the ticks within which a refresh is normally answered

ASSUME BoundsAssumption == MaxTokens \in Nat \ {0} /\ Grace \in Nat \ {0} /\ Latency \in Nat

\* A minute of grace, and answers within half of it.
ASSUME LatencyAssumption == Latency + Latency < Grace

Tokens == 1 .. MaxTokens
None == 0

VARIABLES
    token,      \* refresh_tokens: "unused", "live", "rotated" (replaced_by is set) or "ended"
    since,      \* ticks since a token was rotated, up to Grace
    jar,        \* the refresh cookie of the device
    req,        \* the refresh each refresher has under way
    logout,     \* POST /auth/logout on this device
    keep,       \* POST /auth/logout-all or /auth/password on this device
    killed,     \* observation: tokens that were live when a session was ended
    closed,     \* observation: somebody has ended this device's session
    slipped,    \* observation: a rotation had been let in, or a refresh was under way here, when it ended
    crossed,    \* observation: a rotation ran beside a sign-out of the other devices
    trouble     \* observation: a reply was lost, or took longer than Latency

observed == <<killed, closed, slipped, crossed, trouble>>
vars == <<token, since, jar, req, logout, keep, killed, closed, slipped, crossed, trouble>>

Idle == [at |-> "idle", tok |-> None, next |-> None, age |-> 0]
Under(r) == req[r].at # "idle"
At(r, place) == req[r].at = place

\* The type invariant; a reply that sets a cookie carries a token that was issued.
TypeOK ==
    /\ token \in [Tokens -> {"unused", "live", "rotated", "ended"}]
    /\ since \in [Tokens -> 0 .. Grace]
    /\ jar \in Tokens \cup {None}
    /\ req \in [Refreshers -> [at : {"idle", "sent", "valid", "issued", "cookie", "stale", "refused"},
                               tok : Tokens \cup {None}, next : Tokens \cup {None}, age : 0 .. Latency]]
    /\ \A r \in Refreshers : At(r, "cookie") => token[req[r].next] # "unused"
    /\ logout \in {"no", "sent", "done"} \X (Tokens \cup {None})
    /\ keep \in BOOLEAN \X (Tokens \cup {None})
    /\ killed \subseteq Tokens
    /\ <<closed, slipped, crossed, trouble>> \in BOOLEAN \X BOOLEAN \X BOOLEAN \X BOOLEAN

Init ==
    /\ token = [t \in Tokens |-> IF t = 1 THEN "live" ELSE "unused"]
    /\ since = [t \in Tokens |-> 0]
    /\ jar = 1
    /\ req = [r \in Refreshers |-> Idle]
    /\ logout = <<"no", None>> /\ keep = <<FALSE, None>>
    /\ killed = {}
    /\ closed = FALSE /\ slipped = FALSE /\ crossed = FALSE /\ trouble = FALSE

-----------------------------------------------------------------------------
(* Which tokens are taken *)

Live(t) == t # None /\ token[t] = "live"

\* Mutant: no grace, only the token of the last rotation.
RecentlyRotatedNever(t) == FALSE

\* Mutant: the grace has no end.
RotatedAtAll(t) == t # None /\ token[t] = "rotated"

\* validateRefreshForRotation's second case: rotated, not ended, a moment ago.
RecentlyRotated(t) == t # None /\ token[t] = "rotated" /\ since[t] < Grace

Accepted(t) == Live(t) \/ RecentlyRotated(t)

-----------------------------------------------------------------------------
(* POST /auth/refresh *)

Becomes(r, q) == req' = [req EXCEPT ![r] = q]

\* refreshSession and freshAccessToken; without a cookie nothing is asked.
Send(r) ==
    /\ At(r, "idle") /\ jar # None
    /\ Becomes(r, [at |-> "sent", tok |-> jar, next |-> None, age |-> 0])
    /\ slipped' = (slipped \/ logout[1] = "sent")
    /\ UNCHANGED <<token, since, jar, logout, keep, killed, closed, crossed, trouble>>

\* The token is looked up: rotate it, only answer, or refuse.
Validate(r) ==
    /\ At(r, "sent")
    /\ LET t == req[r].tok IN
       Becomes(r, [req[r] EXCEPT !.at = IF Live(t) THEN "valid" ELSE IF RecentlyRotated(t) THEN "stale" ELSE "refused"])
    /\ UNCHANGED <<token, since, jar, logout, keep, observed>>

\* issueRefreshToken, the INSERT.
Issue(r) ==
    /\ At(r, "valid")
    /\ \E t \in Tokens :
        /\ token[t] = "unused" /\ \A u \in Tokens : u < t => token[u] # "unused"
        /\ token' = [token EXCEPT ![t] = "live"]
        /\ Becomes(r, [at |-> "issued", tok |-> req[r].tok, next |-> t, age |-> req[r].age])
    /\ crossed' = (crossed \/ keep[1])
    /\ UNCHANGED <<since, jar, logout, keep, killed, closed, slipped, trouble>>

\* Mutant: the old row is rotated whatever has become of it.
RetireEvenEnded(r) ==
    /\ At(r, "issued")
    /\ token' = [token EXCEPT ![req[r].tok] = "rotated"]
    /\ since' = [since EXCEPT ![req[r].tok] = 0]
    /\ Becomes(r, [req[r] EXCEPT !.at = "cookie"])
    /\ UNCHANGED <<jar, logout, keep, observed>>

\* issueRefreshToken, the UPDATE of the row it replaces, if that still stands.
Retire(r) ==
    /\ At(r, "issued")
    /\ token' = [token EXCEPT ![req[r].tok] = IF @ = "live" THEN "rotated" ELSE @]
    /\ since' = [since EXCEPT ![req[r].tok] = IF Live(req[r].tok) THEN 0 ELSE @]
    /\ Becomes(r, [req[r] EXCEPT !.at = "cookie"])
    /\ UNCHANGED <<jar, logout, keep, observed>>

\* The reply arrives: a new cookie, a cleared one, or the jar as it is.
Receive(r) ==
    /\ req[r].at \in {"cookie", "stale", "refused"}
    /\ jar' = CASE At(r, "cookie") -> req[r].next [] At(r, "refused") -> None [] OTHER -> jar
    /\ Becomes(r, Idle)
    /\ UNCHANGED <<token, since, logout, keep, observed>>

\* The connection is lost on the way out or on the way back; once.
Lose(r) ==
    /\ ~trouble
    /\ req[r].at \in {"sent", "cookie", "stale", "refused"}
    /\ Becomes(r, Idle)
    /\ trouble' = TRUE
    /\ UNCHANGED <<token, since, jar, logout, keep, killed, closed, slipped, crossed>>

-----------------------------------------------------------------------------
(* The end of a session *)

End(tokens) ==
    /\ token' = [t \in Tokens |-> IF t \in tokens /\ token[t] = "live" THEN "ended" ELSE token[t]]
    /\ killed' = killed \cup {t \in tokens : token[t] = "live"}

LetIn == \E r \in Refreshers : At(r, "valid")

\* revokeAllSessions: from another device, after a password reset, when the
\* account is suspended.
EndElsewhere ==
    /\ ~closed
    /\ End(Tokens)
    /\ closed' = TRUE /\ slipped' = (slipped \/ LetIn)
    /\ UNCHANGED <<since, jar, req, logout, keep, crossed, trouble>>

\* POST /auth/logout.
SignOut ==
    /\ logout[1] = "no" /\ jar # None
    /\ logout' = <<"sent", jar>>
    /\ slipped' = (slipped \/ \E r \in Refreshers : Under(r))
    /\ UNCHANGED <<token, since, jar, req, keep, killed, closed, crossed, trouble>>

\* revokeRefreshToken: the row of this token, if it stands.
Revoke ==
    /\ logout[1] = "sent" /\ logout[2] # None
    /\ End({logout[2]})
    /\ closed' = TRUE
    /\ logout' = <<"sent", None>>
    /\ UNCHANGED <<since, jar, req, keep, slipped, crossed, trouble>>

\* The reply clears the cookie.
SignedOut ==
    /\ logout = <<"sent", None>>
    /\ logout' = <<"done", None>>
    /\ jar' = None
    /\ UNCHANGED <<token, since, req, keep, observed>>

\* POST /auth/logout-all and /auth/password, here: which session to keep ...
Keep ==
    /\ ~keep[1] /\ jar # None
    /\ keep' = <<TRUE, IF Live(jar) THEN jar ELSE None>>
    /\ crossed' = (crossed \/ \E r \in Refreshers : Under(r))
    /\ UNCHANGED <<token, since, jar, req, logout, killed, closed, slipped, trouble>>

\* ... and all the others are ended.
EndOthers ==
    /\ keep[1]
    /\ End(Tokens \ {keep[2]})
    /\ keep' = <<FALSE, None>>
    /\ UNCHANGED <<since, jar, req, logout, closed, slipped, crossed, trouble>>

\* Time passes.  A request that is older than Latency is trouble.
Tick ==
    /\ since' = [t \in Tokens |-> IF token[t] = "rotated" /\ since[t] < Grace THEN since[t] + 1 ELSE since[t]]
    /\ req' = [r \in Refreshers |-> IF Under(r) /\ req[r].age < Latency THEN [req[r] EXCEPT !.age = @ + 1] ELSE req[r]]
    /\ trouble' = (trouble \/ \E r \in Refreshers : Under(r) /\ req[r].age = Latency)
    /\ UNCHANGED <<token, jar, logout, keep, killed, closed, slipped, crossed>>

Server(r) == Validate(r) \/ Issue(r) \/ Retire(r)

Next ==
    \/ \E r \in Refreshers : Send(r) \/ Server(r) \/ Receive(r) \/ Lose(r)
    \/ EndElsewhere \/ SignOut \/ Revoke \/ SignedOut \/ Keep \/ EndOthers \/ Tick

Spec == Init /\ [][Next]_vars

\* The refresh timers come round (twelve minutes, and on every load), the
\* server answers, and the network is not down for ever.
FairSpec ==
    /\ Spec
    /\ \A r \in Refreshers : WF_vars(Send(r)) /\ WF_vars(Server(r)) /\ WF_vars(Receive(r))
    /\ WF_vars(Revoke) /\ WF_vars(SignedOut) /\ WF_vars(EndOthers) /\ WF_vars(Tick)

-----------------------------------------------------------------------------
(* Properties *)

\* auth.ts:177-185, the reason for the grace: however its tabs and its worker
\* collide, a device is not signed out by its own refreshes.  As long as
\* nobody ended the session and every refresh was answered in half the grace,
\* the cookie is one that the server takes and no refresh is refused.  A
\* sign-out of the others keeps the device if no refresh ran beside it.
DeviceStaysSignedIn ==
    ~closed /\ ~trouble /\ ~crossed =>
        /\ Accepted(jar)
        /\ \A r \in Refreshers : ~At(r, "refused")

\* auth.ts:191-193, "ending a session still means ending it": what an end has
\* killed is never taken again, though a rotation of it was under way; when
\* none had been let in, no session of the account is left; and a sign-out
\* that no refresh ran beside leaves no cookie behind, then or later.  Only
\* tokens that are live are killed: one that was rotated within the grace
\* keeps answering for what is left of its minute (auth.ts:204).
EndMeansEnd ==
    /\ \A t \in killed : ~Accepted(t)
    /\ closed /\ ~slipped /\ logout[1] = "no" => \A t \in Tokens : ~Live(t)
    /\ logout[1] = "done" /\ ~slipped => jar = None

\* A session that was ended elsewhere is noticed: the grace runs out, a
\* refresh is refused, and the cookie goes.
EndIsNoticed == closed /\ ~slipped ~> jar = None \/ slipped
=============================================================================
