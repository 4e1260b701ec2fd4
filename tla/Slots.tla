------------------------------- MODULE Slots -------------------------------
(***************************************************************************)
(* What the per-key gate promises its callers, with no lane record, timers *)
(* or promises: Capacity slots, handed out first come, first served.  A    *)
(* slot that is given back goes to the caller that has waited longest in   *)
(* the same step.  Gate.tla is shown to implement it.                      *)
(***************************************************************************)
EXTENDS Naturals, Sequences, FiniteSets

CONSTANTS
    Callers,    \* the calls that may contend for one key
    Capacity    \* how many of them may hold a slot at once

VARIABLES
    held,       \* the callers that hold a slot
    waiting     \* the callers that wait for one, oldest first

Init ==
    /\ held = {}
    /\ waiting = << >>

Waiters == {waiting[i] : i \in DOMAIN waiting}

\* A caller takes a free slot; nobody is waiting, so nobody is overtaken.
Take(c) ==
    /\ c \notin held
    /\ waiting = << >>
    /\ Cardinality(held) < Capacity
    /\ held' = held \cup {c}
    /\ UNCHANGED waiting

\* Every slot is taken: the caller goes to the back of the line.
Wait(c) ==
    /\ c \notin held \cup Waiters
    /\ Cardinality(held) >= Capacity
    /\ waiting' = Append(waiting, c)
    /\ UNCHANGED held

\* A slot is given back while nobody waits.
GiveBack(c) ==
    /\ c \in held
    /\ waiting = << >>
    /\ held' = held \ {c}
    /\ UNCHANGED waiting

\* A slot is given back and passes to the caller at the head of the line.
PassOn(c) ==
    /\ c \in held
    /\ waiting # << >>
    /\ held' = (held \ {c}) \cup {Head(waiting)}
    /\ waiting' = Tail(waiting)

Next == \E c \in Callers : Take(c) \/ Wait(c) \/ GiveBack(c) \/ PassOn(c)

Spec == Init /\ [][Next]_<<held, waiting>>
=============================================================================
