-------------------------------- MODULE Gate --------------------------------
(***************************************************************************)
(* bff/src/lib/gate.ts: one lane of the per-key gate that every chapter    *)
(* download (downloader.ts, key = source id) and every tracker push        *)
(* (trackers.ts) goes through.  A caller takes a slot or queues, then      *)
(* waits for the politeness gap, then runs.                                *)
(*                                                                         *)
(* Time is counted in units and kept as what is left until an instant, so  *)
(* a lane that is absent from the map and a fresh one (nextFreeAt = 0) are *)
(* the same state: active = 0, nothing queued, nextFree = 0.               *)
(*                                                                         *)
(* Node runs the continuation of a resolved promise in the microtask drain *)
(* that resolved it, and withGate resolves the queued caller before its    *)
(* own caller: nothing else of this lane runs between the two.  NoneWoken  *)
(* guards every other action with that.                                    *)
(***************************************************************************)
EXTENDS Naturals, Sequences, FiniteSets, SequencesExt

CONSTANTS
    Callers,        \* withGate calls in flight for one key (a caller calls again when done)
    Concurrency,    \* opts.concurrency
    MinGap          \* opts.minGapMs, in time units

ASSUME CallersAssumption == IsFiniteSet(Callers)
ASSUME ConcurrencyAssumption == Concurrency \in Nat \ {0}
ASSUME MinGapAssumption == MinGap \in Nat

VARIABLES
    pc,         \* where each caller is inside withGate
    active,     \* lane.active
    queue,      \* lane.queue: the callers whose resolve functions it holds
    nextFree,   \* time left until lane.nextFreeAt; 0 when it has passed
    left        \* time left of each caller's sleep(wait)

gateVars == <<pc, active, queue, nextFree, left>>

States == {"idle", "queued", "woken", "sleeping", "running"}

\* lane.active counts these: from active++ to active--.
InGate == {c \in Callers : pc[c] \in {"sleeping", "running"}}
Woken == {c \in Callers : pc[c] = "woken"}
NoneWoken == \A c \in Callers : pc[c] # "woken"

GateTypeOK ==
    /\ pc \in [Callers -> States]
    /\ active \in Nat
    /\ queue \in Seq(Callers)
    /\ nextFree \in 0 .. MinGap
    /\ left \in [Callers -> 0 .. MinGap]

GateInit ==
    /\ pc = [c \in Callers |-> "idle"]
    /\ active = 0
    /\ queue = << >>
    /\ nextFree = 0
    /\ left = [c \in Callers |-> 0]

\* lane.nextFreeAt = Date.now() + minGapMs, then fn() starts.
Start(c) ==
    /\ pc' = [pc EXCEPT ![c] = "running"]
    /\ nextFree' = MinGap
    /\ left' = [left EXCEPT ![c] = 0]

\* lane.active++ and the gap: sleep for what is left of it, or start now.
TakeSlot(c) ==
    /\ active' = active + 1
    /\ \/ nextFree = 0 /\ Start(c)
       \/ /\ nextFree > 0
          /\ pc' = [pc EXCEPT ![c] = "sleeping"]
          /\ left' = [left EXCEPT ![c] = nextFree]
          /\ UNCHANGED nextFree

\* withGate with a slot free: no await before active++.
Enter(c) ==
    /\ NoneWoken
    /\ pc[c] = "idle"
    /\ active < Concurrency
    /\ TakeSlot(c)
    /\ UNCHANGED queue

\* Mutant: unshift for push.
EnqueueFirst(c) ==
    /\ NoneWoken
    /\ pc[c] = "idle"
    /\ active >= Concurrency
    /\ pc' = [pc EXCEPT ![c] = "queued"]
    /\ queue' = <<c>> \o queue
    /\ UNCHANGED <<active, nextFree, left>>

\* withGate with every slot taken: the resolve function joins the queue.
Enqueue(c) ==
    /\ NoneWoken
    /\ pc[c] = "idle"
    /\ active >= Concurrency
    /\ pc' = [pc EXCEPT ![c] = "queued"]
    /\ queue' = Append(queue, c)
    /\ UNCHANGED <<active, nextFree, left>>

\* The continuation after the queue's await.
Resume(c) ==
    /\ pc[c] = "woken"
    /\ TakeSlot(c)
    /\ UNCHANGED queue

\* sleep(wait) resolves; a timer may fire late, never early.
SleepOver(c) ==
    /\ NoneWoken
    /\ pc[c] = "sleeping"
    /\ left[c] = 0
    /\ Start(c)
    /\ UNCHANGED <<active, queue>>

\* Mutant: pop for shift, the newest waiter goes first.
FinishWakingNewest(c) ==
    /\ NoneWoken
    /\ pc[c] = "running"
    /\ queue # << >>
    /\ active' = active - 1
    /\ queue' = Front(queue)
    /\ pc' = [pc EXCEPT ![c] = "idle", ![Last(queue)] = "woken"]
    /\ UNCHANGED <<nextFree, left>>

\* fn() settled, the finally block: the oldest queued caller is resolved.
FinishWaking(c) ==
    /\ NoneWoken
    /\ pc[c] = "running"
    /\ queue # << >>
    /\ active' = active - 1
    /\ queue' = Tail(queue)
    /\ pc' = [pc EXCEPT ![c] = "idle", ![Head(queue)] = "woken"]
    /\ UNCHANGED <<nextFree, left>>

\* The finally block with an empty queue: an idle lane is deleted, and its
\* nextFreeAt with it.
FinishQuiet(c) ==
    /\ NoneWoken
    /\ pc[c] = "running"
    /\ queue = << >>
    /\ active' = active - 1
    /\ pc' = [pc EXCEPT ![c] = "idle"]
    /\ nextFree' = IF active = 1 THEN 0 ELSE nextFree
    /\ UNCHANGED <<queue, left>>

\* Time left, one unit later; a wait that has passed stays passed.
Countdown(n) == IF n = 0 THEN 0 ELSE n - 1

\* Time passes while the process waits on timers or the network.
Tick ==
    /\ NoneWoken
    /\ nextFree' = Countdown(nextFree)
    /\ left' = [c \in Callers |-> Countdown(left[c])]
    /\ UNCHANGED <<pc, active, queue>>

Finish(c) == FinishWaking(c) \/ FinishQuiet(c)

GateNext ==
    \/ Tick
    \/ \E c \in Callers :
          Enter(c) \/ Enqueue(c) \/ Resume(c) \/ SleepOver(c) \/ FinishWaking(c) \/ FinishQuiet(c)

GateSpec == GateInit /\ [][GateNext]_gateVars

\* The clock runs, a due timer fires, and every fn() settles (each one is a
\* download or a request with a timeout of its own).  These are events of the
\* loop, which comes round to each however many microtask drains (Resume) lie
\* between, hence SF; a continuation just runs, hence WF.  Calling again is
\* the callers' choice and has no fairness.
GateFairness ==
    /\ SF_gateVars(Tick)
    /\ \A c \in Callers : WF_gateVars(Resume(c)) /\ SF_gateVars(SleepOver(c)) /\ SF_gateVars(Finish(c))

GateFairSpec == GateSpec /\ GateFairness

-----------------------------------------------------------------------------
(* Properties *)

\* gate.ts:26: no more than concurrency operations hold a slot at once,
\* counting the caller a finished operation has just handed its slot to.
AtMostConcurrency == Cardinality(InGate \cup Woken) <= Concurrency

\* The queue and the slots agree: callers wait only while every slot is in
\* use, so a finally block that loses a wake-up would show here.
NoIdleSlot == queue # << >> => active + Cardinality(Woken) >= Concurrency

\* A queued caller is in the queue exactly once; nobody else is (a caller
\* resolved twice, or dropped, would break it).
QueueIsTheQueued ==
    /\ ToSet(queue) = {c \in Callers : pc[c] = "queued"}
    /\ IsInjective(queue)

\* A call that found the lane full starts in the end.
EveryCallStarts == \A c \in Callers : (pc[c] = "queued") ~> (pc[c] = "running")

\* The lane hands out its slots as the abstract semaphore does; a handed-over
\* slot counts as held from the finally block on.
Semaphore == INSTANCE Slots WITH Capacity <- Concurrency, held <- InGate \cup Woken, waiting <- queue
ImplementsSlots == Semaphore!Spec
=============================================================================
