---------------------------- MODULE DownloadProofs ----------------------------
(***************************************************************************)
(* The path of a downloaded chapter: the lane of the gate it queues at     *)
(* (Gate), the fetch of its pages (ChapterFetch) and the file it becomes   *)
(* (ChapterFile).  Each part has its own inductive invariant; the three    *)
(* share no variable.                                                      *)
(***************************************************************************)
EXTENDS Gate, ChapterFetch, ChapterFile, FiniteSetTheorems, SequenceTheorems, WellFoundedInduction, TLAPS

-----------------------------------------------------------------------------
(***************************************************************************)
(* The gate.  For any number of callers, any concurrency and any gap: the  *)
(* lane never admits more than concurrency operations, never leaves a slot *)
(* idle while a caller is queued, never loses or duplicates a queued       *)
(* caller, and its observable behaviour is that of the abstract semaphore  *)
(* of Slots.tla.                                                           *)
(***************************************************************************)

\* lane.active is exact: one per caller between active++ and active--.
ActiveIsExact == active = Cardinality(InGate) /\ active <= Concurrency

\* At most one caller is between the resolve and its active++, and the slot
\* it was resolved for is still free.
OneHandover ==
    /\ \A c, d \in Callers : pc[c] = "woken" /\ pc[d] = "woken" => c = d
    /\ ~NoneWoken => active < Concurrency

\* Callers queue only while every slot is in use or being handed over.
FullWhileQueued ==
    queue # << >> => active = IF NoneWoken THEN Concurrency ELSE Concurrency - 1

GateInv == GateTypeOK /\ ActiveIsExact /\ OneHandover /\ FullWhileQueued /\ QueueIsTheQueued

-----------------------------------------------------------------------------
(* Sequences without repetition *)

\* Appending a new element to an injective sequence adds it to the range.
LEMMA AppendNew ==
    ASSUME NEW S, NEW s \in Seq(S), NEW e \in S
    PROVE  /\ ToSet(Append(s, e)) = ToSet(s) \cup {e}
           /\ IsInjective(s) /\ e \notin ToSet(s) => IsInjective(Append(s, e))
<1>1. /\ DOMAIN s = 1 .. Len(s)
      /\ DOMAIN Append(s, e) = 1 .. Len(s) + 1
      /\ Len(s) \in Nat
      /\ \A i \in 1 .. Len(s) : Append(s, e)[i] = s[i]
      /\ Append(s, e)[Len(s) + 1] = e
  BY AppendProperties, LenProperties
<1>2. ToSet(Append(s, e)) = ToSet(s) \cup {e}
  BY <1>1 DEF ToSet
<1>3. ASSUME IsInjective(s), e \notin ToSet(s)
      PROVE  IsInjective(Append(s, e))
  BY <1>1, <1>3 DEF ToSet, IsInjective
<1> QED BY <1>2, <1>3

\* Removing the head of an injective sequence removes it from the range.
LEMMA TailDropsHead ==
    ASSUME NEW S, NEW s \in Seq(S), s # << >>, IsInjective(s)
    PROVE  /\ Head(s) \in ToSet(s)
           /\ ToSet(Tail(s)) = ToSet(s) \ {Head(s)}
           /\ IsInjective(Tail(s))
<1>1. /\ Len(s) \in Nat \ {0}
      /\ DOMAIN s = 1 .. Len(s)
      /\ DOMAIN Tail(s) = 1 .. Len(s) - 1
      /\ \A i \in 1 .. Len(s) - 1 : Tail(s)[i] = s[i + 1]
      /\ Head(s) = s[1]
  BY HeadTailProperties, LenProperties, EmptySeq
<1>2. \A i \in 2 .. Len(s) : i - 1 \in 1 .. Len(s) - 1 /\ Tail(s)[i - 1] = s[i]
  BY <1>1
<1>3. ToSet(Tail(s)) = {s[i] : i \in 2 .. Len(s)}
  <2>1. ASSUME NEW x \in ToSet(Tail(s))
        PROVE  x \in {s[i] : i \in 2 .. Len(s)}
    <3>1. PICK j \in 1 .. Len(s) - 1 : x = s[j + 1]
      BY <2>1, <1>1 DEF ToSet
    <3> QED BY <3>1, <1>1
  <2>2. ASSUME NEW i \in 2 .. Len(s)
        PROVE  s[i] \in ToSet(Tail(s))
    BY <1>1, <1>2 DEF ToSet
  <2> QED BY <2>1, <2>2
<1>4. ToSet(s) = {s[1]} \cup {s[i] : i \in 2 .. Len(s)}
  BY <1>1 DEF ToSet
<1>5. s[1] \notin {s[i] : i \in 2 .. Len(s)}
  BY <1>1 DEF IsInjective
<1>6. IsInjective(Tail(s))
  BY <1>1 DEF IsInjective
<1> QED BY <1>1, <1>3, <1>4, <1>5, <1>6

-----------------------------------------------------------------------------
(* The slots in use *)

LEMMA InGateFinite ==
    /\ IsFiniteSet(InGate)
    /\ IsFiniteSet(Woken)
    /\ Cardinality(InGate) \in Nat
  BY CallersAssumption, FS_Subset, FS_CardinalityType DEF InGate, Woken

\* One more caller between active++ and active--.
LEMMA SlotTaken ==
    ASSUME NEW c \in Callers, c \notin InGate, InGate' = InGate \cup {c},
           active = Cardinality(InGate), active' = active + 1
    PROVE  active' = Cardinality(InGate')
  BY InGateFinite, FS_AddElement

\* One fewer.
LEMMA SlotReleased ==
    ASSUME NEW c \in Callers, c \in InGate, InGate' = InGate \ {c},
           active = Cardinality(InGate), active' = active - 1
    PROVE  active' = Cardinality(InGate') /\ active > 0 /\ active' \in Nat
<1>1. Cardinality(InGate) # 0
  BY InGateFinite, FS_EmptySet
<1>2. Cardinality(InGate \ {c}) = Cardinality(InGate) - 1
  BY InGateFinite, FS_RemoveElement
<1> QED BY <1>1, <1>2, InGateFinite

-----------------------------------------------------------------------------
(* The inductive invariant *)

LEMMA GateInitInv == GateInit => GateInv
<1> SUFFICES ASSUME GateInit PROVE GateInv
  OBVIOUS
<1>1. GateTypeOK
  BY ConcurrencyAssumption, MinGapAssumption DEF GateInit, GateTypeOK, States
<1>2. InGate = {} /\ NoneWoken
  BY DEF GateInit, InGate, NoneWoken
<1>3. ActiveIsExact
  BY <1>2, FS_EmptySet, ConcurrencyAssumption DEF GateInit, ActiveIsExact
<1>4. OneHandover
  BY <1>2 DEF OneHandover, NoneWoken
<1>5. FullWhileQueued
  BY DEF GateInit, FullWhileQueued
<1>6. QueueIsTheQueued
  BY DEF GateInit, QueueIsTheQueued, ToSet, IsInjective
<1> QED BY <1>1, <1>3, <1>4, <1>5, <1>6 DEF GateInv

\* A caller that takes a slot, whether it walked in or was handed one.
LEMMA TakeSlotKeeps ==
    ASSUME GateInv, NEW c \in Callers, TakeSlot(c), UNCHANGED queue,
           pc[c] \in {"idle", "woken"}, active < Concurrency,
           pc[c] = "idle" => NoneWoken
    PROVE  GateInv'
<1> USE DEF GateInv
<1>1. /\ pc' \in [Callers -> States]
      /\ pc'[c] \in {"sleeping", "running"}
      /\ \A d \in Callers \ {c} : pc'[d] = pc[d]
  BY DEF TakeSlot, Start, GateTypeOK, States
<1>2. GateTypeOK'
  BY <1>1, MinGapAssumption DEF GateTypeOK, TakeSlot, Start
<1>3. c \notin InGate /\ InGate' = InGate \cup {c}
  BY <1>1 DEF InGate
<1>4. active' = active + 1
  BY DEF TakeSlot
<1>5. ActiveIsExact'
  <2>1. active' = Cardinality(InGate')
    BY <1>3, <1>4, SlotTaken DEF ActiveIsExact
  <2>2. active' <= Concurrency
    BY <1>4, ConcurrencyAssumption DEF GateTypeOK
  <2> QED BY <2>1, <2>2 DEF ActiveIsExact
<1>6. NoneWoken'
  BY <1>1 DEF NoneWoken, OneHandover
<1>7. OneHandover'
  BY <1>6 DEF OneHandover, NoneWoken
<1>8. FullWhileQueued'
  BY <1>4, <1>6, ConcurrencyAssumption DEF FullWhileQueued, GateTypeOK
<1>9. QueueIsTheQueued'
  BY <1>1 DEF QueueIsTheQueued
<1> QED BY <1>2, <1>5, <1>7, <1>8, <1>9

LEMMA EnqueueKeeps ==
    ASSUME GateInv, NEW c \in Callers, Enqueue(c)
    PROVE  GateInv'
<1> USE DEF GateInv
<1>1. /\ pc[c] = "idle" /\ pc' = [pc EXCEPT ![c] = "queued"]
      /\ pc'[c] = "queued" /\ \A d \in Callers \ {c} : pc'[d] = pc[d]
      /\ queue' = Append(queue, c) /\ active' = active
  BY DEF Enqueue, GateTypeOK
<1>2. GateTypeOK'
  BY <1>1, AppendProperties DEF GateTypeOK, Enqueue, States
<1>3. InGate' = InGate /\ NoneWoken' /\ NoneWoken
  BY <1>1 DEF InGate, NoneWoken, Enqueue
<1>4. ActiveIsExact' /\ OneHandover'
  BY <1>1, <1>3 DEF ActiveIsExact, OneHandover, NoneWoken
<1>5. FullWhileQueued'
  BY <1>1, <1>3, ConcurrencyAssumption DEF FullWhileQueued, ActiveIsExact, GateTypeOK, Enqueue
<1>6. c \notin ToSet(queue)
  BY <1>1 DEF QueueIsTheQueued
<1>7. QueueIsTheQueued'
  BY <1>1, <1>6, AppendNew DEF QueueIsTheQueued, GateTypeOK
<1> QED BY <1>2, <1>4, <1>5, <1>7

LEMMA SleepOverKeeps ==
    ASSUME GateInv, NEW c \in Callers, SleepOver(c)
    PROVE  GateInv'
<1> USE DEF GateInv
<1>1. /\ pc[c] = "sleeping" /\ pc'[c] = "running"
      /\ \A d \in Callers \ {c} : pc'[d] = pc[d]
      /\ UNCHANGED <<active, queue>>
  BY DEF SleepOver, Start, GateTypeOK
<1>2. GateTypeOK'
  BY <1>1, MinGapAssumption DEF GateTypeOK, SleepOver, Start, States
<1>3. InGate' = InGate /\ (NoneWoken' <=> NoneWoken)
  BY <1>1 DEF InGate, NoneWoken
<1>4. ActiveIsExact' /\ OneHandover' /\ FullWhileQueued'
  BY <1>1, <1>3 DEF ActiveIsExact, OneHandover, FullWhileQueued
<1>5. QueueIsTheQueued'
  BY <1>1 DEF QueueIsTheQueued
<1> QED BY <1>2, <1>4, <1>5

\* The finally block that resolves the head of the queue.
LEMMA FinishWakingKeeps ==
    ASSUME GateInv, NEW c \in Callers, FinishWaking(c)
    PROVE  GateInv'
<1> USE DEF GateInv
<1> DEFINE h == Head(queue)
<1>1. /\ h \in Callers /\ pc[h] = "queued" /\ Tail(queue) \in Seq(Callers)
      /\ ToSet(Tail(queue)) = ToSet(queue) \ {h}
      /\ IsInjective(Tail(queue))
  BY TailDropsHead, HeadTailProperties DEF FinishWaking, QueueIsTheQueued, GateTypeOK
<1>2. /\ pc[c] = "running" /\ pc'[c] = "idle" /\ pc'[h] = "woken"
      /\ \A d \in Callers \ {c, h} : pc'[d] = pc[d]
      /\ pc' \in [Callers -> States]
      /\ active' = active - 1 /\ queue' = Tail(queue) /\ queue # << >> /\ NoneWoken
  BY <1>1 DEF FinishWaking, GateTypeOK, States
<1>3. c \in InGate /\ InGate' = InGate \ {c}
  BY <1>1, <1>2 DEF InGate
<1>4. active' = Cardinality(InGate') /\ active' \in Nat
  BY <1>2, <1>3, SlotReleased DEF ActiveIsExact
<1>5. GateTypeOK'
  BY <1>1, <1>2, <1>4 DEF GateTypeOK, FinishWaking
<1>6. ActiveIsExact'
  BY <1>2, <1>4, ConcurrencyAssumption DEF ActiveIsExact, GateTypeOK
<1>7. \A d \in Callers : pc'[d] = "woken" <=> d = h
  BY <1>1, <1>2 DEF NoneWoken
<1>8. ~NoneWoken'
  BY <1>1, <1>7 DEF NoneWoken
<1>9. OneHandover'
  BY <1>2, <1>7, ConcurrencyAssumption DEF OneHandover, ActiveIsExact, GateTypeOK
<1>10. FullWhileQueued'
  BY <1>2, <1>8, ConcurrencyAssumption DEF FullWhileQueued, GateTypeOK
<1>11. QueueIsTheQueued'
  BY <1>1, <1>2 DEF QueueIsTheQueued
<1> QED BY <1>5, <1>6, <1>9, <1>10, <1>11

LEMMA FinishQuietKeeps ==
    ASSUME GateInv, NEW c \in Callers, FinishQuiet(c)
    PROVE  GateInv'
<1> USE DEF GateInv
<1>1. /\ pc[c] = "running" /\ pc'[c] = "idle"
      /\ \A d \in Callers \ {c} : pc'[d] = pc[d]
      /\ active' = active - 1 /\ queue' = queue /\ queue = << >> /\ NoneWoken
  BY DEF FinishQuiet, GateTypeOK
<1>2. c \in InGate /\ InGate' = InGate \ {c}
  BY <1>1 DEF InGate
<1>3. active' = Cardinality(InGate') /\ active' \in Nat
  BY <1>1, <1>2, SlotReleased DEF ActiveIsExact
<1>4. GateTypeOK'
  BY <1>3, MinGapAssumption DEF GateTypeOK, FinishQuiet, States
<1>5. ActiveIsExact'
  BY <1>1, <1>3, ConcurrencyAssumption DEF ActiveIsExact, GateTypeOK
<1>6. NoneWoken' /\ OneHandover' /\ FullWhileQueued'
  BY <1>1 DEF NoneWoken, OneHandover, FullWhileQueued
<1>7. QueueIsTheQueued'
  BY <1>1 DEF QueueIsTheQueued
<1> QED BY <1>4, <1>5, <1>6, <1>7

LEMMA TickKeeps == ASSUME GateInv, Tick PROVE GateInv'
<1>1. GateTypeOK'
  BY MinGapAssumption DEF GateInv, GateTypeOK, Tick, Countdown
<1>2. UNCHANGED <<pc, active, queue>>
  BY DEF Tick
<1> QED BY <1>1, <1>2 DEF GateInv, ActiveIsExact, InGate, OneHandover, FullWhileQueued, NoneWoken, QueueIsTheQueued

LEMMA GateNextInv == GateInv /\ [GateNext]_gateVars => GateInv'
<1> SUFFICES ASSUME GateInv, [GateNext]_gateVars PROVE GateInv'
  OBVIOUS
<1>1. CASE Tick
  BY <1>1, TickKeeps
<1>2. ASSUME NEW c \in Callers, Enter(c) PROVE GateInv'
  BY <1>2, TakeSlotKeeps DEF Enter
<1>3. ASSUME NEW c \in Callers, Enqueue(c) PROVE GateInv'
  BY <1>3, EnqueueKeeps
<1>4. ASSUME NEW c \in Callers, Resume(c) PROVE GateInv'
  <2>1. ~NoneWoken /\ active < Concurrency
    BY <1>4 DEF Resume, GateInv, OneHandover, NoneWoken
  <2> QED BY <1>4, <2>1, TakeSlotKeeps DEF Resume
<1>5. ASSUME NEW c \in Callers, SleepOver(c) PROVE GateInv'
  BY <1>5, SleepOverKeeps
<1>6. ASSUME NEW c \in Callers, FinishWaking(c) PROVE GateInv'
  BY <1>6, FinishWakingKeeps
<1>7. ASSUME NEW c \in Callers, FinishQuiet(c) PROVE GateInv'
  BY <1>7, FinishQuietKeeps
<1>8. CASE UNCHANGED gateVars
  BY <1>8 DEF GateInv, GateTypeOK, ActiveIsExact, InGate, OneHandover, FullWhileQueued, NoneWoken,
              QueueIsTheQueued, gateVars
<1> QED BY <1>1, <1>2, <1>3, <1>4, <1>5, <1>6, <1>7, <1>8 DEF GateNext

\* The strengthening the safety theorems rest on: the slot count is exact,
\* at most one slot is being handed over, and the queue and the slots agree.
THEOREM GateInductiveInvariant == GateSpec => []GateInv
  BY GateInitInv, GateNextInv, PTL DEF GateSpec

-----------------------------------------------------------------------------
(* What follows from it *)

\* Slots in use and the one being handed over, counted together.
LEMMA HeldCount ==
    ASSUME GateInv
    PROVE  /\ IsFiniteSet(InGate \cup Woken)
           /\ Cardinality(Woken) = IF NoneWoken THEN 0 ELSE 1
           /\ Cardinality(InGate \cup Woken) = active + Cardinality(Woken)
<1>1. CASE NoneWoken
  <2>1. Woken = {} /\ InGate \cup Woken = InGate
    BY <1>1 DEF Woken, NoneWoken
  <2>2. Cardinality(Woken) = 0
    BY <2>1, FS_EmptySet
  <2> QED BY <1>1, <2>1, <2>2, InGateFinite DEF GateInv, ActiveIsExact
<1>2. CASE ~NoneWoken
  <2>1. PICK c \in Callers : pc[c] = "woken"
    BY <1>2 DEF NoneWoken
  <2>2. Woken = {c} /\ c \notin InGate
    BY <2>1 DEF Woken, InGate, GateInv, OneHandover
  <2>3. Cardinality({c}) = 1
    BY FS_Singleton
  <2>4. Cardinality(InGate \cup {c}) = Cardinality(InGate) + 1 /\ IsFiniteSet(InGate \cup {c})
    BY <2>2, InGateFinite, FS_AddElement
  <2> QED BY <1>2, <2>2, <2>3, <2>4 DEF GateInv, ActiveIsExact
<1> QED BY <1>1, <1>2

\* gate.ts: for every number of callers, concurrency and gap, at most
\* concurrency operations of one key hold a slot at once.
THEOREM BoundedConcurrency == GateSpec => []AtMostConcurrency
<1>1. GateInv => AtMostConcurrency
  BY HeldCount, ConcurrencyAssumption DEF AtMostConcurrency, GateInv, GateTypeOK, ActiveIsExact, OneHandover
<1> QED BY <1>1, GateInductiveInvariant, PTL

\* gate.ts, the finally block: no wake-up is lost, a caller is queued only
\* while every slot is in use or on its way to the next caller.
THEOREM WorkConserving == GateSpec => []NoIdleSlot
<1>1. GateInv => NoIdleSlot
  BY HeldCount, ConcurrencyAssumption DEF NoIdleSlot, GateInv, GateTypeOK, FullWhileQueued
<1> QED BY <1>1, GateInductiveInvariant, PTL

\* gate.ts: each waiting call is in the lane's queue exactly once, and nobody
\* else is.
THEOREM QueueExact == GateSpec => []QueueIsTheQueued
  BY GateInductiveInvariant, PTL DEF GateInv

\* gate.ts: the type invariant, for every value of the constants.
THEOREM GateTypeCorrect == GateSpec => []GateTypeOK
  BY GateInductiveInvariant, PTL DEF GateInv

-----------------------------------------------------------------------------
(* The lane implements the abstract semaphore *)

LEMMA RefineInit == GateInit => Semaphore!Init
  BY DEF GateInit, Semaphore!Init, InGate, Woken

\* The abstract module counts with the same Cardinality.
LEMMA SameCardinality == \A S : Semaphore!Cardinality(S) = Cardinality(S)
  BY Zenon DEF Semaphore!Cardinality, Cardinality, Semaphore!IsFiniteSet, IsFiniteSet

LEMMA RefineEnter ==
    ASSUME GateInv, NEW c \in Callers, Enter(c)
    PROVE  Semaphore!Take(c)
<1>1. /\ pc[c] = "idle" /\ NoneWoken /\ active < Concurrency /\ UNCHANGED queue
      /\ pc'[c] \in {"sleeping", "running"}
      /\ \A d \in Callers \ {c} : pc'[d] = pc[d]
  BY DEF Enter, TakeSlot, Start, GateInv, GateTypeOK
<1>2. queue = << >>
  BY <1>1, ConcurrencyAssumption DEF GateInv, FullWhileQueued, GateTypeOK
<1>3. Cardinality(InGate \cup Woken) < Concurrency
  BY <1>1, HeldCount DEF GateInv, GateTypeOK
<1>4. /\ c \notin InGate \cup Woken
      /\ (InGate \cup Woken)' = (InGate \cup Woken) \cup {c}
  BY <1>1 DEF InGate, Woken, NoneWoken
<1> QED BY <1>1, <1>2, <1>3, <1>4, SameCardinality DEF Semaphore!Take

LEMMA RefineEnqueue ==
    ASSUME GateInv, NEW c \in Callers, Enqueue(c)
    PROVE  Semaphore!Wait(c)
<1>1. /\ pc[c] = "idle" /\ NoneWoken /\ active >= Concurrency /\ queue' = Append(queue, c)
      /\ pc'[c] = "queued"
      /\ \A d \in Callers \ {c} : pc'[d] = pc[d]
  BY DEF Enqueue, GateInv, GateTypeOK
<1>2. c \notin {queue[i] : i \in DOMAIN queue}
  BY <1>1 DEF GateInv, QueueIsTheQueued, ToSet
<1>3. Cardinality(InGate \cup Woken) >= Concurrency
  BY <1>1, HeldCount DEF GateInv, GateTypeOK
<1>4. /\ c \notin InGate \cup Woken
      /\ (InGate \cup Woken)' = InGate \cup Woken
  BY <1>1 DEF InGate, Woken
<1> QED BY <1>1, <1>2, <1>3, <1>4, SameCardinality DEF Semaphore!Wait, Semaphore!Waiters

LEMMA RefineFinishWaking ==
    ASSUME GateInv, NEW c \in Callers, FinishWaking(c)
    PROVE  Semaphore!PassOn(c)
<1> DEFINE h == Head(queue)
<1>1. h \in Callers /\ pc[h] = "queued"
  BY TailDropsHead, HeadTailProperties DEF FinishWaking, QueueIsTheQueued, GateTypeOK, GateInv
<1>2. /\ pc[c] = "running" /\ pc'[c] = "idle" /\ pc'[h] = "woken"
      /\ \A d \in Callers \ {c, h} : pc'[d] = pc[d]
      /\ queue' = Tail(queue) /\ queue # << >>
  BY <1>1 DEF FinishWaking, GateInv, GateTypeOK
<1>3. c \in InGate \cup Woken /\ (InGate \cup Woken)' = ((InGate \cup Woken) \ {c}) \cup {h}
  BY <1>1, <1>2 DEF InGate, Woken
<1> QED BY <1>2, <1>3 DEF Semaphore!PassOn

LEMMA RefineFinishQuiet ==
    ASSUME GateInv, NEW c \in Callers, FinishQuiet(c)
    PROVE  Semaphore!GiveBack(c)
<1>1. /\ pc[c] = "running" /\ pc'[c] = "idle" /\ queue = << >> /\ UNCHANGED queue
      /\ \A d \in Callers \ {c} : pc'[d] = pc[d]
  BY DEF FinishQuiet, GateInv, GateTypeOK
<1>2. c \in InGate \cup Woken /\ (InGate \cup Woken)' = (InGate \cup Woken) \ {c}
  BY <1>1 DEF InGate, Woken
<1> QED BY <1>1, <1>2 DEF Semaphore!GiveBack

\* The continuation, the timer and the clock change nothing a caller sees.
LEMMA RefineStutter ==
    ASSUME GateInv, NEW c \in Callers, Resume(c) \/ SleepOver(c) \/ Tick
    PROVE  UNCHANGED <<InGate \cup Woken, queue>>
<1>1. CASE Resume(c)
  <2>1. /\ pc[c] = "woken" /\ pc'[c] \in {"sleeping", "running"} /\ UNCHANGED queue
        /\ \A d \in Callers \ {c} : pc'[d] = pc[d]
    BY <1>1 DEF Resume, TakeSlot, Start, GateInv, GateTypeOK
  <2> QED BY <2>1 DEF InGate, Woken
<1>2. CASE SleepOver(c)
  <2>1. /\ pc[c] = "sleeping" /\ pc'[c] = "running" /\ UNCHANGED queue
        /\ \A d \in Callers \ {c} : pc'[d] = pc[d]
    BY <1>2 DEF SleepOver, Start, GateInv, GateTypeOK
  <2> QED BY <2>1 DEF InGate, Woken
<1>3. CASE Tick
  BY <1>3 DEF Tick, InGate, Woken
<1> QED BY <1>1, <1>2, <1>3

LEMMA RefineNext ==
    GateInv /\ [GateNext]_gateVars => [Semaphore!Next]_<<InGate \cup Woken, queue>>
<1> SUFFICES ASSUME GateInv, [GateNext]_gateVars
             PROVE  [Semaphore!Next]_<<InGate \cup Woken, queue>>
  OBVIOUS
<1>1. CASE Tick
  BY <1>1 DEF Tick, InGate, Woken
<1>2. ASSUME NEW c \in Callers, Enter(c) PROVE Semaphore!Next
  BY <1>2, RefineEnter DEF Semaphore!Next
<1>3. ASSUME NEW c \in Callers, Enqueue(c) PROVE Semaphore!Next
  BY <1>3, RefineEnqueue DEF Semaphore!Next
<1>4. ASSUME NEW c \in Callers, FinishWaking(c) PROVE Semaphore!Next
  BY <1>4, RefineFinishWaking DEF Semaphore!Next
<1>5. ASSUME NEW c \in Callers, FinishQuiet(c) PROVE Semaphore!Next
  BY <1>5, RefineFinishQuiet DEF Semaphore!Next
<1>6. ASSUME NEW c \in Callers, Resume(c) \/ SleepOver(c)
      PROVE  UNCHANGED <<InGate \cup Woken, queue>>
  BY <1>6, RefineStutter
<1>7. CASE UNCHANGED gateVars
  BY <1>7 DEF gateVars, InGate, Woken
<1> QED BY <1>1, <1>2, <1>3, <1>4, <1>5, <1>6, <1>7 DEF GateNext

\* gate.ts: whatever the timers and the microtasks do, the callers of one key
\* see a first-come first-served semaphore with concurrency slots.
THEOREM Refinement == GateSpec => ImplementsSlots
  BY RefineInit, RefineNext, GateInductiveInvariant, PTL
     DEF GateSpec, ImplementsSlots, Semaphore!Spec

-----------------------------------------------------------------------------
(***************************************************************************)
(* The fetch.  For any number of pages and resume rounds, any page count   *)
(* the source declares and any answers it gives: what is written is whole, *)
(* no page is asked for in vain, rate limits cost only time, and the blame *)
(* is the one the callers rely on.                                         *)
(***************************************************************************)

\* A pass asks for missing pages only, and none is left over between passes.
AsksForGaps ==
    /\ todo \subseteq Gaps
    /\ phase \notin {"first", "round"} => todo = {}

\* Each pass asks for each page once, so the rounds bound the requests.
AskedByRound ==
    \A i \in Pages :
        /\ phase \in {"listing", "first"} /\ (phase = "listing" \/ i \in todo) => asked[i] = 0
        /\ phase = "first" => asked[i] <= 1
        /\ phase = "round" => asked[i] <= IF i \in todo THEN 1 + round ELSE 2 + round
        /\ phase \in {"between", "writing", "done"} => asked[i] <= 1 + round

RoundsLeft == /\ phase = "round" => round < MaxResumes
              /\ phase \in {"listing", "first"} => round = 0

\* worst is an answer that came, and a wait was asked for by a 429.
BlameIsFromAnswers ==
    /\ worst \in {0} \cup seen
    /\ mustWait => 429 \in seen
    /\ \A i \in Pages : last[i] # NotAsked => last[i] \in seen

\* Nothing arrived and nobody said wait: there is no second pass.
NoSecondPass ==
    (Got = {} /\ 429 \notin seen) => round = 0 /\ phase # "round"

\* What the caller is told, by the verdict.
Verdict ==
    /\ phase \in {"first", "round", "between"} => result = Pending
    /\ phase = "listing" => result = Pending /\ seen = {}
    /\ phase = "writing" => result = [Pending EXCEPT !.report = "ok"]
    /\ phase = "writing" \/ result.written => Cardinality(Got) >= Expected

\* A pass ends at its first 429, so the rounds bound them ...
LimitsByRound ==
    /\ limits <= 1 + round + (IF phase = "round" /\ mustWait THEN 1 ELSE 0)
    /\ phase \in {"listing", "first"} /\ ~mustWait => limits = 0

\* ... and where nothing else goes wrong, every pass that leaves a gap met one.
EachPassMetALimit ==
    seen \subseteq {Image, 429} =>
        /\ phase \in {"first", "round"} => mustWait \/ todo = Gaps
        /\ phase = "first" /\ mustWait => limits >= 1
        /\ phase = "round" => limits >= 1 + round + (IF mustWait THEN 1 ELSE 0)
        /\ phase = "between" /\ Gaps # {} => mustWait /\ limits >= 1 + round
        /\ phase = "writing" => result.report = "ok"

FetchInv ==
    /\ FetchTypeOK /\ AsksForGaps /\ AskedByRound /\ RoundsLeft /\ BlameIsFromAnswers /\ NoSecondPass
    /\ LimitsByRound /\ EachPassMetALimit /\ RateLimitsAreWaitedOut
    /\ Verdict
    /\ NothingAskedWhileToldToWait
    /\ OutageIsNotARefusal
    /\ BlockIsReported

-----------------------------------------------------------------------------
(* Lemmas *)

\* The next page of a pass is one of its pages.
LEMMA MinInSet ==
    ASSUME NEW S \in SUBSET Nat, S # {}
    PROVE  Min(S) \in S
<1> DEFINE Less == {p \in Nat \X Nat : p[1] < p[2]}
<1>1. IsWellFoundedOn(Less, Nat)
  BY NatLessThanWellFounded DEF OpToRel
<1>2. PICK x \in S : \A y \in S : <<y, x>> \notin Less
  <2> HIDE DEF Less
  <2> QED BY <1>1, WFMin
<1>3. ASSUME NEW y \in S
      PROVE  x <= y
  <2>1. <<y, x>> \in Nat \X Nat /\ ~(y < x)
    BY <1>2
  <2> QED BY <2>1
<1> QED BY <1>3 DEF Min

LEMMA BlameForType ==
    ASSUME NEW status PROVE BlameFor(status) \in Statuses
  BY DEF BlameFor, Classified, Statuses

LEMMA GotIsFinite == IsFiniteSet(Got) /\ Cardinality(Got) \in Nat /\ Cardinality(Got) <= NPages
<1>1. IsFiniteSet(Pages) /\ Cardinality(Pages) = NPages
  BY PagesAssumption, FS_Interval DEF Pages
<1>2. Got \subseteq Pages
  BY DEF Got
<1> QED BY <1>1, <1>2, FS_Subset, FS_CardinalityType

\* As many images as pages: none is missing.
LEMMA AllGot == Cardinality(Got) >= NPages => Gaps = {}
<1>1. IsFiniteSet(Pages) /\ Cardinality(Pages) = NPages
  BY PagesAssumption, FS_Interval DEF Pages
<1>2. Got \subseteq Pages
  BY DEF Got
<1>3. ASSUME Cardinality(Got) >= NPages
      PROVE  Got = Pages
  <2>1. Cardinality(Got) = Cardinality(Pages)
    BY <1>1, <1>3, GotIsFinite, PagesAssumption
  <2> QED BY <1>1, <1>2, <2>1, FS_Subset
<1> QED BY <1>3 DEF Gaps

LEMMA FetchInitInv == FetchInit => FetchInv
<1> SUFFICES ASSUME FetchInit PROVE FetchInv
  OBVIOUS
<1>1. FetchTypeOK
  <2>1. asked \in [Pages -> 0 .. 1 + MaxResumes] /\ round \in 0 .. MaxResumes /\ limits \in 0 .. 1 + MaxResumes
    BY ResumesAssumption DEF FetchInit
  <2>2. result \in [written : BOOLEAN, report : Statuses \cup {"none", "ok"}, block : Statuses \cup {"none"}]
    BY DEF FetchInit, Pending
  <2> QED BY <2>1, <2>2 DEF FetchInit, FetchTypeOK
<1>2. AsksForGaps /\ AskedByRound /\ RoundsLeft /\ BlameIsFromAnswers /\ NoSecondPass
  BY DEF FetchInit, AsksForGaps, AskedByRound, RoundsLeft, BlameIsFromAnswers, NoSecondPass
<1>4. LimitsByRound /\ EachPassMetALimit /\ RateLimitsAreWaitedOut
  BY DEF FetchInit, LimitsByRound, EachPassMetALimit, RateLimitsAreWaitedOut, Done
<1>3. Verdict /\ NothingAskedWhileToldToWait /\ OutageIsNotARefusal /\ BlockIsReported
  BY DEF FetchInit, Verdict, Pending, NothingAskedWhileToldToWait, OutageIsNotARefusal, BlockIsReported, Done, Listed
<1> QED BY <1>1, <1>2, <1>3, <1>4 DEF FetchInv

-----------------------------------------------------------------------------
(* The list, and the passes *)

LEMMA ListKeeps ==
    ASSUME FetchInv, ListFails \/ NoUrls \/ List
    PROVE  FetchInv'
<1>1. /\ phase = "listing" /\ phase' \in {"done", "first"}
      /\ UNCHANGED <<declared, last, asked, seen, limits, worst, mustWait, round>>
      /\ seen = {} /\ result = Pending /\ todo = {}
  BY DEF ListFails, NoUrls, List, FetchInv, Verdict, AsksForGaps
<1>2. todo' = IF phase' = "first" THEN Pages ELSE {}
  BY <1>1 DEF ListFails, NoUrls, List
<1>3. /\ result' \in [written : {FALSE}, report : Statuses \cup {"none"}, block : {"none"}]
      /\ phase' = "first" => result' = Pending
  <2>1. Pending \in [written : {FALSE}, report : Statuses \cup {"none"}, block : {"none"}]
    BY DEF Pending
  <2>2. CASE ListFails
    BY <2>1, <2>2 DEF ListFails, Pending
  <2>3. CASE NoUrls \/ List
    BY <1>1, <2>1, <2>3 DEF NoUrls, List
  <2> QED BY <2>2, <2>3
<1>4. FetchTypeOK'
  BY <1>1, <1>2, <1>3 DEF FetchInv, FetchTypeOK
<1>5. last = [i \in Pages |-> NotAsked]
  BY <1>1 DEF FetchInv, BlameIsFromAnswers, FetchTypeOK
<1>6. AsksForGaps'
  BY <1>1, <1>2, <1>5 DEF AsksForGaps, Gaps, Got, NotAsked, Image
<1>7. AskedByRound' /\ RoundsLeft' /\ BlameIsFromAnswers' /\ NoSecondPass'
  BY <1>1, <1>2, ResumesAssumption
     DEF FetchInv, FetchTypeOK, AskedByRound, RoundsLeft, BlameIsFromAnswers, NoSecondPass, Got
<1>8. Verdict'
  BY <1>1, <1>2, <1>3 DEF Verdict, Pending
<1>9. NothingAskedWhileToldToWait' /\ OutageIsNotARefusal' /\ BlockIsReported'
  BY <1>1, <1>2, <1>3
     DEF FetchInv, BlameIsFromAnswers, NothingAskedWhileToldToWait, OutageIsNotARefusal, BlockIsReported, Done, Listed
<1>10. LimitsByRound' /\ EachPassMetALimit' /\ RateLimitsAreWaitedOut'
  <2>1. LimitsByRound'
    BY <1>1 DEF FetchInv, BlameIsFromAnswers, LimitsByRound
  <2>2. phase' = "first" => todo' = Gaps'
    BY <1>1, <1>2, <1>5 DEF Gaps, Got, NotAsked, Image
  <2> QED BY <1>1, <2>1, <2>2
          DEF FetchInv, BlameIsFromAnswers, EachPassMetALimit, RateLimitsAreWaitedOut, OnlyRateLimits, Listed
<1> QED BY <1>4, <1>6, <1>7, <1>8, <1>9, <1>10 DEF FetchInv

LEMMA FetchPageKeeps ==
    ASSUME FetchInv, NEW a \in Answers, FetchPage(a)
    PROVE  FetchInv'
<1> DEFINE i == Min(todo)
<1>1. /\ phase \in {"first", "round"} /\ todo # {} /\ i \in todo /\ i \in Pages
      /\ UNCHANGED <<phase, declared, round, result>>
  <2>1. todo \in SUBSET Nat /\ todo \subseteq Pages
    BY DEF FetchInv, FetchTypeOK, Pages
  <2> QED BY <2>1, MinInSet DEF FetchPage
<1>2. /\ last' = [last EXCEPT ![i] = a]
      /\ seen' = seen \cup {a}
      /\ todo' \subseteq todo \ {i} /\ (a = 429 => todo' = {})
  BY DEF FetchPage, Remaining
<1> HIDE DEF i
<1>3. asked[i] <= 1 + MaxResumes /\ asked[i] \in Nat /\ asked' = [asked EXCEPT ![i] = @ + 1]
  <2>1. asked[i] \in 0 .. 1 + MaxResumes
    BY <1>1 DEF FetchInv, FetchTypeOK
  <2>2. asked[i] # Cap
    BY <2>1, ResumesAssumption DEF Cap
  <2>3. asked' = [asked EXCEPT ![i] = IF @ = Cap THEN Cap ELSE @ + 1]
    BY DEF FetchPage, i
  <2> QED BY <2>1, <2>2, <2>3, ResumesAssumption
<1>4. asked[i] < 1 + MaxResumes
  BY <1>1, <1>3, ResumesAssumption DEF FetchInv, FetchTypeOK, AskedByRound, RoundsLeft
<1>5. worst' \in {0} \cup seen' /\ worst' \in {0} \cup Answers /\ (mustWait' <=> mustWait \/ a = 429)
  BY <1>2 DEF FetchPage, Larger, FetchInv, BlameIsFromAnswers, FetchTypeOK, i
<1>6. ~mustWait
  BY <1>1 DEF FetchInv, NothingAskedWhileToldToWait
<1>7. Got \subseteq Got' /\ i \notin Got
  BY <1>1, <1>2 DEF FetchInv, FetchTypeOK, AsksForGaps, Gaps, Got
<1>16. limits' = (IF a = 429 THEN limits + 1 ELSE limits) /\ limits \in 0 .. MaxResumes
  <2>1. limits \in 0 .. 1 + MaxResumes /\ limits <= MaxResumes
    BY <1>1, <1>6, ResumesAssumption DEF FetchInv, FetchTypeOK, LimitsByRound, RoundsLeft
  <2> QED BY <2>1, ResumesAssumption DEF FetchPage, Cap
<1>8. FetchTypeOK'
  BY <1>1, <1>2, <1>3, <1>4, <1>5, <1>16, ResumesAssumption DEF FetchPage, FetchInv, FetchTypeOK
<1>9. AsksForGaps'
  BY <1>1, <1>2 DEF FetchInv, FetchTypeOK, AsksForGaps, Gaps, Got
<1>10. AskedByRound'
  BY <1>1, <1>2, <1>3 DEF FetchInv, FetchTypeOK, AskedByRound, RoundsLeft
<1>11. RoundsLeft'
  BY <1>1 DEF FetchInv, RoundsLeft
<1>12. BlameIsFromAnswers'
  BY <1>1, <1>2, <1>5 DEF FetchInv, FetchTypeOK, BlameIsFromAnswers
<1>13. NoSecondPass'
  BY <1>1, <1>2, <1>7 DEF FetchInv, NoSecondPass
<1>14. Verdict'
  BY <1>1 DEF FetchInv, Verdict, Pending
<1>15. NothingAskedWhileToldToWait' /\ OutageIsNotARefusal' /\ BlockIsReported'
  BY <1>1, <1>2, <1>5, <1>6
     DEF NothingAskedWhileToldToWait, OutageIsNotARefusal, BlockIsReported, Done
<1>17. LimitsByRound'
  BY <1>1, <1>5, <1>6, <1>16 DEF FetchInv, FetchTypeOK, LimitsByRound
<1>18. EachPassMetALimit'
  <2> SUFFICES ASSUME seen' \subseteq {Image, 429} PROVE EachPassMetALimit'
    BY DEF EachPassMetALimit
  <2>1. seen \subseteq {Image, 429} /\ a \in {Image, 429} /\ todo = Gaps
    BY <1>1, <1>2, <1>6 DEF FetchInv, EachPassMetALimit
  <2>2. CASE a = 429
    BY <1>1, <1>5, <1>6, <1>16, <2>1, <2>2 DEF FetchInv, FetchTypeOK, EachPassMetALimit
  <2>3. CASE a = Image
    <3>1. ~mustWait' /\ limits' = limits
      BY <1>5, <1>6, <1>16, <2>3 DEF Image
    <3>2. todo' = todo \ {i} /\ Gaps' = Gaps \ {i}
      BY <1>1, <1>2, <2>3 DEF FetchPage, Remaining, i, Gaps, Got, Image, FetchInv, FetchTypeOK
    <3> QED BY <1>1, <1>6, <2>1, <3>1, <3>2 DEF FetchInv, EachPassMetALimit
  <2> QED BY <2>1, <2>2, <2>3
<1>19. RateLimitsAreWaitedOut'
  BY <1>1 DEF RateLimitsAreWaitedOut, Done
<1> QED BY <1>8, <1>9, <1>10, <1>11, <1>12, <1>13, <1>14, <1>15, <1>17, <1>18, <1>19 DEF FetchInv

LEMMA PassEndsKeeps ==
    ASSUME FetchInv, PassEnds
    PROVE  FetchInv'
<1>1. /\ phase \in {"first", "round"} /\ phase' = "between" /\ todo = {}
      /\ round' = IF phase = "round" THEN round + 1 ELSE 0
      /\ UNCHANGED <<declared, last, asked, seen, limits, worst, mustWait, todo, result>>
  BY DEF PassEnds
<1>2. FetchTypeOK' /\ RoundsLeft'
  BY <1>1, ResumesAssumption DEF FetchInv, FetchTypeOK, RoundsLeft
<1>3. AsksForGaps' /\ AskedByRound' /\ BlameIsFromAnswers' /\ NoSecondPass'
  BY <1>1, ResumesAssumption
     DEF FetchInv, FetchTypeOK, AsksForGaps, Gaps, Got, AskedByRound, RoundsLeft, BlameIsFromAnswers, NoSecondPass
<1>4. Verdict'
  BY <1>1 DEF FetchInv, Verdict, Pending, Got, Expected
<1>5. NothingAskedWhileToldToWait' /\ OutageIsNotARefusal' /\ BlockIsReported'
  BY <1>1 DEF FetchInv, NothingAskedWhileToldToWait, OutageIsNotARefusal, BlockIsReported, Done
<1>6. LimitsByRound' /\ RateLimitsAreWaitedOut'
  BY <1>1 DEF FetchInv, FetchTypeOK, LimitsByRound, RoundsLeft, RateLimitsAreWaitedOut, Done
<1>7. EachPassMetALimit'
  <2>1. Gaps' = Gaps
    BY <1>1 DEF Gaps, Got
  <2> QED BY <1>1, <2>1 DEF FetchInv, FetchTypeOK, EachPassMetALimit, RoundsLeft
<1> QED BY <1>2, <1>3, <1>4, <1>5, <1>6, <1>7 DEF FetchInv

LEMMA ResumeRoundKeeps ==
    ASSUME FetchInv, ResumeRound
    PROVE  FetchInv'
<1>1. /\ phase = "between" /\ phase' = "round" /\ todo' = Gaps /\ ~mustWait' /\ mustWait' \in BOOLEAN
      /\ round < MaxResumes /\ (Gaps = Pages => mustWait)
      /\ UNCHANGED <<declared, last, asked, seen, limits, worst, round, result>>
  BY DEF ResumeRound, AnotherRound
<1>2. FetchTypeOK'
  BY <1>1 DEF FetchInv, FetchTypeOK, Gaps
<1>3. AsksForGaps' /\ AskedByRound' /\ RoundsLeft' /\ BlameIsFromAnswers'
  BY <1>1, ResumesAssumption
     DEF FetchInv, FetchTypeOK, AsksForGaps, Gaps, Got, AskedByRound, RoundsLeft, BlameIsFromAnswers
<1>4. NoSecondPass'
  BY <1>1 DEF FetchInv, NoSecondPass, BlameIsFromAnswers, Gaps, Got
<1>5. Verdict'
  BY <1>1 DEF FetchInv, Verdict, Pending, Got, Expected
<1>6. NothingAskedWhileToldToWait' /\ OutageIsNotARefusal' /\ BlockIsReported'
  BY <1>1 DEF FetchInv, NothingAskedWhileToldToWait, OutageIsNotARefusal, BlockIsReported, Done
<1>7. LimitsByRound' /\ RateLimitsAreWaitedOut'
  BY <1>1 DEF FetchInv, FetchTypeOK, LimitsByRound, RateLimitsAreWaitedOut, Done
<1>8. EachPassMetALimit'
  <2>1. Gaps' = Gaps /\ Gaps # {}
    BY <1>1 DEF Gaps, Got, ResumeRound, AnotherRound
  <2> QED BY <1>1, <2>1 DEF FetchInv, FetchTypeOK, EachPassMetALimit
<1> QED BY <1>2, <1>3, <1>4, <1>5, <1>6, <1>7, <1>8 DEF FetchInv

-----------------------------------------------------------------------------
(* The verdict *)

\* A fetch met by images, empty bodies and lost connections only is blamed
\* on an outage.
LEMMA SentinelsAreDown ==
    ASSUME FetchInv, seen \subseteq {Image, EmptyBody, NetError}
    PROVE  worst < 400 /\ BlameFor(worst) = "down"
  BY DEF FetchInv, BlameIsFromAnswers, BlameFor, Image, EmptyBody, NetError

\* A verdict on a fetch that met nothing worse than 429s, few enough of them,
\* is passed on a whole chapter.
LEMMA WaitedOut ==
    ASSUME FetchInv, Judging, seen \subseteq {Image, 429}, Expected <= NPages, limits <= MaxResumes
    PROVE  Got # {} /\ Cardinality(Got) >= Expected
<1>1. Gaps = {}
  <2> SUFFICES ASSUME Gaps # {} PROVE FALSE
    OBVIOUS
  <2>1. mustWait /\ limits >= 1 + round /\ limits \in Nat /\ round \in Nat
    BY DEF Judging, FetchInv, EachPassMetALimit, FetchTypeOK
  <2>2. round < MaxResumes
    BY <2>1, ResumesAssumption
  <2> QED BY <2>1, <2>2 DEF Judging, AnotherRound
<1>2. Got = Pages
  BY <1>1 DEF Gaps, Got
<1>3. Cardinality(Got) = NPages
  BY <1>2, PagesAssumption, FS_Interval DEF Pages
<1> QED BY <1>2, <1>3, PagesAssumption DEF Pages

LEMMA VerdictKeeps ==
    ASSUME FetchInv, NothingArrived \/ Incomplete \/ Complete \/ Write
    PROVE  FetchInv'
<1>1. /\ phase \in {"between", "writing"} /\ phase' \in {"done", "writing"}
      /\ UNCHANGED <<declared, last, asked, seen, limits, worst, mustWait, round, todo>>
  BY DEF NothingArrived, Incomplete, Complete, Write, Judging
<1>2. BlameFor(worst) \in Statuses
  BY BlameForType
<1>3. FetchTypeOK'
  <2>1. result' \in [written : BOOLEAN, report : Statuses \cup {"none", "ok"}, block : Statuses \cup {"none"}]
    <3>1. CASE NothingArrived
      BY <1>2, <3>1 DEF NothingArrived
    <3>2. CASE Incomplete
      <4>1. PICK r \in Statuses \cup {"none"}, b \in Statuses \cup {"none"} :
              result' = [written |-> FALSE, report |-> r, block |-> b]
        BY <1>2, <3>2 DEF Incomplete
      <4> QED BY <4>1
    <3>3. CASE Complete \/ Write
      BY <3>3 DEF Complete, Write, FetchInv, FetchTypeOK
    <3> QED BY <3>1, <3>2, <3>3
  <2> QED BY <1>1, <2>1 DEF FetchInv, FetchTypeOK
<1>4. AsksForGaps' /\ AskedByRound' /\ RoundsLeft' /\ BlameIsFromAnswers' /\ NoSecondPass'
  BY <1>1 DEF FetchInv, AsksForGaps, Gaps, Got, AskedByRound, RoundsLeft, BlameIsFromAnswers, NoSecondPass
<1>5. NothingAskedWhileToldToWait'
  BY <1>1 DEF FetchInv, NothingAskedWhileToldToWait
<1>8. LimitsByRound'
  BY <1>1 DEF FetchInv, FetchTypeOK, LimitsByRound
<1>6. CASE NothingArrived \/ Incomplete
  <2>1. /\ result'.written = FALSE /\ phase' = "done"
        /\ result'.report \in {"none", BlameFor(worst)}
        /\ result'.block \in {"none", BlameFor(worst)}
        /\ result'.block # "none" => result'.report = BlameFor(worst)
    BY <1>6, <1>2 DEF NothingArrived, Incomplete, Blip, Statuses
  <2>2. Verdict' /\ BlockIsReported'
    BY <2>1 DEF Verdict, BlockIsReported
  <2>3. OutageIsNotARefusal'
    BY <1>1, <2>1, SentinelsAreDown DEF OutageIsNotARefusal
  <2>4. EachPassMetALimit'
    BY <2>1 DEF EachPassMetALimit
  <2>5. RateLimitsAreWaitedOut'
    <3>1. Expected' = Expected
      BY <1>1 DEF Expected
    <3>2. Expected \in Nat /\ Cardinality(Got) \in Nat
      BY PagesAssumption, GotIsFinite DEF Expected, FetchInv, FetchTypeOK
    <3> QED BY <1>1, <1>6, <3>1, <3>2, WaitedOut DEF NothingArrived, Incomplete, RateLimitsAreWaitedOut, OnlyRateLimits
  <2> QED BY <1>3, <1>4, <1>5, <1>8, <2>2, <2>3, <2>4, <2>5 DEF FetchInv
<1>7. CASE Complete \/ Write
  <2>1. result' \in [written : BOOLEAN, report : {"ok"}, block : {"none"}]
    <3>1. CASE Complete
      <4>1. result = [written |-> FALSE, report |-> "none", block |-> "none"]
        BY <3>1 DEF Complete, Judging, FetchInv, Verdict, Pending
      <4> QED BY <3>1, <4>1 DEF Complete
    <3>2. CASE Write
      <4>1. result = [written |-> FALSE, report |-> "ok", block |-> "none"]
        BY <3>2 DEF Write, FetchInv, Verdict, Pending
      <4> QED BY <3>2, <4>1 DEF Write
    <3> QED BY <1>7, <3>1, <3>2
  <2>2. phase' = "writing" => result' = [Pending EXCEPT !.report = "ok"]
    BY <1>7 DEF Complete, Write, Judging, FetchInv, Verdict, Pending
  <2>3. Cardinality(Got) >= Expected
    BY <1>7 DEF Complete, Write, FetchInv, Verdict
  <2>4. Verdict' /\ BlockIsReported' /\ OutageIsNotARefusal'
    BY <1>1, <2>1, <2>2, <2>3 DEF Verdict, Got, Expected, BlockIsReported, OutageIsNotARefusal
  <2>5. EachPassMetALimit' /\ RateLimitsAreWaitedOut'
    BY <1>1, <1>7, <2>1 DEF EachPassMetALimit, RateLimitsAreWaitedOut, Complete, Write
  <2> QED BY <1>3, <1>4, <1>5, <1>8, <2>4, <2>5 DEF FetchInv
<1> QED BY <1>6, <1>7

-----------------------------------------------------------------------------
(* The theorems *)

LEMMA FetchStutterKeeps ==
    ASSUME FetchInv, UNCHANGED fetchVars
    PROVE  FetchInv'
<1>1. FetchTypeOK' /\ AsksForGaps' /\ AskedByRound' /\ RoundsLeft' /\ BlameIsFromAnswers' /\ NoSecondPass'
  BY DEF fetchVars, FetchInv, FetchTypeOK, AsksForGaps, Gaps, Got, AskedByRound, RoundsLeft, BlameIsFromAnswers, NoSecondPass
<1>2. Verdict' /\ NothingAskedWhileToldToWait' /\ OutageIsNotARefusal' /\ BlockIsReported'
  BY DEF fetchVars, FetchInv, Verdict, Got, Expected, NothingAskedWhileToldToWait, OutageIsNotARefusal, BlockIsReported,
         Done, Listed
<1>3. LimitsByRound' /\ EachPassMetALimit' /\ RateLimitsAreWaitedOut'
  BY DEF fetchVars, FetchInv, LimitsByRound, EachPassMetALimit, RateLimitsAreWaitedOut, Gaps, Got, Expected, Done,
         OnlyRateLimits, Listed
<1> QED BY <1>1, <1>2, <1>3 DEF FetchInv

LEMMA FetchNextInv == FetchInv /\ [FetchNext]_fetchVars => FetchInv'
<1> SUFFICES ASSUME FetchInv, [FetchNext]_fetchVars PROVE FetchInv'
  OBVIOUS
<1>1. CASE UNCHANGED fetchVars
  BY <1>1, FetchStutterKeeps
<1>2. CASE FetchNext
  BY <1>2, ListKeeps, FetchPageKeeps, PassEndsKeeps, ResumeRoundKeeps, VerdictKeeps, FetchStutterKeeps DEF FetchNext, Finished
<1> QED BY <1>1, <1>2

LEMMA FetchInductiveInvariant == FetchSpec => []FetchInv
  BY FetchInitInv, FetchNextInv, PTL DEF FetchSpec

\* The type invariant; in it, no page is requested more than 1 + MAX_RESUMES
\* times.
THEOREM FetchTypeCorrect == FetchSpec => []FetchTypeOK
  BY FetchInductiveInvariant, PTL DEF FetchInv

LEMMA WrittenIsWhole == FetchInv => WholeOrNothing
<1> SUFFICES ASSUME FetchInv, result.written, ~(declared \in 1 .. NPages - 1 /\ Cardinality(Got) >= declared)
             PROVE  Gaps = {}
  BY DEF WholeOrNothing
<1>1. Cardinality(Got) >= Expected
  BY DEF FetchInv, Verdict
<1>2. declared \in Nat
  BY PagesAssumption DEF FetchInv, FetchTypeOK
<1>3. Cardinality(Got) >= NPages
  BY <1>1, <1>2, GotIsFinite, PagesAssumption DEF Expected
<1> QED BY <1>3, AllGot

\* downloader.ts:253-262: a chapter on disk has every page of its list, or as
\* many as the source says it has.
THEOREM WrittenWhole == FetchSpec => []WholeOrNothing
  BY FetchInductiveInvariant, WrittenIsWhole, PTL

\* downloader.ts:205-206: no request while a 429's wait is outstanding.
THEOREM NoBurstAfterRateLimit == FetchSpec => []NothingAskedWhileToldToWait
  BY FetchInductiveInvariant, PTL DEF FetchInv

\* downloader.ts:216-223: MAX_RESUMES 429s, wherever they fall, cost a
\* chapter nothing but time.
THEOREM RateLimitsCostTimeOnly == FetchSpec => []RateLimitsAreWaitedOut
  BY FetchInductiveInvariant, PTL DEF FetchInv

LEMMA SilentOnce == FetchInv => SilentRefusalNotAskedTwice
  BY ResumesAssumption DEF FetchInv, NoSecondPass, AskedByRound, FetchTypeOK, SilentRefusalNotAskedTwice, Done

\* downloader.ts:228: a source that answered nothing is asked for each page
\* once at most.
THEOREM SilentRefusalOnce == FetchSpec => []SilentRefusalNotAskedTwice
  BY FetchInductiveInvariant, SilentOnce, PTL

\* downloader.ts:82-95: empty bodies and lost connections blame an outage.
THEOREM OutageBlamesNobody == FetchSpec => []OutageIsNotARefusal
  BY FetchInductiveInvariant, PTL DEF FetchInv

\* updater.ts:128: whatever ends the caller's run has been reported to
\* sourceHealth.
THEOREM BlocksAreReported == FetchSpec => []BlockIsReported
  BY FetchInductiveInvariant, PTL DEF FetchInv

LEMMA StepKeepsPages ==
    FetchInv /\ [FetchNext]_fetchVars => \A i \in Pages : last[i] = Image => last'[i] = Image /\ asked'[i] = asked[i]
<1> SUFFICES ASSUME FetchInv, [FetchNext]_fetchVars, NEW i \in Pages, last[i] = Image
             PROVE  last'[i] = Image /\ asked'[i] = asked[i]
  OBVIOUS
<1>1. ASSUME NEW a \in Answers, FetchPage(a)
      PROVE  last'[i] = Image /\ asked'[i] = asked[i]
  <2>1. Min(todo) \in todo
    BY <1>1, MinInSet DEF FetchPage, FetchInv, FetchTypeOK, Pages
  <2>2. i # Min(todo)
    BY <2>1 DEF FetchInv, AsksForGaps, Gaps, Got
  <2> QED BY <1>1, <2>2 DEF FetchPage, FetchInv, FetchTypeOK
<1>2. CASE ~(\E a \in Answers : FetchPage(a))
  BY <1>2 DEF FetchNext, fetchVars, ListFails, NoUrls, List, PassEnds, ResumeRound, NothingArrived, Incomplete, Complete, Write,
              Finished
<1> QED BY <1>1, <1>2

\* downloader.ts:229-242: a page that arrived is never asked for again, by
\* any round, and is never lost.
THEOREM PagesAreKept == FetchSpec => NoPageRefetched
<1>1. FetchInv /\ [FetchNext]_fetchVars
        => [\A i \in Pages : last[i] = Image => last'[i] = Image /\ asked'[i] = asked[i]]_fetchVars
  BY StepKeepsPages
<1> QED BY <1>1, FetchInductiveInvariant, PTL DEF FetchSpec, NoPageRefetched

-----------------------------------------------------------------------------
(***************************************************************************)
(* The file.  For any number of loops, writes and kills: the chapter's name *)
(* is never on a half-written file, a chapter that is there is never lost, *)
(* and who is told that it is there is told the truth.                     *)
(***************************************************************************)

\* A file is renamed onto the chapter's name only by a loop that has written
\* all of it: the temporary name is the loop's own, so nobody else truncates
\* it, and a reap can only take it away.
RenamesWhatItWrote ==
    /\ \A l \in Loops : at[l] = "synced" => tmp[l] # "partial"
    /\ \A l \in Loops : tmp[l] # "none" => at[l] \in {"writing", "synced"}

\* A write is still allowed to the loop that has passed the skip check.
WritesLeft == \A l \in Loops : at[l] \in {"checked", "fetched"} => writes[l] < MaxWrites

FileInv == FileTypeOK /\ RenamesWhatItWrote /\ WritesLeft /\ EntirelyThereOrNot /\ SkippedIsThere

LEMMA FileInitInv == FileInit => FileInv
<1> SUFFICES ASSUME FileInit PROVE FileInv
  OBVIOUS
<1>1. FileTypeOK
  BY LoopsAssumption DEF FileInit, FileTypeOK, Points
<1>2. RenamesWhatItWrote /\ WritesLeft /\ EntirelyThereOrNot /\ SkippedIsThere
  BY DEF FileInit, RenamesWhatItWrote, WritesLeft, EntirelyThereOrNot, SkippedIsThere
<1> QED BY <1>1, <1>2 DEF FileInv

-----------------------------------------------------------------------------
(* downloadChapter: no file is touched *)

LEMMA WalkKeeps ==
    ASSUME FileInv, NEW l \in Loops,
           Skip(l) \/ CheckAbsent(l) \/ Fail(l) \/ Fetch(l) \/ Again(l)
    PROVE  FileInv'
<1>1. UNCHANGED <<dest, tmp, writes, orphans, reaper, listed, up, crashes>>
  BY DEF Skip, CheckAbsent, Fail, Fetch, Again
<1>2. PICK to \in {"checked", "fetched", "skipped", "failed", "idle"} :
        /\ at' = [at EXCEPT ![l] = to]
        /\ to = "checked" => writes[l] < MaxWrites
        /\ to = "fetched" => at[l] = "checked"
        /\ to = "skipped" => dest # "absent"
        /\ at[l] \notin {"writing", "synced"}
  BY DEF Skip, CheckAbsent, Fail, Fetch, Again, Move
<1>3. FileTypeOK'
  BY <1>1, <1>2 DEF FileInv, FileTypeOK, Points
<1>4. RenamesWhatItWrote'
  BY <1>1, <1>2 DEF FileInv, FileTypeOK, RenamesWhatItWrote
<1>5. WritesLeft'
  BY <1>1, <1>2 DEF FileInv, FileTypeOK, WritesLeft
<1>6. EntirelyThereOrNot' /\ SkippedIsThere'
  BY <1>1, <1>2 DEF FileInv, FileTypeOK, EntirelyThereOrNot, SkippedIsThere
<1> QED BY <1>3, <1>4, <1>5, <1>6 DEF FileInv

-----------------------------------------------------------------------------
(* writeAtomic *)

LEMMA WriteKeeps ==
    ASSUME FileInv, NEW l \in Loops,
           OpenTmp(l) \/ FinishTmp(l) \/ WriteFails(l)
    PROVE  FileInv'
<1>1. UNCHANGED <<dest, reaper, listed, up, crashes>>
  BY DEF OpenTmp, FinishTmp, WriteFails
<1>2. FileTypeOK'
  <2>1. CASE OpenTmp(l)
    BY <2>1, LoopsAssumption DEF OpenTmp, Move, FileInv, FileTypeOK, Points, WritesLeft
  <2>2. CASE FinishTmp(l)
    BY <2>2 DEF FinishTmp, Move, FileInv, FileTypeOK, Points
  <2>3. CASE WriteFails(l)
    <3>1. NameOf(l) \in Names
      BY DEF NameOf, Names, FileInv, FileTypeOK
    <3> QED BY <2>3, <3>1 DEF WriteFails, Move, FileInv, FileTypeOK, Points
  <2> QED BY <2>1, <2>2, <2>3
<1>3. RenamesWhatItWrote'
  BY DEF OpenTmp, FinishTmp, WriteFails, Move, FileInv, FileTypeOK, RenamesWhatItWrote
<1>4. WritesLeft'
  BY DEF OpenTmp, FinishTmp, WriteFails, Move, FileInv, FileTypeOK, WritesLeft
<1>5. EntirelyThereOrNot' /\ SkippedIsThere'
  BY <1>1 DEF OpenTmp, FinishTmp, WriteFails, Move, FileInv, FileTypeOK, EntirelyThereOrNot, SkippedIsThere
<1> QED BY <1>2, <1>3, <1>4, <1>5 DEF FileInv

LEMMA RenameKeeps ==
    ASSUME FileInv, NEW l \in Loops, Rename(l) \/ RenameFails(l)
    PROVE  FileInv'
<1>1. dest' = "whole" \/ dest' = dest
  BY DEF Rename, RenameFails, Move, FileInv, FileTypeOK, RenamesWhatItWrote
<1>2. FileTypeOK'
  BY DEF Rename, RenameFails, Move, FileInv, FileTypeOK, Points
<1>3. RenamesWhatItWrote' /\ WritesLeft'
  BY DEF Rename, RenameFails, Move, FileInv, FileTypeOK, RenamesWhatItWrote, WritesLeft
<1>4. EntirelyThereOrNot' /\ SkippedIsThere'
  BY <1>1 DEF Rename, RenameFails, Move, FileInv, FileTypeOK, EntirelyThereOrNot, SkippedIsThere
<1> QED BY <1>2, <1>3, <1>4 DEF FileInv

-----------------------------------------------------------------------------
(* The process and the reap *)

LEMMA LiveAreNames == FileInv => Live \subseteq Names
  BY DEF Live, NameOf, Names, FileInv, FileTypeOK

LEMMA ProcessKeeps ==
    ASSUME FileInv, Crash \/ Boot
    PROVE  FileInv'
<1>1. FileTypeOK'
  <2>1. CASE Crash
    <3>1. orphans' \subseteq Names /\ listed' \subseteq Names
      BY <2>1, LiveAreNames DEF Crash, FileInv, FileTypeOK
    <3>2. crashes' \in 0 .. MaxCrashes
      BY <2>1, LoopsAssumption DEF Crash, FileInv, FileTypeOK
    <3>3. /\ tmp' \in [Loops -> {"none", "partial", "whole"}]
          /\ at' \in [Loops -> Points]
      BY <2>1 DEF Crash, Points
    <3> QED BY <2>1, <3>1, <3>2, <3>3 DEF Crash, FileInv, FileTypeOK
  <2>2. CASE Boot
    BY <2>2 DEF Boot, FileInv, FileTypeOK
  <2> QED BY <2>1, <2>2
<1>2. RenamesWhatItWrote' /\ WritesLeft' /\ EntirelyThereOrNot' /\ SkippedIsThere'
  BY DEF Crash, Boot, FileInv, RenamesWhatItWrote, WritesLeft, EntirelyThereOrNot, SkippedIsThere
<1> QED BY <1>1, <1>2 DEF FileInv

LEMMA ReapKeeps ==
    ASSUME FileInv, Reap
    PROVE  FileInv'
<1>1. UNCHANGED <<writes, dest, at, up, crashes>>
  BY DEF Reap, ReadFolder, Unlink, ReapDone
<1>2. \A l \in Loops : tmp'[l] = tmp[l] \/ tmp'[l] = "none"
  BY DEF Reap, ReadFolder, Unlink, ReapDone, FileInv, FileTypeOK
<1>3. FileTypeOK'
  BY LiveAreNames DEF Reap, ReadFolder, Unlink, ReapDone, FileInv, FileTypeOK
<1>4. RenamesWhatItWrote'
  BY <1>1, <1>2 DEF FileInv, RenamesWhatItWrote
<1>5. WritesLeft' /\ EntirelyThereOrNot' /\ SkippedIsThere'
  BY <1>1 DEF FileInv, WritesLeft, EntirelyThereOrNot, SkippedIsThere
<1> QED BY <1>3, <1>4, <1>5 DEF FileInv

-----------------------------------------------------------------------------
(* The theorems *)

LEMMA FileNextInv == FileInv /\ [FileNext]_fileVars => FileInv'
<1> SUFFICES ASSUME FileInv, [FileNext]_fileVars PROVE FileInv'
  OBVIOUS
<1>1. CASE UNCHANGED fileVars
  BY <1>1 DEF fileVars, FileInv, FileTypeOK, RenamesWhatItWrote, WritesLeft, EntirelyThereOrNot, SkippedIsThere
<1>2. CASE FileNext
  BY <1>2, WalkKeeps, WriteKeeps, RenameKeeps, ProcessKeeps, ReapKeeps DEF FileNext, Reap
<1> QED BY <1>1, <1>2

LEMMA FileInductiveInvariant == FileSpec => []FileInv
  BY FileInitInv, FileNextInv, PTL DEF FileSpec

\* The type invariant, the bound on the writes included.
THEOREM FileTypeCorrect == FileSpec => []FileTypeOK
  BY FileInductiveInvariant, PTL DEF FileInv

\* fsAtomic.ts:1, downloader.ts:311: whatever kills, failed writes and reaps
\* do, no step of any loop leaves a half-written file under the chapter's name.
THEOREM EntirelyThere == FileSpec => []EntirelyThereOrNot
  BY FileInductiveInvariant, PTL DEF FileInv

\* downloader.ts:123: "already downloaded" is only said of a whole chapter.
THEOREM SkipIsSound == FileSpec => []SkippedIsThere
  BY FileInductiveInvariant, PTL DEF FileInv

LEMMA StepKeepsChapter == FileInv /\ [FileNext]_fileVars => (dest = "whole" => dest' = "whole")
<1> SUFFICES ASSUME FileInv, [FileNext]_fileVars, dest = "whole" PROVE dest' = "whole"
  OBVIOUS
<1>1. ASSUME NEW l \in Loops, Rename(l) PROVE dest' = "whole"
  BY <1>1 DEF Rename, Move, FileInv, FileTypeOK, RenamesWhatItWrote
<1>2. CASE ~(\E l \in Loops : Rename(l))
  BY <1>2 DEF FileNext, fileVars, Skip, CheckAbsent, Fail, Fetch, Again, OpenTmp, FinishTmp, WriteFails,
              RenameFails, Crash, Boot, ReadFolder, Unlink, ReapDone
<1> QED BY <1>1, <1>2

\* fsAtomic.ts:18: nothing in this code takes a downloaded chapter away, a
\* second download of it, a kill or the reap at boot included.
THEOREM NeverLost == FileSpec => ChapterStays
<1>1. FileInv /\ [FileNext]_fileVars => [dest = "whole" => dest' = "whole"]_fileVars
  BY StepKeepsChapter
<1> QED BY <1>1, FileInductiveInvariant, PTL DEF FileSpec, ChapterStays
=============================================================================
