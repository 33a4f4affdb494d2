------------------------ MODULE HevcRecovery_proofs ------------------------
(***************************************************************************)
(* Theorems about HevcRecovery, for every table size, budget, workload and  *)
(* memory layout: the table and its processes first, then the accounting    *)
(* and what it guarantees, GpuSafe, and the owner as leases.                *)
(***************************************************************************)
EXTENDS HevcOwnership, FiniteSetTheorems, TLAPS

\* A process has a slot exactly while it works on a batch or on its recovery.
AtOK ==
  /\ \A t \in Threads : pc[t] \in ThreadPC /\ (pc[t] \in InBatch \cup {"spawn"} <=> at[t] \in Slots)
  /\ \A w \in Workers : pc[w] \in WorkerPC /\ (pc[w] \in {"drain", "drained", "gave_up"} <=> at[w] \in Slots)

TypeInv == TypeOK /\ AtOK

\* A charge is a number of bytes: finitely many objects of finite size.
LEMMA ChargeIsNat ==
  ASSUME NEW S \in SUBSET (Resources \cup Scratch)
  PROVE  Charge(S) \in Nat
<1> DEFINE row == [x \in S |-> {x} \X (1..Size[x])]
           rows == {{x} \X (1..Size[x]) : x \in S}
<1>1. IsFiniteSet(S)
  BY FS_Union, FS_Subset, ObjectAssumption
<1>2. row \in Surjection(S, rows)
  BY DEF Surjection, row, rows
<1>3. IsFiniteSet(rows)
  BY <1>1, <1>2, FS_Surjection
<1>4. ASSUME NEW x \in S PROVE IsFiniteSet({x} \X (1..Size[x]))
  <2>1. IsFiniteSet({x})
    BY FS_Singleton
  <2>2. Size[x] \in Int
    BY BoundAssumption
  <2>3. IsFiniteSet(1..Size[x])
    BY <2>2, FS_Interval
  <2>4. QED
    BY <2>1, <2>3, FS_Product
<1>5. IsFiniteSet(UNION rows)
  BY <1>3, <1>4, FS_UNION
<1>6. QED
  BY <1>5, FS_CardinalityType DEF Charge, Bytes

\* A cleared slot is a slot.
LEMMA EmptySlotType == EmptySlot \in SlotType
  BY DEF EmptySlot, SlotType

\* The fields of a slot, and the updates of a slot that the actions make.
LEMMA SlotFields ==
  ASSUME NEW x \in SlotType
  PROVE  /\ x.io \in Contexts \cup {NoContext}
         /\ x.busy \in BOOLEAN /\ x.failed \in BOOLEAN /\ x.released \in BOOLEAN
         /\ x.recovering \in BOOLEAN /\ x.activity \in BOOLEAN
         /\ x.held \in SUBSET Resources /\ x.scratch \in SUBSET Scratch
         /\ x.charged \in Nat
  BY Zenon DEF SlotType

\* The writes the owner makes to a slot leave it a slot.
LEMMA SlotUpdates ==
  ASSUME NEW x \in SlotType
  PROVE  /\ \A io \in Contexts : [x EXCEPT !.io = io] \in SlotType
         /\ [x EXCEPT !.busy = FALSE, !.activity = FALSE] \in SlotType
         /\ [x EXCEPT !.busy = FALSE, !.failed = TRUE, !.recovering = TRUE] \in SlotType
         /\ [x EXCEPT !.recovering = FALSE] \in SlotType
         /\ [x EXCEPT !.released = TRUE] \in SlotType
         /\ [x EXCEPT !.held = {}, !.scratch = {}, !.charged = 0] \in SlotType
<1>1. \A io \in Contexts : [x EXCEPT !.io = io] \in SlotType
  BY Zenon DEF SlotType
<1>2. [x EXCEPT !.busy = FALSE, !.activity = FALSE] \in SlotType
  BY Zenon DEF SlotType
<1>3. [x EXCEPT !.busy = FALSE, !.failed = TRUE, !.recovering = TRUE] \in SlotType
  BY Zenon DEF SlotType
<1>4. [x EXCEPT !.recovering = FALSE] \in SlotType /\ [x EXCEPT !.released = TRUE] \in SlotType
  BY Zenon DEF SlotType
<1>5. 0 \in Nat
  OBVIOUS
<1>6. [x EXCEPT !.held = {}, !.scratch = {}, !.charged = 0] \in SlotType
  BY <1>5, Zenon DEF SlotType
<1>7. QED
  BY <1>1, <1>2, <1>3, <1>4, <1>6

\* A slot that takes the holds of a batch is a slot.
LEMMA SlotAcquired ==
  ASSUME NEW x \in SlotType, NEW io \in Contexts, NEW need \in SUBSET Resources,
         NEW X \in SUBSET Scratch, NEW charge \in Nat
  PROVE  [x EXCEPT !.io = io, !.busy = TRUE, !.activity = TRUE, !.held = need,
                   !.scratch = X, !.charged = charge] \in SlotType
  BY Zenon DEF SlotType

\* The tables of the owner start well-typed.
THEOREM TypeInit == Init => TypeInv
<1> SUFFICES ASSUME Init PROVE TypeInv
  OBVIOUS
<1>1. TypeOK
  BY EmptySlotType, BoundAssumption DEF Init, TypeOK, Procs, ThreadPC, WorkerPC
<1>2. AtOK
  BY ContextAssumption, ProcessAssumption DEF Init, AtOK, Procs, ThreadPC, WorkerPC, InBatch
<1>3. QED
  BY <1>1, <1>2 DEF TypeInv

USE DEF appVars, memVars, ctxVars, xpcVars, runVars

\* What releaseHolds changes keeps its type, whatever the slot becomes.
LEMMA ReleaseHoldsType ==
  ASSUME TypeOK, NEW s \in Slots, NEW slot \in SlotType, ReleaseHolds(s, slot)
  PROVE  /\ slots' \in [Slots -> SlotType]
         /\ refs' \in [Resources -> Int]
         /\ mapped' \subseteq Pages /\ deferred' \subseteq Ranges
         /\ live' \subseteq Scratch /\ reserved' \in Int
  BY SlotFields DEF TypeOK, ReleaseHolds, SweepDeferred

\* A release that is left for after the unlock keeps the counts natural.
LEMMA ExtraDropType ==
  ASSUME TypeOK, NEW slot \in SlotType, ExtraDrop(slot)
  PROVE  drops' \in [Contexts -> Nat]
<1>1. CASE slot.released
  <2> DEFINE io == slot.io
  <2>1. drops' = [drops EXCEPT ![io] = @ + 1]
    BY <1>1 DEF ExtraDrop
  <2> HIDE DEF io
  <2>2. drops \in [Contexts -> Nat]
    BY DEF TypeOK
  <2>3. CASE io \in Contexts
    BY <2>1, <2>2, <2>3
  <2>4. CASE io \notin Contexts
    BY <2>1, <2>2, <2>4
  <2>5. QED
    BY <2>3, <2>4
<1>2. CASE ~slot.released
  BY <1>2 DEF ExtraDrop, TypeOK
<1>3. QED
  BY <1>1, <1>2

\* A slot whose holds are dropped is a slot.
LEMMA EmptiedType ==
  ASSUME NEW slot \in SlotType
  PROVE  Emptied(slot) \in SlotType /\ Retire(slot) \in SlotType
  BY EmptySlotType, SlotUpdates DEF Emptied, Retire

\* Each wrapper, each step of a batch and of a worker keeps the types.
THEOREM TypeStep == TypeInv /\ [Next]_vars => TypeInv'
<1> SUFFICES ASSUME TypeInv, [Next]_vars PROVE TypeInv'
  OBVIOUS
<1> USE ContextAssumption, ProcessAssumption
<1>1. ASSUME NEW t \in Threads, NEW X \in SUBSET Scratch, Prepare(t, X) PROVE TypeInv'
  BY <1>1 DEF Prepare, Goto, TypeInv, TypeOK, AtOK, Procs, ThreadPC, WorkerPC, InBatch
<1>2. ASSUME NEW t \in Threads, NEW io \in Contexts, Refuse(t, io) PROVE TypeInv'
  BY <1>2 DEF Refuse, Goto, TypeInv, TypeOK, AtOK, Procs, ThreadPC, WorkerPC, InBatch
<1>3. ASSUME NEW t \in Threads, NEW io \in Contexts, NEW s \in Slots, RejectScratch(t, io, s)
      PROVE  TypeInv'
  <2>1. slots' \in [Slots -> SlotType]
    BY <1>3, SlotUpdates DEF RejectScratch, TypeInv, TypeOK
  <2>2. QED
    BY <1>3, <2>1 DEF RejectScratch, Adopt, Goto, TypeInv, TypeOK, AtOK, Procs, ThreadPC, WorkerPC, InBatch
<1>4. ASSUME NEW t \in Threads, NEW io \in Contexts, NEW s \in Slots, Reject(t, io, s)
      PROVE  TypeInv'
  <2>1. slots' \in [Slots -> SlotType]
    BY <1>4, SlotUpdates DEF Reject, TypeInv, TypeOK
  <2>2. mapped' \subseteq Pages /\ deferred' \subseteq Ranges
    BY <1>4 DEF Reject, SweepDeferred, TypeInv, TypeOK
  <2>3. QED
    BY <1>4, <2>1, <2>2 DEF Reject, Adopt, Goto, TypeInv, TypeOK, AtOK, Procs, ThreadPC, WorkerPC, InBatch
<1>5. ASSUME NEW t \in Threads, NEW io \in Contexts, NEW s \in Slots, NEW rs \in SUBSET Resources,
             Acquire(t, io, s, rs)
      PROVE  TypeInv'
  <2> DEFINE need == Needed(io, rs)
             charge == Charge(buf[t] \cup need)
  <2>1. need \in SUBSET Resources /\ buf[t] \in SUBSET Scratch
    BY MemoryAssumption DEF Needed, TypeInv, TypeOK
  <2>2. charge \in Nat
    BY <2>1, ChargeIsNat
  <2>3. slots' \in [Slots -> SlotType]
    BY <1>5, <2>1, <2>2, SlotAcquired DEF Acquire, TypeInv, TypeOK
  <2>4. reserved' \in Int /\ refs' \in [Resources -> Int]
    BY <1>5, <2>2 DEF Acquire, TypeInv, TypeOK
  <2>5. QED
    BY <1>5, <2>3, <2>4 DEF Acquire, Adopt, Surrendered, Goto, TypeInv, TypeOK, AtOK, Procs, ThreadPC, WorkerPC, InBatch
<1>6. ASSUME NEW t \in Threads, Abandon(t) PROVE TypeInv'
  BY <1>6 DEF Abandon, Goto, TypeInv, TypeOK, AtOK, Procs, ThreadPC, WorkerPC, InBatch
<1>7. ASSUME NEW t \in Threads, Submit(t) PROVE TypeInv'
  <2>1. at[t] \in Slots
    BY <1>7 DEF Submit, Goto, TypeInv, AtOK, InBatch
  <2>2. gpu' \in [Contexts -> SUBSET (Resources \cup Scratch)]
    <3> DEFINE slot == slots[at[t]]
    <3>1. slot.held \in SUBSET Resources /\ slot.scratch \in SUBSET Scratch
      BY <2>1, SlotFields DEF TypeInv, TypeOK
    <3>2. gpu' = [gpu EXCEPT ![slot.io] = slot.held \cup slot.scratch] \/ gpu' = gpu
      BY <1>7 DEF Submit
    <3> HIDE DEF slot
    <3>3. QED
      BY <3>1, <3>2 DEF TypeInv, TypeOK
  <2>3. QED
    BY <1>7, <2>2 DEF Submit, Goto, TypeInv, TypeOK, AtOK, Procs, ThreadPC, WorkerPC, InBatch
<1>8. ASSUME NEW t \in Threads, FinishFence(t) PROVE TypeInv'
  BY <1>8 DEF FinishFence, Goto, TypeInv, TypeOK, AtOK, Procs, ThreadPC, WorkerPC, InBatch
<1>9. ASSUME NEW t \in Threads, Complete(t) PROVE TypeInv'
  <2> DEFINE slot == Emptied([slots[at[t]] EXCEPT !.busy = FALSE, !.activity = FALSE])
  <2>1. at[t] \in Slots
    BY <1>9 DEF Complete, Goto, TypeInv, AtOK, InBatch
  <2>2. Retire(slot) \in SlotType
    <3>1. [slots[at[t]] EXCEPT !.busy = FALSE, !.activity = FALSE] \in SlotType
      BY <2>1, SlotUpdates DEF TypeInv, TypeOK
    <3>2. QED
      BY <3>1, EmptiedType
  <2>3. ReleaseHolds(at[t], Retire(slot))
    BY <1>9 DEF Complete
  <2>4. drops' \in [Contexts -> Nat]
    <3>1. slots[at[t]] \in SlotType
      BY <2>1 DEF TypeInv, TypeOK
    <3>2. QED
      BY <1>9, <3>1, ExtraDropType DEF Complete, TypeInv
  <2>5. QED
    BY <1>9, <2>1, <2>2, <2>3, <2>4, ReleaseHoldsType
    DEF Complete, Goto, TypeInv, TypeOK, AtOK, Procs, ThreadPC, WorkerPC, InBatch
<1>10. ASSUME NEW t \in Threads, Fail(t) PROVE TypeInv'
  <2>1. slots' \in [Slots -> SlotType]
    BY <1>10, SlotUpdates DEF Fail, TypeInv, TypeOK
  <2>2. QED
    BY <1>10, <2>1 DEF Fail, Goto, TypeInv, TypeOK, AtOK, Procs, ThreadPC, WorkerPC, InBatch
<1>11. ASSUME NEW t \in Threads, NEW w \in Workers, Spawn(t, w) PROVE TypeInv'
  BY <1>11, BoundAssumption DEF Spawn, TypeInv, TypeOK, AtOK, Procs, ThreadPC, WorkerPC, InBatch
<1>12. ASSUME NEW t \in Threads, SpawnFails(t) PROVE TypeInv'
  <2>1. slots' \in [Slots -> SlotType]
    BY <1>12, SlotUpdates DEF SpawnFails, TypeInv, TypeOK
  <2>2. QED
    BY <1>12, <2>1 DEF SpawnFails, Goto, TypeInv, TypeOK, AtOK, Procs, ThreadPC, WorkerPC, InBatch
<1>13. ASSUME NEW t \in Threads, Cleanup(t) PROVE TypeInv'
  BY <1>13 DEF Cleanup, Goto, TypeInv, TypeOK, AtOK, Procs, ThreadPC, WorkerPC, InBatch
<1>14. ASSUME NEW p \in Procs, EndTransaction(p) PROVE TypeInv'
  BY <1>14 DEF EndTransaction, Goto, TypeInv, TypeOK, AtOK, Procs, ThreadPC, WorkerPC, InBatch
<1>15. ASSUME NEW w \in Workers, Drain(w) PROVE TypeInv'
  <2>1. attempt' \in [Workers -> 0 .. MaxDrain - 1]
    BY <1>15, BoundAssumption DEF Drain, LastAttempt, TypeInv, TypeOK
  <2>2. QED
    BY <1>15, <2>1 DEF Drain, Goto, TypeInv, TypeOK, AtOK, Procs, ThreadPC, WorkerPC, InBatch
<1>16. ASSUME NEW w \in Workers, Recover(w) PROVE TypeInv'
  <2> DEFINE slot == Emptied([slots[at[w]] EXCEPT !.recovering = FALSE])
  <2>1. at[w] \in Slots
    BY <1>16 DEF Recover, Goto, TypeInv, AtOK
  <2>2. Retire(slot) \in SlotType
    <3>1. [slots[at[w]] EXCEPT !.recovering = FALSE] \in SlotType
      BY <2>1, SlotUpdates DEF TypeInv, TypeOK
    <3>2. QED
      BY <3>1, EmptiedType
  <2>3. ReleaseHolds(at[w], Retire(slot))
    BY <1>16 DEF Recover
  <2>4. drops' \in [Contexts -> Nat]
    <3>1. slots[at[w]] \in SlotType
      BY <2>1 DEF TypeInv, TypeOK
    <3>2. QED
      BY <1>16, <3>1, ExtraDropType DEF Recover, TypeInv
  <2>5. attempt' \in [Workers -> 0 .. MaxDrain - 1]
    BY <1>16, BoundAssumption DEF Recover, TypeInv, TypeOK
  <2>6. QED
    BY <1>16, <2>1, <2>2, <2>3, <2>4, <2>5, ReleaseHoldsType
    DEF Recover, Goto, TypeInv, TypeOK, AtOK, Procs, ThreadPC, WorkerPC, InBatch
<1>17. ASSUME NEW w \in Workers, GiveUp(w) PROVE TypeInv'
  <2>1. slots' \in [Slots -> SlotType]
    BY <1>17, SlotUpdates DEF GiveUp, TypeInv, TypeOK
  <2>2. attempt' \in [Workers -> 0 .. MaxDrain - 1]
    BY <1>17, BoundAssumption DEF GiveUp, TypeInv, TypeOK
  <2>3. QED
    BY <1>17, <2>1, <2>2 DEF GiveUp, Goto, TypeInv, TypeOK, AtOK, Procs, ThreadPC, WorkerPC, InBatch
<1>18. ASSUME NEW io \in Contexts, ContextCreate(io) \/ GpuFinishes(io) \/ NativeContextRelease(io)
       PROVE  TypeInv'
  BY <1>18 DEF ContextCreate, GpuFinishes, NativeContextRelease, TypeInv, TypeOK, AtOK
<1>19. ASSUME NEW io \in Contexts, ContextRelease(io) PROVE TypeInv'
  <2>1. slots' \in [Slots -> SlotType]
    <3>1. CASE \E s \in Find(io) : Quiescent(slots[s])
      <4>1. PICK s \in Slots : slots' = [slots EXCEPT ![s] = EmptySlot]
        BY <1>19, <3>1 DEF ContextRelease, Find
      <4>2. QED
        BY <4>1, EmptySlotType DEF TypeInv, TypeOK
    <3>2. CASE ~\E s \in Find(io) : Quiescent(slots[s])
      <4>1. slots' = [s \in Slots |-> IF slots[s].io = io
                                    THEN [slots[s] EXCEPT !.released = TRUE] ELSE slots[s]]
        BY <1>19, <3>2 DEF ContextRelease
      <4>2. \A s \in Slots : slots[s] \in SlotType /\ [slots[s] EXCEPT !.released = TRUE] \in SlotType
        BY SlotUpdates DEF TypeInv, TypeOK
      <4>3. QED
        BY <4>1, <4>2
    <3>3. QED
      BY <3>1, <3>2
  <2>2. ends' \in Nat /\ drops' \in [Contexts -> Nat]
    BY <1>19 DEF ContextRelease, TypeInv, TypeOK
  <2>3. QED
    BY <1>19, <2>1, <2>2 DEF ContextRelease, TypeInv, TypeOK, AtOK
<1>20. ASSUME NEW r \in Resources,
              ResourceCreate(r) \/ ResourceRelease(r) \/ NativeResourceRelease(r)
       PROVE  TypeInv'
  BY <1>20 DEF ResourceCreate, ResourceRelease, NativeResourceRelease, TypeInv, TypeOK, AtOK
<1>21. ASSUME NEW g \in Ranges, VmAllocate(g) \/ VmDeallocate(g) PROVE TypeInv'
  BY <1>21, MemoryAssumption DEF VmAllocate, VmDeallocate, TypeInv, TypeOK, AtOK
<1>22. ASSUME ReleaseEndsTransaction PROVE TypeInv'
  BY <1>22 DEF ReleaseEndsTransaction, TypeInv, TypeOK, AtOK
<1>23. ASSUME UNCHANGED vars PROVE TypeInv'
  BY <1>23 DEF vars, TypeInv, TypeOK, AtOK
<1>24. QED
  BY <1>1, <1>2, <1>3, <1>4, <1>5, <1>6, <1>7, <1>8, <1>9, <1>10, <1>11, <1>12, <1>13, <1>14,
     <1>15, <1>16, <1>17, <1>18, <1>19, <1>20, <1>21, <1>22, <1>23
  DEF Next, ThreadStep, Execute, WorkerStep, PendingCall, Procs

\* Every variable keeps its type in every behaviour.
THEOREM TypeCorrect == Spec => []TypeOK
<1>1. TypeInv => TypeOK
  BY DEF TypeInv
<1>2. QED
  BY TypeInit, TypeStep, <1>1, PTL DEF Spec
-----------------------------------------------------------------------------
(* A slot and its process.  The flags of a slot say who works on it: a      *)
(* thread while it is busy, a spawning thread or a worker while it recovers. *)

SlotOK(x) ==
  /\ x.io = NoContext => x = EmptySlot
  /\ x.busy => ~x.failed /\ ~x.recovering /\ x.activity
  /\ x.recovering => x.failed
  /\ x.failed => x.activity
  /\ ~x.busy /\ ~x.failed => x.held = {} /\ x.scratch = {} /\ ~x.activity
  /\ \A r \in x.held : r \in Supported \/ Memory[r] = {}

Works(p, s) == at[p] = s /\ (p \in Threads => pc[p] = "spawn")

SlotsSound == \A s \in Slots : SlotOK(slots[s])

ContextsApart ==
  \A s, z \in Slots : s # z /\ slots[s].io = slots[z].io => slots[s].io = NoContext

ProcsApart ==
  /\ \A p, q \in Procs : p # q /\ at[p] \in Slots => at[p] # at[q]
  /\ \A t \in Threads : pc[t] \in InBatch => slots[at[t]].busy
  /\ \A s \in Slots : slots[s].busy => \E t \in Threads : at[t] = s /\ pc[t] \in InBatch
  /\ \A p \in Procs, s \in Slots : Works(p, s) => slots[s].recovering
  /\ \A s \in Slots : slots[s].recovering => \E p \in Procs : Works(p, s)

OwnerInv == SlotsSound /\ ContextsApart /\ ProcsApart

\* At start every slot is unused and nobody has one.
THEOREM OwnerInit == Init => OwnerInv
  BY ContextAssumption DEF Init, OwnerInv, SlotsSound, ContextsApart, ProcsApart, SlotOK, EmptySlot, Works, InBatch, Procs

\* A slot changes to one that is still sound and does not clash with others.
LEMMA SlotStep ==
  ASSUME TypeOK, OwnerInv, NEW s \in Slots, NEW new \in SlotType,
         slots' = [slots EXCEPT ![s] = new], SlotOK(new),
         new.io = NoContext \/ s \in SlotFor(new.io)
  PROVE  SlotsSound' /\ ContextsApart'
<1>1. \A z \in Slots : slots'[z] = IF z = s THEN new ELSE slots[z]
  BY DEF TypeOK
<1>2. \A z \in Slots : z # s => slots[z].io # new.io \/ new.io = NoContext
  BY DEF OwnerInv, ContextsApart, SlotFor, Find, Unused
<1>3. QED
  BY <1>1, <1>2 DEF OwnerInv, SlotsSound, ContextsApart

\* What becomes of a slot: a name for the facts the steps below need.
Becomes(new, io, busy, recovering) ==
  /\ new \in SlotType /\ SlotOK(new) /\ new.io = io
  /\ new.busy = busy /\ new.recovering = recovering

\* What opening a slot for a context does to it.
LEMMA SlotOpened ==
  ASSUME NEW x \in SlotType, SlotOK(x), ~x.busy, ~x.failed, NEW io \in Contexts
  PROVE  Becomes([x EXCEPT !.io = io], io, FALSE, FALSE)
<1>1. [x EXCEPT !.io = io] \in SlotType
  BY SlotUpdates
<1>2. QED
  BY <1>1, ContextAssumption DEF SlotOK, SlotType, EmptySlot, Becomes

\* What taking the holds of a batch does to a slot.
LEMMA SlotFilled ==
  ASSUME NEW x \in SlotType, SlotOK(x), ~x.busy, ~x.failed, NEW io \in Contexts,
         NEW need \in SUBSET Resources, NEW X \in SUBSET Scratch, NEW charge \in Nat,
         \A r \in need : r \in Supported \/ Memory[r] = {}
  PROVE  Becomes([x EXCEPT !.io = io, !.busy = TRUE, !.activity = TRUE, !.held = need,
                              !.scratch = X, !.charged = charge], io, TRUE, FALSE)
<1> DEFINE new == [x EXCEPT !.io = io, !.busy = TRUE, !.activity = TRUE, !.held = need,
                            !.scratch = X, !.charged = charge]
<1>1. new \in SlotType
  BY SlotAcquired
<1>2. new.io = io /\ new.busy /\ new.activity /\ new.held = need
      /\ new.failed = x.failed /\ new.recovering = x.recovering
  BY DEF SlotType
<1>3. QED
  BY <1>1, <1>2, ContextAssumption DEF SlotOK, Becomes

\* A cleared slot is unused, neither busy nor failed.
LEMMA EmptyBecomes == Becomes(EmptySlot, NoContext, FALSE, FALSE)
  BY EmptySlotType DEF Becomes, SlotOK, EmptySlot

\* Marking a slot released changes neither its context nor who works on it.
LEMMA SlotReleased ==
  ASSUME NEW x \in SlotType, SlotOK(x), x.io \in Contexts
  PROVE  Becomes([x EXCEPT !.released = TRUE], x.io, x.busy, x.recovering)
<1>1. [x EXCEPT !.released = TRUE] \in SlotType
  BY SlotUpdates
<1>2. QED
  BY <1>1, ContextAssumption DEF SlotOK, SlotType, EmptySlot, Becomes

\* What the end of a batch does to a slot: it is idle, or has failed.
LEMMA SlotSettled ==
  ASSUME NEW x \in SlotType, SlotOK(x), x.busy
  PROVE  /\ Becomes(Emptied([x EXCEPT !.busy = FALSE, !.activity = FALSE]), x.io, FALSE, FALSE)
         /\ Becomes([x EXCEPT !.busy = FALSE, !.failed = TRUE, !.recovering = TRUE],
                    x.io, FALSE, TRUE)
<1>1. /\ Emptied([x EXCEPT !.busy = FALSE, !.activity = FALSE]) \in SlotType
      /\ [x EXCEPT !.busy = FALSE, !.failed = TRUE, !.recovering = TRUE] \in SlotType
  BY SlotUpdates, EmptiedType
<1>2. QED
  BY <1>1, ContextAssumption DEF SlotOK, SlotType, Emptied, EmptySlot, Becomes

\* A recovery that ends leaves the slot to nobody, drained or not.
LEMMA SlotRecovered ==
  ASSUME NEW x \in SlotType, SlotOK(x), x.recovering
  PROVE  /\ Becomes(Emptied([x EXCEPT !.recovering = FALSE]), x.io, FALSE, FALSE)
         /\ Becomes([x EXCEPT !.recovering = FALSE], x.io, FALSE, FALSE)
<1>1. /\ Emptied([x EXCEPT !.recovering = FALSE]) \in SlotType
      /\ [x EXCEPT !.recovering = FALSE] \in SlotType
  BY SlotUpdates, EmptiedType
<1>2. QED
  BY <1>1, ContextAssumption DEF SlotOK, SlotType, Emptied, EmptySlot, Becomes

\* The step that ends the recovery of a slot, by whatever process it is.
LEMMA RecoveryEnds ==
  ASSUME TypeInv, OwnerInv, NEW p \in Procs, at[p] \in Slots, Works(p, at[p]),
         NEW new,
         Becomes(new, slots[at[p]].io, FALSE, FALSE) \/ Becomes(new, NoContext, FALSE, FALSE),
         slots' = [slots EXCEPT ![at[p]] = new], at' = [at EXCEPT ![p] = NoSlot],
         NEW q, q \notin InBatch, pc' = [pc EXCEPT ![p] = q]
  PROVE  OwnerInv'
<1> DEFINE s == at[p]
<1>1. SlotsSound' /\ ContextsApart'
  BY SlotStep DEF TypeInv, Becomes, SlotFor, Find
<1>2. slots[s].recovering /\ ~slots[s].busy
  BY DEF OwnerInv, ProcsApart, SlotsSound, SlotOK
<1>3. QED
  BY <1>1, <1>2, ContextAssumption
  DEF Becomes, OwnerInv, ProcsApart, Works, Procs, InBatch, TypeInv, TypeOK, AtOK

\* What recovery makes of a slot: it keeps its context, or is cleared when the
\* context was released.
LEMMA SlotRecovers ==
  ASSUME TypeInv, OwnerInv, NEW s \in Slots, slots[s].recovering
  PROVE  LET new == Emptied([slots[s] EXCEPT !.recovering = FALSE])
         IN  /\ Becomes([slots[s] EXCEPT !.recovering = FALSE], slots[s].io, FALSE, FALSE)
             /\ \/ Becomes(Retire(new), slots[s].io, FALSE, FALSE)
                \/ Becomes(Retire(new), NoContext, FALSE, FALSE)
<1> DEFINE new == Emptied([slots[s] EXCEPT !.recovering = FALSE])
<1>1. slots[s] \in SlotType /\ SlotOK(slots[s])
  BY DEF TypeInv, TypeOK, OwnerInv, SlotsSound
<1>2. /\ Becomes([slots[s] EXCEPT !.recovering = FALSE], slots[s].io, FALSE, FALSE)
      /\ Becomes(new, slots[s].io, FALSE, FALSE)
  BY <1>1, SlotRecovered
<1> HIDE DEF new
<1>3. Retire(new) = new \/ Retire(new) = EmptySlot
  BY DEF Retire
<1>4. QED
  BY <1>2, <1>3, EmptyBecomes DEF new

\* No step gives a slot a second owner.
THEOREM OwnerStep == TypeInv /\ OwnerInv /\ [Next]_vars => OwnerInv'
<1> SUFFICES ASSUME TypeInv, OwnerInv, [Next]_vars PROVE OwnerInv'
  OBVIOUS
<1> USE ContextAssumption, ProcessAssumption
<1>1. ASSUME NEW t \in Threads, NEW X \in SUBSET Scratch, Prepare(t, X) PROVE OwnerInv'
  BY <1>1 DEF Prepare, Goto, OwnerInv, SlotsSound, ContextsApart, ProcsApart, Works, Procs, InBatch, TypeInv, TypeOK, AtOK
<1>2. ASSUME NEW t \in Threads, NEW io \in Contexts, Refuse(t, io) PROVE OwnerInv'
  BY <1>2 DEF Refuse, Goto, OwnerInv, SlotsSound, ContextsApart, ProcsApart, Works, Procs, InBatch, TypeInv, TypeOK, AtOK
<1>3. ASSUME NEW t \in Threads, NEW io \in Contexts, NEW s \in Slots,
             RejectScratch(t, io, s) \/ Reject(t, io, s)
      PROVE  OwnerInv'
  <2> DEFINE new == [slots[s] EXCEPT !.io = io]
  <2>1. /\ slots' = [slots EXCEPT ![s] = new] /\ s \in SlotFor(io)
        /\ ~slots[s].busy /\ ~slots[s].failed
        /\ pc[t] = "prepared" /\ pc' = [pc EXCEPT ![t] = "cleanup"] /\ at' = at
    BY <1>3 DEF RejectScratch, Reject, Opens, Goto
  <2>2. Becomes(new, io, FALSE, FALSE) /\ ~slots[s].recovering
    BY <2>1, SlotOpened DEF TypeInv, TypeOK, OwnerInv, SlotsSound, SlotOK
  <2> HIDE DEF new
  <2>3. SlotsSound' /\ ContextsApart'
    BY <2>1, <2>2, SlotStep DEF TypeInv, Becomes
  <2>4. QED
    BY <2>1, <2>2, <2>3 DEF Becomes, OwnerInv, SlotsSound, ContextsApart, ProcsApart, Works, Procs, InBatch, TypeInv, TypeOK, AtOK
<1>4. ASSUME NEW t \in Threads, NEW io \in Contexts, NEW s \in Slots,
             NEW rs \in SUBSET Resources, Acquire(t, io, s, rs)
      PROVE  OwnerInv'
  <2> DEFINE need == Needed(io, rs)
             charge == Charge(buf[t] \cup need)
             new == [slots[s] EXCEPT !.io = io, !.busy = TRUE, !.activity = TRUE,
                       !.held = need, !.scratch = buf[t], !.charged = charge]
  <2>1. /\ slots' = [slots EXCEPT ![s] = new] /\ s \in SlotFor(io)
        /\ ~slots[s].busy /\ ~slots[s].failed
        /\ pc[t] = "prepared" /\ pc' = [pc EXCEPT ![t] = "submit"]
        /\ at' = [at EXCEPT ![t] = s]
    BY <1>4 DEF Acquire, Opens, Goto
  <2>2. need \in SUBSET Resources /\ buf[t] \in SUBSET Scratch
    BY MemoryAssumption DEF Needed, TypeInv, TypeOK
  <2>3. charge \in Nat
    BY <2>2, ChargeIsNat
  <2>4. \A r \in need : r \in Supported \/ Memory[r] = {}
    BY <1>4, MemoryAssumption DEF Acquire, Acquirable, Needed
  <2>5. Becomes(new, io, TRUE, FALSE) /\ ~slots[s].recovering
    <3> HIDE DEF need, charge
    <3> QED
      BY <2>1, <2>2, <2>3, <2>4, SlotFilled DEF TypeInv, TypeOK, OwnerInv, SlotsSound, SlotOK
  <2> HIDE DEF new
  <2>6. SlotsSound' /\ ContextsApart'
    BY <2>1, <2>5, SlotStep DEF TypeInv, Becomes
  <2>7. \A p \in Procs : p # t => at[p] # s
    BY <2>1 DEF OwnerInv, ProcsApart, Works, Procs, InBatch, TypeInv, TypeOK, AtOK, SlotsSound, SlotOK
  <2>8. QED
    BY <2>1, <2>5, <2>6, <2>7 DEF Becomes, OwnerInv, ProcsApart, Works, Procs, InBatch, TypeInv, TypeOK, AtOK
<1>6. ASSUME NEW t \in Threads, Abandon(t) PROVE OwnerInv'
  BY <1>6 DEF Abandon, Goto, OwnerInv, SlotsSound, ContextsApart, ProcsApart, Works, Procs, InBatch, TypeInv, TypeOK, AtOK
<1>7. ASSUME NEW t \in Threads, Submit(t) PROVE OwnerInv'
  BY <1>7 DEF Submit, Goto, OwnerInv, SlotsSound, ContextsApart, ProcsApart, Works, Procs, InBatch, TypeInv, TypeOK, AtOK
<1>8. ASSUME NEW t \in Threads, FinishFence(t) PROVE OwnerInv'
  BY <1>8 DEF FinishFence, Goto, OwnerInv, SlotsSound, ContextsApart, ProcsApart, Works, Procs, InBatch, TypeInv, TypeOK, AtOK
<1>9. ASSUME NEW t \in Threads, Complete(t) \/ Fail(t) PROVE OwnerInv'
  <2> DEFINE s == at[t]
             done == Emptied([slots[s] EXCEPT !.busy = FALSE, !.activity = FALSE])
             poisoned == [slots[s] EXCEPT !.busy = FALSE, !.failed = TRUE, !.recovering = TRUE]
  <2>1. s \in Slots /\ slots[s] \in SlotType /\ SlotOK(slots[s]) /\ slots[s].busy
        /\ ~slots[s].recovering /\ slots[s].io # NoContext
    BY <1>9 DEF Complete, Fail, Goto, InBatch, TypeInv, TypeOK, AtOK, OwnerInv, SlotsSound,
                ProcsApart, SlotOK, EmptySlot
  <2>2. CASE Complete(t)
    <3> DEFINE new == Retire(done)
    <3>1. /\ slots' = [slots EXCEPT ![s] = new] /\ pc[t] = "completed"
          /\ pc' = [pc EXCEPT ![t] = "ending"] /\ at' = [at EXCEPT ![t] = NoSlot]
      BY <2>2 DEF Complete, Goto, ReleaseHolds
    <3>2. Becomes(done, slots[s].io, FALSE, FALSE)
      BY <2>1, SlotSettled
    <3>3. Becomes(new, slots[s].io, FALSE, FALSE) \/ Becomes(new, NoContext, FALSE, FALSE)
      <4> HIDE DEF done
      <4> QED
        BY <3>2, EmptyBecomes DEF Retire
    <3> HIDE DEF new, done, s
    <3>4. SlotsSound' /\ ContextsApart'
      BY <2>1, <3>1, <3>3, SlotStep DEF TypeInv, Becomes, SlotFor, Find
    <3>5. QED
      BY <2>1, <3>1, <3>3, <3>4 DEF s, Becomes, OwnerInv, ProcsApart, Works, Procs, InBatch, TypeInv, TypeOK, AtOK
  <2>3. CASE Fail(t)
    <3>1. /\ slots' = [slots EXCEPT ![s] = poisoned] /\ pc[t] = "failed"
          /\ pc' = [pc EXCEPT ![t] = "spawn"] /\ at' = at
      BY <2>3 DEF Fail, Goto
    <3>2. Becomes(poisoned, slots[s].io, FALSE, TRUE)
      BY <2>1, SlotSettled
    <3> HIDE DEF poisoned, s
    <3>3. SlotsSound' /\ ContextsApart'
      BY <2>1, <3>1, <3>2, SlotStep DEF TypeInv, Becomes, SlotFor, Find
    <3>4. QED
      BY <2>1, <3>1, <3>2, <3>3 DEF s, Becomes, OwnerInv, ProcsApart, Works, Procs, InBatch, TypeInv, TypeOK, AtOK
  <2>4. QED
    BY <1>9, <2>2, <2>3
<1>11. ASSUME NEW t \in Threads, NEW w \in Workers, Spawn(t, w) PROVE OwnerInv'
  <2>0. PICK s \in Slots : at[t] = s
    BY <1>11 DEF Spawn, TypeInv, AtOK
  <2>1. /\ t \in Procs /\ w \in Procs /\ t # w /\ s # NoSlot
        /\ at[w] \notin Slots /\ pc[t] = "spawn" /\ pc[w] = "idle"
    BY <1>11, ProcessAssumption, ContextAssumption DEF Spawn, Procs, TypeInv, AtOK, WorkerPC, InBatch
  <2>2. /\ UNCHANGED slots
        /\ at'[t] = NoSlot /\ at'[w] = s /\ pc'[t] = "cleanup" /\ pc'[w] = "drain"
        /\ \A p \in Procs \ {t, w} : at'[p] = at[p] /\ pc'[p] = pc[p]
    BY <1>11, <2>0, <2>1 DEF Spawn, TypeInv, TypeOK
  <2>3. SlotsSound' /\ ContextsApart'
    BY <2>2 DEF OwnerInv, SlotsSound, ContextsApart
  <2>4. \A p \in Procs : p # t => at[p] # s
    BY <2>0, <2>1 DEF OwnerInv, ProcsApart
  <2>5. \A p, q \in Procs : p # q /\ at'[p] \in Slots => at'[p] # at'[q]
    BY <2>1, <2>2, <2>4, ContextAssumption DEF OwnerInv, ProcsApart
  <2>6. /\ \A u \in Threads : pc'[u] \in InBatch => slots'[at'[u]].busy
        /\ \A z \in Slots : slots'[z].busy => \E u \in Threads : at'[u] = z /\ pc'[u] \in InBatch
    <3>1. \A u \in Threads : u \in Procs /\ u # w
      BY ProcessAssumption DEF Procs
    <3>2. "spawn" \notin InBatch /\ "cleanup" \notin InBatch
      BY DEF InBatch
    <3>3. QED
      BY <2>1, <2>2, <3>1, <3>2 DEF OwnerInv, ProcsApart
  <2>7. \A p \in Procs, z \in Slots : Works(p, z)' => slots'[z].recovering
    <3>1. slots[s].recovering
      BY <2>0, <2>1 DEF OwnerInv, ProcsApart, Works
    <3>2. QED
      BY <2>1, <2>2, <3>1, ContextAssumption DEF OwnerInv, ProcsApart, Works
  <2>8. \A z \in Slots : slots'[z].recovering => \E p \in Procs : Works(p, z)'
    <3>1. Works(w, s)'
      <4>1. w \notin Threads
        BY ProcessAssumption
      <4>2. at'[w] = s
        BY <2>2
      <4>3. QED
        BY <4>1, <4>2 DEF Works
    <3>2. ASSUME NEW z \in Slots, slots'[z].recovering, z # s
          PROVE  \E p \in Procs : Works(p, z)'
      <4>1. PICK p \in Procs : Works(p, z)
        BY <2>2, <3>2 DEF OwnerInv, ProcsApart
      <4>2. p # t /\ p # w
        BY <2>0, <2>1, <3>2, <4>1 DEF Works
      <4>3. Works(p, z)'
        BY <2>2, <4>1, <4>2 DEF Works
      <4>4. QED
        BY <4>3
    <3>3. ASSUME NEW z \in Slots, slots'[z].recovering, z = s
          PROVE  \E p \in Procs : Works(p, z)'
      BY <2>1, <3>1, <3>3
    <3>4. QED
      BY <3>2, <3>3
  <2>9. QED
    BY <2>3, <2>5, <2>6, <2>7, <2>8 DEF OwnerInv, ProcsApart
<1>12. ASSUME NEW p \in Procs, \/ p \in Threads /\ SpawnFails(p)
                               \/ p \in Workers /\ (Recover(p) \/ GiveUp(p))
       PROVE  OwnerInv'
  <2>1. at[p] \in Slots /\ Works(p, at[p]) /\ slots[at[p]].recovering
    BY <1>12 DEF SpawnFails, Recover, GiveUp, Goto, Works, TypeInv, AtOK, OwnerInv, ProcsApart
  <2> DEFINE s == at[p]
             new == Emptied([slots[s] EXCEPT !.recovering = FALSE])
  <2>2. at' = [at EXCEPT ![p] = NoSlot]
        /\ \E q \in {"cleanup", "ending", "idle"} : pc' = [pc EXCEPT ![p] = q]
    BY <1>12 DEF SpawnFails, Recover, GiveUp, Goto
  <2>3. \/ slots' = [slots EXCEPT ![s] = [slots[s] EXCEPT !.recovering = FALSE]]
        \/ slots' = [slots EXCEPT ![s] = Retire(new)]
    BY <1>12, <2>1 DEF SpawnFails, Recover, GiveUp, ReleaseHolds, TypeInv, TypeOK
  <2>4. PICK q \in {"cleanup", "ending", "idle"} : pc' = [pc EXCEPT ![p] = q]
    BY <2>2
  <2>5. q \notin InBatch
    BY DEF InBatch
  <2>6. CASE slots' = [slots EXCEPT ![s] = [slots[s] EXCEPT !.recovering = FALSE]]
    BY <2>1, <2>2, <2>4, <2>5, <2>6, SlotRecovers, RecoveryEnds
  <2>7. CASE slots' = [slots EXCEPT ![s] = Retire(new)]
    BY <2>1, <2>2, <2>4, <2>5, <2>7, SlotRecovers, RecoveryEnds
  <2>8. QED
    BY <2>3, <2>6, <2>7
<1>13. ASSUME NEW t \in Threads, Cleanup(t) PROVE OwnerInv'
  BY <1>13 DEF Cleanup, Goto, OwnerInv, SlotsSound, ContextsApart, ProcsApart, Works, Procs, InBatch, TypeInv, TypeOK, AtOK
<1>14. ASSUME NEW p \in Procs, EndTransaction(p) PROVE OwnerInv'
  BY <1>14 DEF EndTransaction, Goto, OwnerInv, SlotsSound, ContextsApart, ProcsApart, Works, Procs, InBatch, TypeInv, TypeOK, AtOK, ThreadPC, WorkerPC
<1>15. ASSUME NEW w \in Workers, Drain(w) PROVE OwnerInv'
  BY <1>15 DEF Drain, Goto, OwnerInv, SlotsSound, ContextsApart, ProcsApart, Works, Procs, InBatch, TypeInv, TypeOK, AtOK
<1>18. ASSUME NEW io \in Contexts, ContextCreate(io) \/ GpuFinishes(io) \/ NativeContextRelease(io)
       PROVE  OwnerInv'
  BY <1>18 DEF ContextCreate, GpuFinishes, NativeContextRelease, OwnerInv, SlotsSound, ContextsApart, ProcsApart, Works
<1>19. ASSUME NEW io \in Contexts, ContextRelease(io) PROVE OwnerInv'
  <2>1. CASE \E s \in Find(io) : Quiescent(slots[s])
    <3>1. PICK s \in Find(io) : slots' = [slots EXCEPT ![s] = EmptySlot] /\ UNCHANGED runVars
      BY <1>19, <2>1 DEF ContextRelease
    <3>2. s \in Slots /\ ~slots[s].busy /\ ~slots[s].recovering
      <4>1. \A z \in Find(io) : z = s
        BY <3>1 DEF Find, OwnerInv, ContextsApart
      <4>2. QED
        BY <2>1, <3>1, <4>1 DEF Find, Quiescent
    <3>3. SlotsSound' /\ ContextsApart'
      BY <3>1, <3>2, SlotStep, EmptyBecomes DEF TypeInv, Becomes
    <3>4. QED
      BY <3>1, <3>2, <3>3, EmptyBecomes DEF Becomes, OwnerInv, ProcsApart, Works, Procs, InBatch, TypeInv, TypeOK, AtOK
  <2>2. CASE ~\E s \in Find(io) : Quiescent(slots[s])
    <3>1. /\ slots' = [s \in Slots |-> IF slots[s].io = io
                                     THEN [slots[s] EXCEPT !.released = TRUE] ELSE slots[s]]
          /\ UNCHANGED runVars
      BY <1>19, <2>2 DEF ContextRelease
    <3>2. \A s \in Slots : /\ SlotOK(slots'[s]) /\ slots'[s].io = slots[s].io
                           /\ slots'[s].busy = slots[s].busy
                           /\ slots'[s].recovering = slots[s].recovering
      BY <3>1, SlotReleased DEF Becomes, TypeInv, TypeOK, OwnerInv, SlotsSound
    <3>3. QED
      BY <3>1, <3>2 DEF OwnerInv, SlotsSound, ContextsApart, ProcsApart, Works, Procs, InBatch, TypeInv, TypeOK, AtOK
  <2>3. QED
    BY <2>1, <2>2
<1>20. ASSUME NEW r \in Resources,
              ResourceCreate(r) \/ ResourceRelease(r) \/ NativeResourceRelease(r)
       PROVE  OwnerInv'
  BY <1>20 DEF ResourceCreate, ResourceRelease, NativeResourceRelease, OwnerInv, SlotsSound, ContextsApart, ProcsApart, Works
<1>21. ASSUME NEW g \in Ranges, VmAllocate(g) \/ VmDeallocate(g) PROVE OwnerInv'
  BY <1>21, MemoryAssumption DEF VmAllocate, VmDeallocate, OwnerInv, SlotsSound, ContextsApart, ProcsApart, Works
<1>22. ASSUME ReleaseEndsTransaction PROVE OwnerInv'
  BY <1>22 DEF ReleaseEndsTransaction, OwnerInv, SlotsSound, ContextsApart, ProcsApart, Works
<1>23. ASSUME UNCHANGED vars PROVE OwnerInv'
  BY <1>23 DEF vars, OwnerInv, SlotsSound, ContextsApart, ProcsApart, Works
<1>24. ASSUME NEW t \in Threads, (\E X \in SUBSET Scratch : Prepare(t, X)) \/ ThreadStep(t)
       PROVE  OwnerInv'
  <2>1. CASE \E X \in SUBSET Scratch : Prepare(t, X)
    BY <1>1, <2>1
  <2>2. CASE Execute(t)
    BY <1>2, <1>3, <1>4, <2>2 DEF Execute
  <2>3. CASE \E w \in Workers : Spawn(t, w)
    BY <1>11, <2>3
  <2>4. CASE SpawnFails(t) \/ EndTransaction(t)
    BY <1>12, <1>14, <2>4 DEF Procs
  <2>5. QED
    BY <1>6, <1>7, <1>8, <1>9, <1>13, <1>24, <2>1, <2>2, <2>3, <2>4 DEF ThreadStep
<1>25. ASSUME NEW w \in Workers, WorkerStep(w) PROVE OwnerInv'
  BY <1>12, <1>14, <1>15, <1>25 DEF WorkerStep, Procs
<1>26. QED
  BY <1>18, <1>19, <1>20, <1>21, <1>22, <1>23, <1>24, <1>25 DEF Next, PendingCall

\* Types and ownership of slots hold together, always.
THEOREM OwnerInductive == Spec => [](TypeInv /\ OwnerInv)
  BY TypeInit, TypeStep, OwnerInit, OwnerStep, PTL DEF Spec

\* A slot has one thread or one worker at a time, exactly while it is busy or
\* recovering, and a context has one slot.
THEOREM OneOwner == Spec => []OneOwnerPerSlot
<1>1. TypeInv /\ OwnerInv => OneOwnerPerSlot
  BY ContextAssumption, ProcessAssumption
  DEF OneOwnerPerSlot, OwnerInv, SlotsSound, SlotOK, ContextsApart, ProcsApart, Works, Procs,
      InBatch, TypeInv, TypeOK, AtOK, ThreadPC, WorkerPC
<1>2. QED
  BY OwnerInductive, <1>1, PTL

-----------------------------------------------------------------------------
(* What the GPU uses exists.                                               *)

USE DEF appVars, memVars, ctxVars, xpcVars, runVars

\* Running work of a context is covered by the holds of its slot, and there is
\* none before a submission or after a confirmed wait.
GpuCovered ==
  \A io \in Contexts : gpu[io] # {} =>
    \E s \in Find(io) : /\ gpu[io] \subseteq slots[s].held \cup slots[s].scratch
                        /\ slots[s].busy \/ slots[s].failed

GpuQuiet ==
  \A p \in Procs : pc[p] \in {"submit", "completed", "drained"} =>
    gpu[slots[at[p]].io] = {}

GpuInv == GpuCovered /\ GpuQuiet

\* Pages stay mapped while the driver owns them, while a hold covers them, and
\* until a deferred deallocation is carried out once.
MemInv ==
  /\ owned \subseteq mapped
  /\ \A s \in Slots : \A r \in slots[s].held : Memory[r] \subseteq mapped
  /\ \A g \in deferred : g \subseteq mapped /\ g \cap owned = {}
  /\ \A g, h \in deferred : g # h => g \cap h = {}

\* Scratch has one owner, and an idle thread has none.
ScratchInv ==
  /\ \A t, u \in Threads : t # u => buf[t] \cap buf[u] = {}
  /\ \A s, z \in Slots : s # z => slots[s].scratch \cap slots[z].scratch = {}
  /\ \A t \in Threads, s \in Slots : buf[t] \cap slots[s].scratch = {}
  /\ \A x \in Scratch : x \in live <=> \/ \E t \in Threads : x \in buf[t]
                                     \/ \E s \in Slots : x \in slots[s].scratch
  /\ \A t \in Threads : pc[t] = "idle" => buf[t] = {}

\* Retains and releases balance, for resources and for contexts.
Holders(r) == {s \in Slots : r \in slots[s].held}

RefInv ==
  /\ catalog \cap dropping = {}
  /\ \A r \in Resources :
       refs[r] = Count(r \in catalog \cup dropping) + Cardinality(Holders(r))

CtxInv ==
  \A io \in Contexts :
    ctxRefs[io] = Count(io \in appCtx) + Count(Find(io) # {}) + drops[io]

Inv == TypeInv /\ OwnerInv /\ GpuInv /\ MemInv /\ ScratchInv /\ RefInv /\ CtxInv
-----------------------------------------------------------------------------
(* What the steps do to the slots.                                          *)

\* The slot s becomes `new', with the same holds.
Keeps(s, new) ==
  /\ slots' = [slots EXCEPT ![s] = new] /\ new \in SlotType
  /\ new.held = slots[s].held /\ new.scratch = slots[s].scratch
  /\ slots[s].busy \/ slots[s].failed => new.busy \/ new.failed

\* A slot that is idle and has not failed holds nothing.
LEMMA IdleSlot ==
  ASSUME TypeInv, OwnerInv, NEW s \in Slots, ~slots[s].busy, ~slots[s].failed
  PROVE  slots[s].held = {} /\ slots[s].scratch = {}
  BY DEF OwnerInv, SlotsSound, SlotOK

\* Nobody works on a slot that neither runs a batch nor has failed.
LEMMA IdleSlotUnowned ==
  ASSUME TypeInv, OwnerInv, NEW s \in Slots, ~slots[s].busy, ~slots[s].failed
  PROVE  \A q \in Procs : at[q] # s
<1>1. ~slots[s].recovering
  BY DEF OwnerInv, SlotsSound, SlotOK
<1>2. ASSUME NEW q \in Procs, at[q] = s PROVE FALSE
  <2>1. ~Works(q, s)
    BY <1>1, <1>2 DEF OwnerInv, ProcsApart
  <2>2. q \in Threads /\ pc[q] # "spawn"
    BY <1>2, <2>1 DEF Works
  <2>3. pc[q] \in InBatch
    BY <1>2, <2>2 DEF TypeInv, AtOK
  <2>4. QED
    BY <1>2, <2>2, <2>3 DEF OwnerInv, ProcsApart
<1>3. QED
  BY <1>2

\* A batch that is rejected after its slot was found has only opened it.
LEMMA AdoptEffect ==
  ASSUME TypeInv, OwnerInv, NEW t \in Threads, NEW io \in Contexts, NEW s \in Slots,
         RejectScratch(t, io, s) \/ Reject(t, io, s)
  PROVE  s \in SlotFor(io) /\ \E new : Keeps(s, new) /\ new.io = io
<1> DEFINE new == [slots[s] EXCEPT !.io = io]
<1>1. slots' = [slots EXCEPT ![s] = new] /\ s \in SlotFor(io)
  BY DEF RejectScratch, Reject, Opens
<1>2. slots[s] \in SlotType
  BY DEF TypeInv, TypeOK
<1>3. new \in SlotType
  BY <1>2, SlotUpdates
<1>4. /\ new.held = slots[s].held /\ new.scratch = slots[s].scratch /\ new.io = io
      /\ new.busy = slots[s].busy /\ new.failed = slots[s].failed
  BY <1>2 DEF SlotType
<1> HIDE DEF new
<1>5. QED
  BY <1>1, <1>3, <1>4 DEF Keeps

\* A failure keeps the context and the holds of its slot.
LEMMA PoisonEffect ==
  ASSUME TypeInv, OwnerInv, NEW p \in Procs,
         \/ p \in Threads /\ (Fail(p) \/ SpawnFails(p))
         \/ p \in Workers /\ GiveUp(p)
  PROVE  at[p] \in Slots /\ \E new : Keeps(at[p], new) /\ new.io = slots[at[p]].io
<1> DEFINE s == at[p]
           new == IF p \in Threads /\ Fail(p)
                  THEN [slots[s] EXCEPT !.busy = FALSE, !.failed = TRUE, !.recovering = TRUE]
                  ELSE [slots[s] EXCEPT !.recovering = FALSE]
<1>1. s \in Slots
  BY DEF Fail, SpawnFails, GiveUp, Goto, TypeInv, AtOK, InBatch
<1>2. slots[s] \in SlotType
  BY <1>1 DEF TypeInv, TypeOK
<1>3. slots' = [slots EXCEPT ![s] = new]
  BY <1>1, ProcessAssumption DEF Fail, SpawnFails, GiveUp, Goto, TypeInv, TypeOK
<1>4. new \in SlotType
  BY <1>2, SlotUpdates
<1>5. /\ new.held = slots[s].held /\ new.scratch = slots[s].scratch /\ new.io = slots[s].io
      /\ new.failed \/ (new.busy = slots[s].busy /\ new.failed = slots[s].failed)
  BY <1>2 DEF SlotType
<1> HIDE DEF new
<1>6. QED
  BY <1>1, <1>3, <1>4, <1>5 DEF Keeps

\* The end of a batch or of a recovery: nothing is held any more, and the slot
\* is free if its context has been released.
Ends(s, new) ==
  /\ new \in SlotType /\ new.held = {} /\ new.scratch = {}
  /\ new.io = IF slots[s].released THEN NoContext ELSE slots[s].io
  /\ ReleaseHolds(s, new) /\ ExtraDrop(slots[s])

\* A slot is emptied only when the GPU is done with its context.
LEMMA EndEffect ==
  ASSUME TypeInv, OwnerInv, GpuInv, NEW p \in Procs,
         (p \in Threads /\ Complete(p)) \/ (p \in Workers /\ Recover(p))
  PROVE  /\ at[p] \in Slots /\ slots[at[p]].io \in Contexts
         /\ gpu[slots[at[p]].io] = {}
         /\ \E new : Ends(at[p], new)
<1> DEFINE s == at[p]
           x == IF p \in Threads THEN [slots[s] EXCEPT !.busy = FALSE, !.activity = FALSE]
                ELSE [slots[s] EXCEPT !.recovering = FALSE]
           new == Retire(Emptied(x))
<1>1. s \in Slots /\ (slots[s].busy \/ slots[s].recovering)
  BY DEF Complete, Recover, Goto, TypeInv, AtOK, InBatch, OwnerInv, ProcsApart, Works, Procs
<1>2. slots[s] \in SlotType
  BY <1>1 DEF TypeInv, TypeOK
<1>3. slots[s].io \in Contexts
  BY <1>1, <1>2, SlotFields DEF OwnerInv, SlotsSound, SlotOK, EmptySlot
<1>4. gpu[slots[s].io] = {}
  BY DEF Complete, Recover, Goto, GpuInv, GpuQuiet
<1>5. ReleaseHolds(s, new) /\ ExtraDrop(slots[s])
  BY ProcessAssumption DEF Complete, Recover
<1>6. x \in SlotType /\ x.io = slots[s].io /\ x.released = slots[s].released
  <2>1. x \in SlotType
    BY <1>2, SlotUpdates
  <2>2. x.io = slots[s].io /\ x.released = slots[s].released
    BY <1>2 DEF SlotType
  <2>3. QED
    BY <2>1, <2>2
<1> HIDE DEF x
<1>7. /\ Emptied(x) \in SlotType /\ Emptied(x).io = x.io /\ Emptied(x).released = x.released
      /\ Emptied(x).held = {} /\ Emptied(x).scratch = {}
  <2>1. Emptied(x) \in SlotType
    BY <1>6, EmptiedType
  <2>2. /\ Emptied(x).io = x.io /\ Emptied(x).released = x.released
        /\ Emptied(x).held = {} /\ Emptied(x).scratch = {}
    BY <1>6 DEF Emptied, SlotType
  <2>3. QED
    BY <2>1, <2>2
<1>8. new \in SlotType /\ new.held = {} /\ new.scratch = {}
      /\ new.io = IF slots[s].released THEN NoContext ELSE slots[s].io
  BY <1>6, <1>7, EmptySlotType DEF Retire, EmptySlot
<1> HIDE DEF new
<1>9. QED
  BY <1>1, <1>3, <1>4, <1>5, <1>8 DEF Ends

\* The start of a batch: the slot s of io takes everything it needs.
Takes(t, io, s, rs, new) ==
  /\ slots' = [slots EXCEPT ![s] = new] /\ new \in SlotType
  /\ new.io = io /\ new.busy /\ new.held = Needed(io, rs) /\ new.scratch = buf[t]
  /\ s \in SlotFor(io) /\ ~slots[s].busy /\ ~slots[s].failed
  /\ slots[s].held = {} /\ slots[s].scratch = {}

\* A batch that is accepted puts its scratch and what it needs in its slot.
LEMMA AcquireEffect ==
  ASSUME TypeInv, OwnerInv, NEW t \in Threads, NEW io \in Contexts, NEW s \in Slots,
         NEW rs \in SUBSET Resources, Acquire(t, io, s, rs)
  PROVE  \E new : Takes(t, io, s, rs, new)
<1> DEFINE need == Needed(io, rs)
           charge == Charge(buf[t] \cup need)
           new == [slots[s] EXCEPT !.io = io, !.busy = TRUE, !.activity = TRUE,
                     !.held = need, !.scratch = buf[t], !.charged = charge]
<1>1. /\ slots' = [slots EXCEPT ![s] = new] /\ s \in SlotFor(io)
      /\ ~slots[s].busy /\ ~slots[s].failed
  BY DEF Acquire, Opens
<1>2. need \in SUBSET Resources /\ buf[t] \in SUBSET Scratch /\ slots[s] \in SlotType
  BY MemoryAssumption DEF Needed, TypeInv, TypeOK
<1>3. charge \in Nat
  BY <1>2, ChargeIsNat
<1> HIDE DEF need, charge
<1>4. new \in SlotType
  BY <1>2, <1>3, SlotAcquired
<1>5. new.io = io /\ new.busy /\ new.held = need /\ new.scratch = buf[t]
  BY <1>2 DEF SlotType
<1> HIDE DEF new
<1>6. QED
  BY <1>1, <1>4, <1>5, IdleSlot DEF Takes, need

\* A context release clears an idle slot or only marks it.
LEMMA ReleaseEffect ==
  ASSUME TypeInv, OwnerInv, NEW io \in Contexts, ContextRelease(io)
  PROVE  \/ \E s \in Find(io) : /\ slots[s].held = {} /\ slots[s].scratch = {}
                               /\ ~slots[s].busy /\ ~slots[s].recovering
                               /\ slots' = [slots EXCEPT ![s] = EmptySlot]
                               /\ drops' = [drops EXCEPT ![io] = @ + 2]
         \/ /\ slots' \in [Slots -> SlotType]
            /\ \A z \in Slots :
                 /\ slots'[z].io = slots[z].io
                 /\ slots'[z].held = slots[z].held /\ slots'[z].scratch = slots[z].scratch
                 /\ slots'[z].busy = slots[z].busy /\ slots'[z].failed = slots[z].failed
            /\ drops' = [drops EXCEPT ![io] = @ + 1]
<1>1. CASE \E s \in Find(io) : Quiescent(slots[s])
  <2>1. PICK s \in Find(io) : /\ slots' = [slots EXCEPT ![s] = EmptySlot]
                             /\ drops' = [drops EXCEPT ![io] = @ + 2]
    BY <1>1 DEF ContextRelease
  <2>2. \A z \in Find(io) : z = s
    BY <2>1, ContextAssumption DEF Find, OwnerInv, ContextsApart
  <2>3. QED
    BY <1>1, <2>1, <2>2 DEF Quiescent
<1>2. CASE ~\E s \in Find(io) : Quiescent(slots[s])
  <2>1. /\ slots' = [s \in Slots |-> IF slots[s].io = io
                                  THEN [slots[s] EXCEPT !.released = TRUE] ELSE slots[s]]
        /\ drops' = [drops EXCEPT ![io] = @ + 1]
    BY <1>2 DEF ContextRelease
  <2>2. \A z \in Slots : slots[z] \in SlotType /\ [slots[z] EXCEPT !.released = TRUE] \in SlotType
    BY SlotUpdates DEF TypeInv, TypeOK
  <2>3. \A z \in Slots : LET new == [slots[z] EXCEPT !.released = TRUE]
                         IN  /\ new.io = slots[z].io /\ new.held = slots[z].held
                             /\ new.scratch = slots[z].scratch
                             /\ new.busy = slots[z].busy /\ new.failed = slots[z].failed
    BY <2>2 DEF SlotType
  <2>4. QED
    BY <2>1, <2>2, <2>3
<1>3. QED
  BY <1>1, <1>2

\* The release of a context drops no hold.
LEMMA ReleaseKeeps ==
  ASSUME TypeInv, OwnerInv, NEW io \in Contexts, ContextRelease(io), NEW z \in Slots
  PROVE  slots'[z].held = slots[z].held /\ slots'[z].scratch = slots[z].scratch
<1>1. CASE \E s \in Find(io) : /\ slots[s].held = {} /\ slots[s].scratch = {}
                             /\ slots' = [slots EXCEPT ![s] = EmptySlot]
  <2>1. PICK s \in Slots : /\ slots[s].held = {} /\ slots[s].scratch = {}
                          /\ slots' = [slots EXCEPT ![s] = EmptySlot]
    BY <1>1 DEF Find
  <2>2. slots'[z] = IF z = s THEN EmptySlot ELSE slots[z]
    BY <2>1 DEF TypeInv, TypeOK
  <2>3. QED
    BY <2>1, <2>2 DEF EmptySlot
<1>2. CASE ~\E s \in Find(io) : /\ slots[s].held = {} /\ slots[s].scratch = {}
                              /\ slots' = [slots EXCEPT ![s] = EmptySlot]
  BY <1>2, ReleaseEffect
<1>3. QED
  BY <1>1, <1>2

-----------------------------------------------------------------------------
(* Running GPU work stays covered by holds.                                 *)

\* Where a process waits or is about to submit, the slot is in use.
LEMMA SlotInUse ==
  ASSUME TypeInv, OwnerInv, NEW p \in Procs, pc[p] \in {"submit", "fence", "completed", "failed",
                                                       "spawn", "drain", "drained", "gave_up"}
  PROVE  /\ at[p] \in Slots
         /\ slots[at[p]].busy \/ slots[at[p]].recovering
         /\ slots[at[p]].io \in Contexts
         /\ \A q \in Procs : q # p => at[q] # at[p]
<1>1. /\ at[p] \in Slots
      /\ slots[at[p]].busy \/ slots[at[p]].recovering
      /\ \A q \in Procs : q # p => at[q] # at[p]
  BY DEF TypeInv, AtOK, ThreadPC, WorkerPC, InBatch, OwnerInv, ProcsApart, Works, Procs
<1>2. slots[at[p]].io \in Contexts
  BY <1>1, SlotFields DEF TypeInv, TypeOK, OwnerInv, SlotsSound, SlotOK, EmptySlot
<1>3. QED
  BY <1>1, <1>2

\* A slot in no use covers no GPU work.
LEMMA Uncovered ==
  ASSUME TypeInv, OwnerInv, GpuInv, NEW s \in Slots, ~slots[s].busy, ~slots[s].failed,
         NEW io \in Contexts, slots[s].io = io
  PROVE  gpu[io] = {}
<1>1. \A z \in Find(io) : z = s
  BY ContextAssumption DEF Find, OwnerInv, ContextsApart
<1>2. QED
  BY <1>1 DEF GpuInv, GpuCovered

\* Work stays covered when its slot keeps its context, its holds, and the batch
\* or the failure.
LEMMA CoveredSlot ==
  ASSUME TypeInv, OwnerInv, GpuInv, NEW s \in Slots, NEW new, gpu' = gpu,
         slots' = [slots EXCEPT ![s] = new],
         \A io \in Contexts : gpu[io] # {} /\ slots[s].io = io =>
            /\ new.io = io
            /\ new.busy \/ new.failed
            /\ slots[s].held \subseteq new.held /\ slots[s].scratch \subseteq new.scratch
  PROVE  GpuCovered'
<1> SUFFICES ASSUME NEW io \in Contexts, gpu[io] # {}
             PROVE  \E z \in Slots : /\ slots'[z].io = io
                                     /\ gpu[io] \subseteq slots'[z].held \cup slots'[z].scratch
                                     /\ slots'[z].busy \/ slots'[z].failed
  BY DEF GpuCovered, Find
<1>1. PICK z \in Find(io) : /\ gpu[io] \subseteq slots[z].held \cup slots[z].scratch
                            /\ slots[z].busy \/ slots[z].failed
  BY DEF GpuInv, GpuCovered
<1>2. z \in Slots /\ slots[z].io = io /\ slots'[z] = IF z = s THEN new ELSE slots[z]
  BY <1>1 DEF Find, TypeInv, TypeOK
<1>3. CASE z = s
  BY <1>1, <1>2, <1>3
<1>4. CASE z # s
  BY <1>1, <1>2, <1>4
<1>5. QED
  BY <1>3, <1>4

\* An idle slot covers nothing, so it may become anything.
LEMMA CoveredIdle ==
  ASSUME TypeInv, OwnerInv, GpuInv, NEW s \in Slots, ~slots[s].busy, ~slots[s].failed,
         NEW new, gpu' = gpu, slots' = [slots EXCEPT ![s] = new]
  PROVE  GpuCovered'
<1>1. ASSUME NEW c \in Contexts, gpu[c] # {}, slots[s].io = c PROVE FALSE
  <2>1. gpu[c] = {}
    BY <1>1, Uncovered
  <2>2. QED
    BY <1>1, <2>1
<1>2. \A io \in Contexts : gpu[io] # {} /\ slots[s].io = io =>
        /\ new.io = io
        /\ new.busy \/ new.failed
        /\ slots[s].held \subseteq new.held /\ slots[s].scratch \subseteq new.scratch
  BY <1>1
<1>3. QED
  BY <1>2, CoveredSlot

\* A process p that has the slot s changes it; nobody else is at s.
LEMMA QuietSlot ==
  ASSUME TypeInv, OwnerInv, GpuInv, NEW s \in Slots, NEW new, gpu' = gpu,
         slots' = [slots EXCEPT ![s] = new],
         NEW p \in Procs, \A q \in Procs : q # p => at[q] # s /\ at'[q] = at[q] /\ pc'[q] = pc[q],
         pc'[p] \in {"submit", "completed", "drained"} => gpu[slots'[at'[p]].io] = {}
  PROVE  GpuQuiet'
<1> SUFFICES ASSUME NEW q \in Procs, pc'[q] \in {"submit", "completed", "drained"}
             PROVE  gpu[slots'[at'[q]].io] = {}
  BY DEF GpuQuiet
<1>1. CASE q = p
  BY <1>1
<1>2. CASE q # p
  <2>1. at[q] \in Slots
    BY <1>2, SlotInUse
  <2>2. slots'[at'[q]] = slots[at[q]]
    BY <1>2, <2>1 DEF TypeInv, TypeOK
  <2>3. QED
    BY <1>2, <2>2 DEF GpuInv, GpuQuiet
<1>3. QED
  BY <1>1, <1>2

\* A step that leaves the slots and the GPU alone and moves one process at most.
LEMMA QuietMove ==
  ASSUME TypeInv, OwnerInv, GpuInv, gpu' = gpu, slots' = slots,
         NEW p \in Procs, \A q \in Procs : q # p => at'[q] = at[q] /\ pc'[q] = pc[q],
         pc'[p] \in {"submit", "completed", "drained"} => gpu[slots[at'[p]].io] = {}
  PROVE  GpuInv'
<1>1. GpuCovered'
  BY DEF GpuInv, GpuCovered, Find
<1>2. GpuQuiet'
  BY DEF GpuInv, GpuQuiet
<1>3. QED
  BY <1>1, <1>2 DEF GpuInv

\* At start the GPU runs nothing.
THEOREM GpuInit == Init => GpuInv
  BY ProcessAssumption DEF Init, GpuInv, GpuCovered, GpuQuiet, Procs

\* No step drops a hold while work may still use it.
THEOREM GpuStep == TypeInv /\ OwnerInv /\ GpuInv /\ [Next]_vars => GpuInv'
<1> SUFFICES ASSUME TypeInv, OwnerInv, GpuInv, [Next]_vars PROVE GpuInv'
  OBVIOUS
<1> USE ContextAssumption, ProcessAssumption
<1>1. ASSUME NEW t \in Threads,
             \/ \E X \in SUBSET Scratch : Prepare(t, X)
             \/ \E io \in Contexts : Refuse(t, io)
             \/ Abandon(t) \/ Cleanup(t)
      PROVE  GpuInv'
  <2>1. gpu' = gpu /\ slots' = slots /\ at' = at
        /\ \E q \in {"prepared", "cleanup", "idle"} : pc' = [pc EXCEPT ![t] = q]
    BY <1>1 DEF Prepare, Refuse, Abandon, Cleanup, Goto
  <2>2. QED
    BY <2>1, QuietMove DEF Procs, TypeInv, TypeOK
<1>2. ASSUME NEW t \in Threads, FinishFence(t) PROVE GpuInv'
  <2>1. gpu' = gpu /\ slots' = slots /\ at' = at
        /\ \/ pc' = [pc EXCEPT ![t] = "completed"] /\ gpu[slots[at[t]].io] = {}
           \/ pc' = [pc EXCEPT ![t] = "failed"]
    BY <1>2 DEF FinishFence, Goto
  <2>2. QED
    BY <2>1, QuietMove DEF Procs, TypeInv, TypeOK
<1>3. ASSUME NEW w \in Workers, Drain(w) PROVE GpuInv'
  <2>1. gpu' = gpu /\ slots' = slots /\ at' = at
        /\ \/ pc' = [pc EXCEPT ![w] = "drained"] /\ gpu[slots[at[w]].io] = {}
           \/ pc' = [pc EXCEPT ![w] = "drain"]
           \/ pc' = [pc EXCEPT ![w] = "gave_up"]
    BY <1>3 DEF Drain, Goto
  <2>2. QED
    BY <2>1, QuietMove DEF Procs, TypeInv, TypeOK
<1>4. ASSUME NEW p \in Procs, EndTransaction(p) PROVE GpuInv'
  <2>1. gpu' = gpu /\ slots' = slots /\ at' = at
        /\ \E q \in {"cleanup", "idle"} : pc' = [pc EXCEPT ![p] = q]
    BY <1>4 DEF EndTransaction, Goto
  <2>2. QED
    BY <2>1, QuietMove DEF TypeInv, TypeOK
<1>5. ASSUME NEW t \in Threads, NEW w \in Workers, Spawn(t, w) PROVE GpuInv'
  <2>1. gpu' = gpu /\ slots' = slots /\ pc' = [pc EXCEPT ![t] = "cleanup", ![w] = "drain"]
        /\ at' = [at EXCEPT ![t] = NoSlot, ![w] = at[t]]
    BY <1>5 DEF Spawn
  <2>2. GpuCovered'
    BY <2>1 DEF GpuInv, GpuCovered, Find
  <2>3. GpuQuiet'
    BY <2>1 DEF GpuInv, GpuQuiet, Procs, TypeInv, TypeOK
  <2>4. QED
    BY <2>2, <2>3 DEF GpuInv
<1>6. ASSUME NEW t \in Threads, NEW io \in Contexts, NEW s \in Slots,
             RejectScratch(t, io, s) \/ Reject(t, io, s)
      PROVE  GpuInv'
  <2>1. PICK new : Keeps(s, new) /\ new.io = io
    BY <1>6, AdoptEffect
  <2>2. /\ gpu' = gpu /\ at' = at /\ pc' = [pc EXCEPT ![t] = "cleanup"]
        /\ pc[t] = "prepared" /\ s \in SlotFor(io)
        /\ ~slots[s].busy /\ ~slots[s].failed
    BY <1>6, AdoptEffect DEF RejectScratch, Reject, Goto, Opens
  <2>3. GpuCovered'
    BY <2>1, <2>2, CoveredIdle DEF Keeps
  <2>4. \A q \in Procs : at[q] # s
    BY <2>2, IdleSlotUnowned
  <2>5. GpuQuiet'
    <3>1. slots' = [slots EXCEPT ![s] = new]
      BY <2>1 DEF Keeps
    <3>2. t \in Procs /\ pc'[t] = "cleanup"
          /\ \A q \in Procs : q # t => at'[q] = at[q] /\ pc'[q] = pc[q]
      BY <2>2 DEF Procs, TypeInv, TypeOK
    <3>3. QED
      BY <2>2, <2>4, <3>1, <3>2, QuietSlot
  <2>6. QED
    BY <2>3, <2>5 DEF GpuInv
<1>7. ASSUME NEW t \in Threads, NEW io \in Contexts, NEW s \in Slots,
             NEW rs \in SUBSET Resources, Acquire(t, io, s, rs)
      PROVE  GpuInv'
  <2>1. PICK new : Takes(t, io, s, rs, new)
    BY <1>7, AcquireEffect
  <2>2. /\ gpu' = gpu /\ at' = [at EXCEPT ![t] = s] /\ pc' = [pc EXCEPT ![t] = "submit"]
        /\ pc[t] = "prepared"
    BY <1>7 DEF Acquire, Goto
  <2>3. gpu[io] = {}
    BY <2>1 DEF Takes, SlotFor, Find, Unused, GpuInv, GpuCovered, OwnerInv, ContextsApart
  <2>4. GpuCovered'
    BY <2>1, <2>2, CoveredIdle DEF Takes
  <2>5. \A q \in Procs : at[q] # s
    BY <2>1, IdleSlotUnowned DEF Takes
  <2>6. slots'[at'[t]].io = io
    BY <2>1, <2>2 DEF Takes, TypeInv, TypeOK, Procs
  <2>7. GpuQuiet'
    BY <2>1, <2>2, <2>3, <2>5, <2>6, QuietSlot DEF Takes, Procs, TypeInv, TypeOK
  <2>8. QED
    BY <2>4, <2>7 DEF GpuInv
<1>8. ASSUME NEW t \in Threads, Submit(t) PROVE GpuInv'
  <2> DEFINE s == at[t]
             io == slots[s].io
  <2>1. /\ pc[t] = "submit" /\ slots' = slots /\ at' = at
        /\ \E q \in {"fence", "failed"} : pc' = [pc EXCEPT ![t] = q]
        /\ \/ gpu' = gpu
           \/ gpu' = [gpu EXCEPT ![io] = slots[s].held \cup slots[s].scratch]
    BY <1>8 DEF Submit, Goto
  <2>2. s \in Slots /\ io \in Contexts /\ slots[s].busy /\ \A q \in Procs : q # t => at[q] # s
    BY <2>1, SlotInUse DEF Procs, InBatch, OwnerInv, ProcsApart
  <2>3. \A z \in Slots : z # s => slots[z].io # io
    BY <2>2 DEF OwnerInv, ContextsApart
  <2> HIDE DEF s, io
  <2>4. GpuCovered'
    BY <2>1, <2>2 DEF s, io, GpuInv, GpuCovered, Find, TypeInv, TypeOK
  <2>5. ASSUME NEW q \in Procs, pc'[q] \in {"submit", "completed", "drained"}
        PROVE  gpu'[slots'[at'[q]].io] = {}
    <3>1. q # t /\ pc'[q] = pc[q]
      BY <2>1, <2>5 DEF TypeInv, TypeOK, Procs
    <3>2. at[q] \in Slots /\ slots[at[q]].io \in Contexts /\ slots[at[q]].io # io
      BY <2>2, <2>3, <2>5, <3>1, SlotInUse
    <3>3. QED
      BY <2>1, <2>5, <3>1, <3>2 DEF GpuInv, GpuQuiet, TypeInv, TypeOK
  <2>6. QED
    BY <2>4, <2>5 DEF GpuInv, GpuQuiet
<1>9. ASSUME NEW p \in Procs,
             (p \in Threads /\ Complete(p)) \/ (p \in Workers /\ Recover(p))
      PROVE  GpuInv'
  <2>1. /\ at[p] \in Slots /\ slots[at[p]].io \in Contexts /\ gpu[slots[at[p]].io] = {}
    BY <1>9, EndEffect
  <2>2. PICK new : Ends(at[p], new)
    BY <1>9, EndEffect
  <2>3. /\ slots' = [slots EXCEPT ![at[p]] = new] /\ gpu' = gpu
        /\ at' = [at EXCEPT ![p] = NoSlot] /\ pc[p] \in {"completed", "drained"}
        /\ \E q \in {"ending", "idle"} : pc' = [pc EXCEPT ![p] = q]
    BY <1>9, <2>2 DEF Ends, ReleaseHolds, Complete, Recover, Goto
  <2>4. \A q \in Procs : q # p => at[q] # at[p]
    BY <2>3, SlotInUse
  <2>5. GpuCovered'
    BY <2>1, <2>3, CoveredSlot
  <2>6. /\ \A q \in Procs : q # p => at[q] # at[p] /\ at'[q] = at[q] /\ pc'[q] = pc[q]
        /\ pc'[p] \notin {"submit", "completed", "drained"}
    BY <2>3, <2>4 DEF TypeInv, TypeOK
  <2>7. GpuQuiet'
    BY <2>1, <2>3, <2>6, QuietSlot
  <2>8. QED
    BY <2>5, <2>7 DEF GpuInv
<1>10. ASSUME NEW p \in Procs,
              \/ p \in Threads /\ (Fail(p) \/ SpawnFails(p))
              \/ p \in Workers /\ GiveUp(p)
       PROVE  GpuInv'
  <2>1. at[p] \in Slots
    BY <1>10, PoisonEffect
  <2>2. PICK new : Keeps(at[p], new) /\ new.io = slots[at[p]].io
    BY <1>10, PoisonEffect
  <2>3. /\ gpu' = gpu /\ pc[p] \in {"failed", "spawn", "gave_up"}
        /\ at' = at \/ at' = [at EXCEPT ![p] = NoSlot]
        /\ \E q \in {"spawn", "cleanup", "idle"} : pc' = [pc EXCEPT ![p] = q]
    BY <1>10 DEF Fail, SpawnFails, GiveUp, Goto
  <2>4. /\ \A q \in Procs : q # p => at[q] # at[p]
        /\ slots[at[p]].busy \/ slots[at[p]].failed
    BY <2>1, <2>3, SlotInUse DEF OwnerInv, SlotsSound, SlotOK
  <2>5. GpuCovered'
    BY <2>1, <2>2, <2>3, <2>4, CoveredSlot DEF Keeps
  <2>6. /\ \A q \in Procs : q # p => at[q] # at[p] /\ at'[q] = at[q] /\ pc'[q] = pc[q]
        /\ pc'[p] \notin {"submit", "completed", "drained"}
    BY <2>3, <2>4 DEF TypeInv, TypeOK
  <2>7. GpuQuiet'
    BY <2>1, <2>2, <2>3, <2>6, QuietSlot DEF Keeps
  <2>8. QED
    BY <2>5, <2>7 DEF GpuInv
<1>11. ASSUME NEW io \in Contexts, ContextRelease(io) PROVE GpuInv'
  <2>1. gpu' = gpu /\ pc' = pc /\ at' = at
    BY <1>11 DEF ContextRelease
  <2>2. CASE \E s \in Find(io) : /\ slots[s].held = {} /\ slots[s].scratch = {}
                                /\ ~slots[s].busy /\ ~slots[s].recovering
                                /\ slots' = [slots EXCEPT ![s] = EmptySlot]
    <3>1. PICK s \in Find(io) : /\ slots[s].held = {} /\ slots[s].scratch = {}
                               /\ ~slots[s].busy /\ ~slots[s].recovering
                               /\ slots' = [slots EXCEPT ![s] = EmptySlot]
      BY <2>2
    <3>2. \A z \in Find(io) : z = s
      BY <3>1 DEF Find, OwnerInv, ContextsApart
    <3>3. gpu[io] = {} /\ s \in Slots /\ slots[s].io = io
      BY <3>1, <3>2 DEF GpuInv, GpuCovered, Find
    <3>4. GpuCovered'
      BY <2>1, <3>1, <3>3, CoveredSlot
    <3>5. \A q \in Procs : pc[q] \in {"submit", "completed", "drained"} => at[q] # s
      BY <3>1, SlotInUse
    <3>6. ASSUME NEW q \in Procs, pc[q] \in {"submit", "completed", "drained"}
          PROVE  gpu[slots'[at[q]].io] = {}
      <4>1. at[q] \in Slots /\ at[q] # s
        BY <3>5, <3>6, SlotInUse
      <4>2. slots'[at[q]] = slots[at[q]]
        BY <3>1, <4>1 DEF TypeInv, TypeOK
      <4>3. QED
        BY <3>6, <4>2 DEF GpuInv, GpuQuiet
    <3>7. QED
      BY <2>1, <3>4, <3>6 DEF GpuInv, GpuQuiet
  <2>3. CASE \A z \in Slots :
                /\ slots'[z].io = slots[z].io
                /\ slots'[z].held = slots[z].held /\ slots'[z].scratch = slots[z].scratch
                /\ slots'[z].busy = slots[z].busy /\ slots'[z].failed = slots[z].failed
    <3>1. GpuCovered'
      BY <2>1, <2>3 DEF GpuInv, GpuCovered, Find
    <3>2. \A q \in Procs : pc[q] \in {"submit", "completed", "drained"} => at[q] \in Slots
      BY SlotInUse
    <3>3. QED
      BY <2>1, <2>3, <3>1, <3>2 DEF GpuInv, GpuQuiet
  <2>4. QED
    BY <1>11, <2>2, <2>3, ReleaseEffect
<1>12. ASSUME NEW io \in Contexts, GpuFinishes(io) PROVE GpuInv'
  <2>1. /\ gpu' = [gpu EXCEPT ![io] = {}] /\ slots' = slots /\ pc' = pc /\ at' = at
    BY <1>12 DEF GpuFinishes
  <2>2. GpuCovered'
    BY <2>1 DEF GpuInv, GpuCovered, Find, TypeInv, TypeOK
  <2>3. GpuQuiet'
    BY <2>1, SlotInUse DEF GpuInv, GpuQuiet, TypeInv, TypeOK
  <2>4. QED
    BY <2>2, <2>3 DEF GpuInv
<1>13. ASSUME gpu' = gpu, slots' = slots, pc' = pc, at' = at PROVE GpuInv'
  BY <1>13 DEF GpuInv, GpuCovered, GpuQuiet, Find
<1>14. ASSUME NEW io \in Contexts, ContextCreate(io) \/ NativeContextRelease(io) PROVE GpuInv'
  BY <1>13, <1>14 DEF ContextCreate, NativeContextRelease
<1>15. ASSUME NEW r \in Resources,
              ResourceCreate(r) \/ ResourceRelease(r) \/ NativeResourceRelease(r)
       PROVE  GpuInv'
  BY <1>13, <1>15 DEF ResourceCreate, ResourceRelease, NativeResourceRelease
<1>16. ASSUME NEW g \in Ranges, VmAllocate(g) \/ VmDeallocate(g) PROVE GpuInv'
  BY <1>13, <1>16 DEF VmAllocate, VmDeallocate
<1>17. ASSUME ReleaseEndsTransaction \/ UNCHANGED vars PROVE GpuInv'
  BY <1>13, <1>17 DEF ReleaseEndsTransaction, vars
<1>18. ASSUME NEW t \in Threads, ThreadStep(t) PROVE GpuInv'
  <2>1. CASE Execute(t)
    BY <1>1, <1>6, <1>7, <2>1 DEF Execute
  <2>2. CASE Complete(t) \/ Fail(t) \/ SpawnFails(t) \/ EndTransaction(t)
    BY <1>4, <1>9, <1>10, <2>2 DEF Procs
  <2>3. QED
    BY <1>1, <1>2, <1>5, <1>8, <1>18, <2>1, <2>2 DEF ThreadStep
<1>19. ASSUME NEW w \in Workers, WorkerStep(w) PROVE GpuInv'
  BY <1>3, <1>4, <1>9, <1>10, <1>19 DEF WorkerStep, Procs
<1>20. QED
  BY <1>1, <1>11, <1>12, <1>14, <1>15, <1>16, <1>17, <1>18, <1>19 DEF Next, PendingCall
-----------------------------------------------------------------------------
(* Pages that are held or owned stay mapped.                                *)

\* A step that touches no memory and no hold keeps the memory invariant.
LEMMA MemSame ==
  ASSUME MemInv, mapped' = mapped, owned' = owned, deferred' = deferred,
         \A s \in Slots : slots'[s].held \subseteq slots[s].held
  PROVE  MemInv'
  BY DEF MemInv

\* Deferred ranges that no hold covers are unmapped.
LEMMA MemSwept ==
  ASSUME MemInv, owned' = owned,
         NEW done \in SUBSET deferred, deferred' = deferred \ done,
         mapped' = mapped \ UNION done,
         \A s \in Slots : slots'[s].held \subseteq slots[s].held,
         \A g \in done, s \in Slots : \A r \in slots'[s].held : g \cap Memory[r] = {}
  PROVE  MemInv'
<1>1. owned' \subseteq mapped'
  BY DEF MemInv
<1>2. \A s \in Slots : \A r \in slots'[s].held : Memory[r] \subseteq mapped'
  BY DEF MemInv
<1>3. \A g \in deferred' : g \subseteq mapped' /\ g \cap owned' = {}
  BY DEF MemInv
<1>4. \A g, h \in deferred' : g # h => g \cap h = {}
  BY DEF MemInv
<1>5. QED
  BY <1>1, <1>2, <1>3, <1>4 DEF MemInv

\* All pages of what a slot holds are tracked.
LEMMA TrackedMemory ==
  ASSUME TypeInv, OwnerInv, NEW s \in Slots, NEW r \in slots[s].held
  PROVE  Tracked(r) = Memory[r]
  BY DEF Tracked, OwnerInv, SlotsSound, SlotOK

\* At start no range is deferred and no resource held.
THEOREM MemInit == Init => MemInv
  BY DEF Init, MemInv, EmptySlot

\* No step unmaps what a resource, a batch or the driver still needs.
THEOREM MemStep == TypeInv /\ OwnerInv /\ GpuInv /\ MemInv /\ [Next]_vars => MemInv'
<1> SUFFICES ASSUME TypeInv, OwnerInv, GpuInv, MemInv, [Next]_vars PROVE MemInv'
  OBVIOUS
<1> USE ContextAssumption, ProcessAssumption
<1>1. ASSUME slots' = slots, mapped' = mapped, owned' = owned, deferred' = deferred PROVE MemInv'
  BY <1>1, MemSame
<1>2. ASSUME NEW t \in Threads,
             \/ \E X \in SUBSET Scratch : Prepare(t, X)
             \/ \E io \in Contexts : Refuse(t, io)
             \/ \E w \in Workers : Spawn(t, w)
             \/ Abandon(t) \/ Cleanup(t) \/ Submit(t) \/ FinishFence(t)
      PROVE  MemInv'
  BY <1>1, <1>2 DEF Prepare, Refuse, Spawn, Abandon, Cleanup, Submit, FinishFence
<1>3. ASSUME NEW p \in Procs, EndTransaction(p) \/ (p \in Workers /\ Drain(p)) PROVE MemInv'
  BY <1>1, <1>3 DEF EndTransaction, Drain
<1>4. ASSUME NEW io \in Contexts, ContextCreate(io) \/ NativeContextRelease(io) \/ GpuFinishes(io)
      PROVE  MemInv'
  BY <1>1, <1>4 DEF ContextCreate, NativeContextRelease, GpuFinishes
<1>5. ASSUME NEW r \in Resources,
             ResourceCreate(r) \/ ResourceRelease(r) \/ NativeResourceRelease(r)
      PROVE  MemInv'
  BY <1>1, <1>5 DEF ResourceCreate, ResourceRelease, NativeResourceRelease
<1>6. ASSUME ReleaseEndsTransaction \/ UNCHANGED vars PROVE MemInv'
  BY <1>1, <1>6 DEF ReleaseEndsTransaction, vars
<1>7. ASSUME NEW p \in Procs,
             \/ p \in Threads /\ (Fail(p) \/ SpawnFails(p))
             \/ p \in Workers /\ GiveUp(p)
      PROVE  MemInv'
  <2>1. PICK new : Keeps(at[p], new)
    BY <1>7, PoisonEffect
  <2>2. mapped' = mapped /\ owned' = owned /\ deferred' = deferred
    BY <1>7 DEF Fail, SpawnFails, GiveUp
  <2>3. \A s \in Slots : slots'[s].held = slots[s].held
    BY <2>1 DEF Keeps, TypeInv, TypeOK
  <2>4. QED
    BY <2>2, <2>3, MemSame
<1>8. ASSUME NEW io \in Contexts, ContextRelease(io) PROVE MemInv'
  <2>1. mapped' = mapped /\ owned' = owned /\ deferred' = deferred
    BY <1>8 DEF ContextRelease
  <2>2. \A s \in Slots : slots'[s].held = slots[s].held
    BY <1>8, ReleaseKeeps
  <2>3. QED
    BY <2>1, <2>2, MemSame
<1>9. ASSUME NEW t \in Threads, NEW io \in Contexts, NEW s \in Slots,
             RejectScratch(t, io, s) \/ Reject(t, io, s)
      PROVE  MemInv'
  <2>1. PICK new : Keeps(s, new)
    BY <1>9, AdoptEffect
  <2>2. \A z \in Slots : slots'[z].held = slots[z].held
    BY <2>1 DEF Keeps, TypeInv, TypeOK
  <2>3. CASE RejectScratch(t, io, s)
    BY <2>2, <2>3, MemSame DEF RejectScratch
  <2>4. CASE Reject(t, io, s)
    <3>1. PICK done \in SUBSET {g \in deferred : ~HeldRange(slots, g)} :
            deferred' = deferred \ done /\ mapped' = mapped \ UNION done
      BY <2>4 DEF Reject, SweepDeferred
    <3>2. \A g \in done, z \in Slots : \A r \in slots'[z].held : g \cap Memory[r] = {}
      BY <2>2, <3>1, TrackedMemory DEF HeldRange
    <3>3. owned' = owned
      BY <2>4 DEF Reject
    <3>4. QED
      BY <2>2, <3>1, <3>2, <3>3, MemSwept
  <2>5. QED
    BY <1>9, <2>3, <2>4
<1>10. ASSUME NEW p \in Procs,
              (p \in Threads /\ Complete(p)) \/ (p \in Workers /\ Recover(p))
       PROVE  MemInv'
  <2>1. PICK new : Ends(at[p], new)
    BY <1>10, EndEffect
  <2>2. \A z \in Slots : slots'[z].held \subseteq slots[z].held
    BY <2>1 DEF Ends, ReleaseHolds, TypeInv, TypeOK
  <2>3. PICK done \in SUBSET {g \in deferred : ~HeldRange(slots', g)} :
          deferred' = deferred \ done /\ mapped' = mapped \ UNION done
    BY <2>1 DEF Ends, ReleaseHolds, SweepDeferred
  <2>4. \A g \in done, z \in Slots : \A r \in slots'[z].held : g \cap Memory[r] = {}
    BY <2>2, <2>3, TrackedMemory DEF HeldRange
  <2>5. owned' = owned
    BY <1>10 DEF Complete, Recover
  <2>6. QED
    BY <2>2, <2>3, <2>4, <2>5, MemSwept
<1>11. ASSUME NEW t \in Threads, NEW io \in Contexts, NEW s \in Slots,
              NEW rs \in SUBSET Resources, Acquire(t, io, s, rs)
       PROVE  MemInv'
  <2>1. PICK new : Takes(t, io, s, rs, new)
    BY <1>11, AcquireEffect
  <2>2. mapped' = mapped /\ owned' = owned /\ deferred' = deferred
    BY <1>11 DEF Acquire
  <2>3. \A r \in Needed(io, rs) : Memory[r] \subseteq mapped
    BY <1>11, MemoryAssumption DEF Acquire, Acquirable, Callable, Needed, MemInv
  <2>4. \A z \in Slots : \A r \in slots'[z].held : Memory[r] \subseteq mapped
    BY <2>1, <2>3 DEF Takes, MemInv, TypeInv, TypeOK
  <2>5. QED
    BY <2>2, <2>4 DEF MemInv
<1>12. ASSUME NEW g \in Ranges, VmAllocate(g) PROVE MemInv'
  BY <1>12 DEF VmAllocate, MemInv
<1>13. ASSUME NEW g \in Ranges, VmDeallocate(g) PROVE MemInv'
  <2>1. slots' = slots /\ owned' = owned \ g /\ g \subseteq owned
    BY <1>13 DEF VmDeallocate
  <2>2. CASE deferred' = deferred \cup {g} /\ mapped' = mapped
    BY <2>1, <2>2 DEF MemInv
  <2>3. CASE ~HeldRange(slots, g) /\ mapped' = mapped \ g /\ deferred' = deferred
    <3>1. \A s \in Slots : \A r \in slots[s].held : g \cap Memory[r] = {}
      BY <2>3, TrackedMemory DEF HeldRange
    <3>2. QED
      BY <2>1, <2>3, <3>1 DEF MemInv
  <2>4. QED
    BY <1>13, <2>2, <2>3 DEF VmDeallocate
<1>14. ASSUME NEW t \in Threads, ThreadStep(t) PROVE MemInv'
  <2>1. CASE Execute(t)
    BY <1>2, <1>9, <1>11, <2>1 DEF Execute
  <2>2. CASE Complete(t) \/ Fail(t) \/ SpawnFails(t) \/ EndTransaction(t)
    BY <1>3, <1>7, <1>10, <2>2 DEF Procs
  <2>3. QED
    BY <1>2, <1>14, <2>1, <2>2 DEF ThreadStep
<1>15. ASSUME NEW w \in Workers, WorkerStep(w) PROVE MemInv'
  BY <1>3, <1>7, <1>10, <1>15 DEF WorkerStep, Procs
<1>16. QED
  BY <1>2, <1>4, <1>5, <1>6, <1>8, <1>12, <1>13, <1>14, <1>15 DEF Next, PendingCall
-----------------------------------------------------------------------------
(* Scratch has one owner.                                                   *)

\* A step that moves no scratch keeps the scratch invariant.
LEMMA ScratchSame ==
  ASSUME ScratchInv, live' = live, buf' = buf,
         \A s \in Slots : slots'[s].scratch = slots[s].scratch,
         \A t \in Threads : pc'[t] = "idle" => pc[t] = "idle"
  PROVE  ScratchInv'
  BY DEF ScratchInv

\* At start there is no scratch.
THEOREM ScratchInit == Init => ScratchInv
  BY DEF Init, ScratchInv, EmptySlot

\* Scratch passes from its call to a slot or to its release, never to both.
THEOREM ScratchStep == TypeInv /\ OwnerInv /\ GpuInv /\ ScratchInv /\ [Next]_vars => ScratchInv'
<1> SUFFICES ASSUME TypeInv, OwnerInv, GpuInv, ScratchInv, [Next]_vars PROVE ScratchInv'
  OBVIOUS
<1> USE ContextAssumption, ProcessAssumption
<1>1. ASSUME slots' = slots, live' = live, buf' = buf,
             \A t \in Threads : pc'[t] = "idle" => pc[t] = "idle"
      PROVE  ScratchInv'
  BY <1>1, ScratchSame
<1>2. ASSUME NEW t \in Threads,
             \/ \E io \in Contexts : Refuse(t, io)
             \/ \E w \in Workers : Spawn(t, w)
             \/ Abandon(t) \/ Submit(t) \/ FinishFence(t)
      PROVE  ScratchInv'
  <2>1. /\ slots' = slots /\ live' = live /\ buf' = buf
        /\ \A u \in Threads : pc'[u] = "idle" => pc[u] = "idle"
    BY <1>2 DEF Refuse, Spawn, Abandon, Submit, FinishFence, Goto, Procs, TypeInv, TypeOK
  <2>2. QED
    BY <1>1, <2>1
<1>3. ASSUME NEW p \in Procs, EndTransaction(p) \/ (p \in Workers /\ Drain(p)) PROVE ScratchInv'
  <2>1. /\ slots' = slots /\ live' = live /\ buf' = buf
        /\ \A u \in Threads : pc'[u] = "idle" => pc[u] = "idle"
    BY <1>3 DEF EndTransaction, Drain, Goto, Procs, TypeInv, TypeOK
  <2>2. QED
    BY <1>1, <2>1
<1>4. ASSUME NEW io \in Contexts, ContextCreate(io) \/ NativeContextRelease(io) \/ GpuFinishes(io)
      PROVE  ScratchInv'
  BY <1>1, <1>4 DEF ContextCreate, NativeContextRelease, GpuFinishes
<1>5. ASSUME NEW r \in Resources,
             ResourceCreate(r) \/ ResourceRelease(r) \/ NativeResourceRelease(r)
      PROVE  ScratchInv'
  BY <1>1, <1>5 DEF ResourceCreate, ResourceRelease, NativeResourceRelease
<1>6. ASSUME NEW g \in Ranges, VmAllocate(g) \/ VmDeallocate(g) PROVE ScratchInv'
  BY <1>1, <1>6 DEF VmAllocate, VmDeallocate
<1>7. ASSUME ReleaseEndsTransaction \/ UNCHANGED vars PROVE ScratchInv'
  BY <1>1, <1>7 DEF ReleaseEndsTransaction, vars
<1>8. ASSUME NEW p \in Procs,
             \/ p \in Threads /\ (Fail(p) \/ SpawnFails(p))
             \/ p \in Workers /\ GiveUp(p)
      PROVE  ScratchInv'
  <2>1. PICK new : Keeps(at[p], new)
    BY <1>8, PoisonEffect
  <2>2. \A s \in Slots : slots'[s].scratch = slots[s].scratch
    BY <2>1 DEF Keeps, TypeInv, TypeOK
  <2>3. /\ live' = live /\ buf' = buf
        /\ \A u \in Threads : pc'[u] = "idle" => pc[u] = "idle"
    BY <1>8 DEF Fail, SpawnFails, GiveUp, Goto, Procs, TypeInv, TypeOK
  <2>4. QED
    BY <2>2, <2>3, ScratchSame
<1>9. ASSUME NEW io \in Contexts, ContextRelease(io) PROVE ScratchInv'
  <2>1. live' = live /\ buf' = buf /\ pc' = pc
    BY <1>9 DEF ContextRelease
  <2>2. \A s \in Slots : slots'[s].scratch = slots[s].scratch
    BY <1>9, ReleaseKeeps
  <2>3. QED
    BY <2>1, <2>2, ScratchSame
<1>10. ASSUME NEW t \in Threads, NEW io \in Contexts, NEW s \in Slots,
              RejectScratch(t, io, s) \/ Reject(t, io, s)
       PROVE  ScratchInv'
  <2>1. PICK new : Keeps(s, new)
    BY <1>10, AdoptEffect
  <2>2. \A z \in Slots : slots'[z].scratch = slots[z].scratch
    BY <2>1 DEF Keeps, TypeInv, TypeOK
  <2>3. /\ live' = live /\ buf' = buf
        /\ \A u \in Threads : pc'[u] = "idle" => pc[u] = "idle"
    BY <1>10 DEF RejectScratch, Reject, Goto, Procs, TypeInv, TypeOK
  <2>4. QED
    BY <2>2, <2>3, ScratchSame
<1>11. ASSUME NEW p \in Procs,
              (p \in Threads /\ Complete(p)) \/ (p \in Workers /\ Recover(p))
       PROVE  ScratchInv'
  <2> DEFINE s == at[p]
  <2>1. PICK new : Ends(s, new)
    BY <1>11, EndEffect
  <2>2. s \in Slots
    BY <1>11, EndEffect
  <2>3. \A z \in Slots : slots'[z].scratch = IF z = s THEN {} ELSE slots[z].scratch
    BY <2>1, <2>2 DEF Ends, ReleaseHolds, TypeInv, TypeOK
  <2>4. /\ live' = live \ slots[s].scratch /\ buf' = buf
    BY <1>11, <2>1 DEF Complete, Recover, Ends, ReleaseHolds
  <2>5. \A u \in Threads : pc'[u] = "idle" => pc[u] = "idle"
    BY <1>11 DEF Complete, Recover, Goto, Procs, TypeInv, TypeOK
  <2> HIDE DEF s
  <2>6. QED
    BY <2>2, <2>3, <2>4, <2>5 DEF ScratchInv
<1>12. ASSUME NEW t \in Threads, NEW io \in Contexts, NEW s \in Slots,
              NEW rs \in SUBSET Resources, Acquire(t, io, s, rs)
       PROVE  ScratchInv'
  <2>1. PICK new : Takes(t, io, s, rs, new)
    BY <1>12, AcquireEffect
  <2>2. /\ \A z \in Slots : slots'[z].scratch = IF z = s THEN buf[t] ELSE slots[z].scratch
        /\ slots[s].scratch = {}
    BY <2>1 DEF Takes, TypeInv, TypeOK
  <2>3. /\ live' = live
        /\ \A u \in Threads : buf'[u] = IF u = t THEN {} ELSE buf[u]
        /\ \A u \in Threads : pc'[u] = "idle" => pc[u] = "idle"
    BY <1>12 DEF Acquire, Surrendered, Goto, Procs, TypeInv, TypeOK
  <2>4. QED
    BY <2>2, <2>3 DEF ScratchInv
<1>13. ASSUME NEW t \in Threads, NEW X \in SUBSET Scratch, Prepare(t, X) PROVE ScratchInv'
  <2>1. /\ \A u \in Threads : buf'[u] = IF u = t THEN X ELSE buf[u]
        /\ \A u \in Threads : pc'[u] = "idle" => pc[u] = "idle" /\ u # t
        /\ slots' = slots /\ live' = live \cup X /\ X \cap live = {} /\ buf[t] = {}
    BY <1>13 DEF Prepare, Goto, ScratchInv, Procs, TypeInv, TypeOK
  <2>2. QED
    BY <2>1 DEF ScratchInv
<1>14. ASSUME NEW t \in Threads, Cleanup(t) PROVE ScratchInv'
  <2>1. /\ \A u \in Threads : buf'[u] = IF u = t THEN {} ELSE buf[u]
        /\ \A u \in Threads : pc'[u] = "idle" => pc[u] = "idle" \/ u = t
        /\ slots' = slots /\ live' = live \ buf[t]
    BY <1>14 DEF Cleanup, Goto, Procs, TypeInv, TypeOK
  <2>2. QED
    BY <2>1 DEF ScratchInv
<1>15. ASSUME NEW t \in Threads, ThreadStep(t) PROVE ScratchInv'
  <2>1. CASE Execute(t)
    BY <1>2, <1>10, <1>12, <2>1 DEF Execute
  <2>2. CASE Complete(t) \/ Fail(t) \/ SpawnFails(t) \/ EndTransaction(t)
    BY <1>3, <1>8, <1>11, <2>2 DEF Procs
  <2>3. QED
    BY <1>2, <1>14, <1>15, <2>1, <2>2 DEF ThreadStep
<1>16. ASSUME NEW w \in Workers, WorkerStep(w) PROVE ScratchInv'
  BY <1>3, <1>8, <1>11, <1>16 DEF WorkerStep, Procs
<1>17. QED
  BY <1>4, <1>5, <1>6, <1>7, <1>9, <1>13, <1>15, <1>16 DEF Next, PendingCall
-----------------------------------------------------------------------------
(* References to resources.                                                 *)

\* The holders of a resource can be counted.
LEMMA HoldersCount ==
  ASSUME NEW r \in Resources
  PROVE  IsFiniteSet(Holders(r)) /\ Cardinality(Holders(r)) \in Nat
  BY ObjectAssumption, FS_Subset, FS_CardinalityType DEF Holders

\* A step that changes no count and no holder keeps the balance.
LEMMA RefSame ==
  ASSUME RefInv, refs' = refs, catalog' = catalog, dropping' = dropping,
         \A s \in Slots : slots'[s].held = slots[s].held
  PROVE  RefInv'
<1>1. \A r \in Resources : Holders(r)' = Holders(r)
  BY DEF Holders
<1>2. QED
  BY <1>1 DEF RefInv

\* At start no resource exists and no count is due.
THEOREM RefInit == Init => RefInv
<1> SUFFICES ASSUME Init PROVE RefInv
  OBVIOUS
<1>1. \A r \in Resources : Holders(r) = {}
  BY DEF Init, Holders, EmptySlot
<1>2. Cardinality({}) = 0
  BY FS_EmptySet
<1>3. ASSUME NEW r \in Resources
      PROVE  refs[r] = Count(r \in catalog \cup dropping) + Cardinality(Holders(r))
  <2>1. refs[r] = 0 /\ Count(r \in catalog \cup dropping) = 0
    BY DEF Init, Count
  <2>2. Cardinality(Holders(r)) = 0
    BY <1>1, <1>2
  <2>3. QED
    BY <2>1, <2>2
<1>4. QED
  BY <1>3 DEF Init, RefInv

\* Each retain has its holder and each release ends one.
THEOREM RefStep == TypeInv /\ OwnerInv /\ GpuInv /\ RefInv /\ [Next]_vars => RefInv'
<1> SUFFICES ASSUME TypeInv, OwnerInv, GpuInv, RefInv, [Next]_vars PROVE RefInv'
  OBVIOUS
<1> USE ContextAssumption, ProcessAssumption
<1>1. ASSUME slots' = slots, refs' = refs, catalog' = catalog, dropping' = dropping PROVE RefInv'
  BY <1>1, RefSame
<1>2. ASSUME NEW t \in Threads,
             \/ \E X \in SUBSET Scratch : Prepare(t, X)
             \/ \E io \in Contexts : Refuse(t, io)
             \/ \E w \in Workers : Spawn(t, w)
             \/ Abandon(t) \/ Cleanup(t) \/ Submit(t) \/ FinishFence(t)
      PROVE  RefInv'
  BY <1>1, <1>2 DEF Prepare, Refuse, Spawn, Abandon, Cleanup, Submit, FinishFence
<1>3. ASSUME NEW p \in Procs, EndTransaction(p) \/ (p \in Workers /\ Drain(p)) PROVE RefInv'
  BY <1>1, <1>3 DEF EndTransaction, Drain
<1>4. ASSUME NEW io \in Contexts, ContextCreate(io) \/ NativeContextRelease(io) \/ GpuFinishes(io)
      PROVE  RefInv'
  BY <1>1, <1>4 DEF ContextCreate, NativeContextRelease, GpuFinishes
<1>5. ASSUME NEW g \in Ranges, VmAllocate(g) \/ VmDeallocate(g) PROVE RefInv'
  BY <1>1, <1>5 DEF VmAllocate, VmDeallocate
<1>6. ASSUME ReleaseEndsTransaction \/ UNCHANGED vars PROVE RefInv'
  BY <1>1, <1>6 DEF ReleaseEndsTransaction, vars
<1>7. ASSUME NEW p \in Procs,
             \/ p \in Threads /\ (Fail(p) \/ SpawnFails(p))
             \/ p \in Workers /\ GiveUp(p)
      PROVE  RefInv'
  <2>1. PICK new : Keeps(at[p], new)
    BY <1>7, PoisonEffect
  <2>2. refs' = refs /\ catalog' = catalog /\ dropping' = dropping
    BY <1>7 DEF Fail, SpawnFails, GiveUp
  <2>3. \A s \in Slots : slots'[s].held = slots[s].held
    BY <2>1 DEF Keeps, TypeInv, TypeOK
  <2>4. QED
    BY <2>2, <2>3, RefSame
<1>8. ASSUME NEW io \in Contexts, ContextRelease(io) PROVE RefInv'
  <2>1. refs' = refs /\ catalog' = catalog /\ dropping' = dropping
    BY <1>8 DEF ContextRelease
  <2>2. QED
    BY <1>8, <2>1, ReleaseKeeps, RefSame
<1>9. ASSUME NEW t \in Threads, NEW io \in Contexts, NEW s \in Slots,
             RejectScratch(t, io, s) \/ Reject(t, io, s)
      PROVE  RefInv'
  <2>1. PICK new : Keeps(s, new)
    BY <1>9, AdoptEffect
  <2>2. \A z \in Slots : slots'[z].held = slots[z].held
    BY <2>1 DEF Keeps, TypeInv, TypeOK
  <2>3. refs' = refs /\ catalog' = catalog /\ dropping' = dropping
    BY <1>9 DEF RejectScratch, Reject
  <2>4. QED
    BY <2>2, <2>3, RefSame
<1>10. ASSUME NEW p \in Procs,
              (p \in Threads /\ Complete(p)) \/ (p \in Workers /\ Recover(p))
       PROVE  RefInv'
  <2> DEFINE s == at[p]
  <2>1. PICK new : Ends(s, new)
    BY <1>10, EndEffect
  <2>2. s \in Slots
    BY <1>10, EndEffect
  <2>3. catalog' = catalog /\ dropping' = dropping
    BY <1>10 DEF Complete, Recover
  <2>4. ASSUME NEW r \in Resources
        PROVE  refs'[r] = Count(r \in catalog \cup dropping) + Cardinality(Holders(r)')
    <3>1. refs'[r] = IF s \in Holders(r) THEN refs[r] - 1 ELSE refs[r]
      BY <2>1, <2>2 DEF Ends, ReleaseHolds, Holders
    <3>2. Holders(r)' = Holders(r) \ {s}
      BY <2>1, <2>2 DEF Ends, ReleaseHolds, Holders, TypeInv, TypeOK
    <3>3. Cardinality(Holders(r) \ {s})
            = IF s \in Holders(r) THEN Cardinality(Holders(r)) - 1 ELSE Cardinality(Holders(r))
      BY HoldersCount, FS_RemoveElement
    <3> HIDE DEF s
    <3>4. refs[r] = Count(r \in catalog \cup dropping) + Cardinality(Holders(r))
      BY DEF RefInv
    <3>5. Count(r \in catalog \cup dropping) \in Nat
      BY DEF Count
    <3>6. QED
      BY <3>1, <3>2, <3>3, <3>4, <3>5, HoldersCount
  <2>5. QED
    BY <2>3, <2>4 DEF RefInv
<1>11. ASSUME NEW t \in Threads, NEW io \in Contexts, NEW s \in Slots,
              NEW rs \in SUBSET Resources, Acquire(t, io, s, rs)
       PROVE  RefInv'
  <2>1. PICK new : Takes(t, io, s, rs, new)
    BY <1>11, AcquireEffect
  <2>2. catalog' = catalog /\ dropping' = dropping
    BY <1>11 DEF Acquire
  <2>3. ASSUME NEW r \in Resources
        PROVE  refs'[r] = Count(r \in catalog \cup dropping) + Cardinality(Holders(r)')
    <3>1. refs'[r] = IF r \in Needed(io, rs) THEN refs[r] + 1 ELSE refs[r]
      BY <1>11 DEF Acquire
    <3>2. s \notin Holders(r)
      BY <2>1 DEF Takes, Holders
    <3>3. Holders(r)' = IF r \in Needed(io, rs) THEN Holders(r) \cup {s} ELSE Holders(r)
      BY <2>1 DEF Takes, Holders, TypeInv, TypeOK
    <3>4. Cardinality(Holders(r) \cup {s}) = Cardinality(Holders(r)) + 1
      BY <3>2, HoldersCount, FS_AddElement
    <3>5. refs[r] = Count(r \in catalog \cup dropping) + Cardinality(Holders(r))
      BY DEF RefInv
    <3>6. Count(r \in catalog \cup dropping) \in Nat
      BY DEF Count
    <3>7. QED
      BY <3>1, <3>3, <3>4, <3>5, <3>6, HoldersCount
  <2>4. QED
    BY <2>2, <2>3 DEF RefInv
<1>12. ASSUME NEW r \in Resources,
              ResourceCreate(r) \/ ResourceRelease(r) \/ NativeResourceRelease(r)
       PROVE  RefInv'
  <2>1. slots' = slots
    BY <1>12 DEF ResourceCreate, ResourceRelease, NativeResourceRelease
  <2>2. \A x \in Resources : Holders(x)' = Holders(x) /\ Cardinality(Holders(x)) \in Nat
    BY <2>1, HoldersCount DEF Holders
  <2>3. CASE ResourceCreate(r)
    BY <2>2, <2>3 DEF ResourceCreate, RefInv, Count, TypeInv, TypeOK
  <2>4. CASE ResourceRelease(r)
    BY <2>2, <2>4 DEF ResourceRelease, RefInv, Count, TypeInv, TypeOK
  <2>5. CASE NativeResourceRelease(r)
    BY <2>2, <2>5 DEF NativeResourceRelease, RefInv, Count, TypeInv, TypeOK
  <2>6. QED
    BY <1>12, <2>3, <2>4, <2>5
<1>13. ASSUME NEW t \in Threads, ThreadStep(t) PROVE RefInv'
  <2>1. CASE Execute(t)
    BY <1>2, <1>9, <1>11, <2>1 DEF Execute
  <2>2. CASE Complete(t) \/ Fail(t) \/ SpawnFails(t) \/ EndTransaction(t)
    BY <1>3, <1>7, <1>10, <2>2 DEF Procs
  <2>3. QED
    BY <1>2, <1>13, <2>1, <2>2 DEF ThreadStep
<1>14. ASSUME NEW w \in Workers, WorkerStep(w) PROVE RefInv'
  BY <1>3, <1>7, <1>10, <1>14 DEF WorkerStep, Procs
<1>15. QED
  BY <1>2, <1>4, <1>5, <1>6, <1>8, <1>12, <1>13, <1>14 DEF Next, PendingCall
-----------------------------------------------------------------------------
(* References to native contexts.                                           *)

\* A step that changes no context and no slot keeps the balance of contexts.
LEMMA CtxSame ==
  ASSUME CtxInv, ctxRefs' = ctxRefs, appCtx' = appCtx, drops' = drops,
         \A s \in Slots : slots'[s].io = slots[s].io
  PROVE  CtxInv'
<1>1. \A io \in Contexts : Find(io)' = Find(io)
  BY DEF Find
<1>2. QED
  BY <1>1 DEF CtxInv

\* A slot that is opened belongs to io from then on, and to nobody else.
LEMMA CtxOpened ==
  ASSUME TypeInv, CtxInv, OwnerInv, NEW io \in Contexts, NEW s \in SlotFor(io), NEW new,
         slots' = [slots EXCEPT ![s] = new], new.io = io,
         Adopt(s, io), appCtx' = appCtx, drops' = drops
  PROVE  CtxInv'
<1>1. s \in Slots /\ slots[s].io \in {io, NoContext}
      /\ (slots[s].io = NoContext => Find(io) = {})
  BY ContextAssumption DEF SlotFor, Find, Unused
<1>2. \A z \in Slots : slots'[z].io = IF z = s THEN io ELSE slots[z].io
  BY <1>1 DEF TypeInv, TypeOK
<1>3. ASSUME NEW c \in Contexts, c # io PROVE Find(c)' = Find(c) /\ ctxRefs'[c] = ctxRefs[c]
  BY <1>1, <1>2, <1>3, ContextAssumption DEF Find, Adopt, TypeInv, TypeOK
<1>4. s \in Find(io)'
  BY <1>1, <1>2 DEF Find
<1>5. ctxRefs'[io] = Count(io \in appCtx') + Count(Find(io)' # {}) + drops'[io]
  <2>1. ctxRefs[io] = Count(io \in appCtx) + Count(Find(io) # {}) + drops[io]
    BY DEF CtxInv
  <2>2. CASE slots[s].io = io
    BY <1>1, <1>4, <2>1, <2>2 DEF Adopt, Find, Count
  <2>3. CASE slots[s].io = NoContext
    BY <1>1, <1>4, <2>1, <2>3, ContextAssumption DEF Adopt, Count, TypeInv, TypeOK
  <2>4. QED
    BY <1>1, <2>2, <2>3
<1>6. QED
  BY <1>3, <1>5 DEF CtxInv

\* A slot that is freed gives its reference up.
LEMMA CtxFreed ==
  ASSUME TypeInv, OwnerInv, NEW s \in Slots, NEW io \in Contexts, slots[s].io = io,
         NEW new, slots' = [slots EXCEPT ![s] = new], new.io = NoContext
  PROVE  /\ Find(io)' = {} /\ Find(io) # {}
         /\ \A c \in Contexts : c # io => Find(c)' = Find(c)
<1>1. \A z \in Slots : slots'[z].io = IF z = s THEN NoContext ELSE slots[z].io
  BY DEF TypeInv, TypeOK
<1>2. \A z \in Slots : slots[z].io = io => z = s
  BY ContextAssumption DEF OwnerInv, ContextsApart
<1>3. QED
  BY <1>1, <1>2, ContextAssumption DEF Find

\* At start no context exists.
THEOREM CtxInit == Init => CtxInv
  BY ContextAssumption DEF Init, CtxInv, Find, Count, EmptySlot

\* Each retain of a native context belongs to a slot or to a late release.
THEOREM CtxStep == TypeInv /\ OwnerInv /\ GpuInv /\ CtxInv /\ [Next]_vars => CtxInv'
<1> SUFFICES ASSUME TypeInv, OwnerInv, GpuInv, CtxInv, [Next]_vars PROVE CtxInv'
  OBVIOUS
<1> USE ContextAssumption, ProcessAssumption
<1>1. ASSUME slots' = slots, ctxRefs' = ctxRefs, appCtx' = appCtx, drops' = drops PROVE CtxInv'
  BY <1>1, CtxSame
<1>2. ASSUME NEW t \in Threads,
             \/ \E X \in SUBSET Scratch : Prepare(t, X)
             \/ \E io \in Contexts : Refuse(t, io)
             \/ \E w \in Workers : Spawn(t, w)
             \/ Abandon(t) \/ Cleanup(t) \/ Submit(t) \/ FinishFence(t)
      PROVE  CtxInv'
  BY <1>1, <1>2 DEF Prepare, Refuse, Spawn, Abandon, Cleanup, Submit, FinishFence
<1>3. ASSUME NEW p \in Procs, EndTransaction(p) \/ (p \in Workers /\ Drain(p)) PROVE CtxInv'
  BY <1>1, <1>3 DEF EndTransaction, Drain
<1>4. ASSUME NEW r \in Resources,
             ResourceCreate(r) \/ ResourceRelease(r) \/ NativeResourceRelease(r)
      PROVE  CtxInv'
  BY <1>1, <1>4 DEF ResourceCreate, ResourceRelease, NativeResourceRelease
<1>5. ASSUME NEW g \in Ranges, VmAllocate(g) \/ VmDeallocate(g) PROVE CtxInv'
  BY <1>1, <1>5 DEF VmAllocate, VmDeallocate
<1>6. ASSUME ReleaseEndsTransaction \/ UNCHANGED vars PROVE CtxInv'
  BY <1>1, <1>6 DEF ReleaseEndsTransaction, vars
<1>7. ASSUME NEW p \in Procs,
             \/ p \in Threads /\ (Fail(p) \/ SpawnFails(p))
             \/ p \in Workers /\ GiveUp(p)
      PROVE  CtxInv'
  <2>1. PICK new : Keeps(at[p], new) /\ new.io = slots[at[p]].io
    BY <1>7, PoisonEffect
  <2>2. ctxRefs' = ctxRefs /\ appCtx' = appCtx /\ drops' = drops
    BY <1>7 DEF Fail, SpawnFails, GiveUp
  <2>3. \A s \in Slots : slots'[s].io = slots[s].io
    BY <2>1 DEF Keeps, TypeInv, TypeOK
  <2>4. QED
    BY <2>2, <2>3, CtxSame
<1>8. ASSUME NEW t \in Threads, NEW io \in Contexts, NEW s \in Slots,
             RejectScratch(t, io, s) \/ Reject(t, io, s)
      PROVE  CtxInv'
  <2>1. PICK new : Keeps(s, new) /\ new.io = io
    BY <1>8, AdoptEffect
  <2>2. s \in SlotFor(io) /\ Adopt(s, io) /\ appCtx' = appCtx /\ drops' = drops
    BY <1>8, AdoptEffect DEF RejectScratch, Reject
  <2>3. QED
    BY <2>1, <2>2, CtxOpened DEF Keeps
<1>9. ASSUME NEW t \in Threads, NEW io \in Contexts, NEW s \in Slots,
             NEW rs \in SUBSET Resources, Acquire(t, io, s, rs)
      PROVE  CtxInv'
  <2>1. PICK new : Takes(t, io, s, rs, new)
    BY <1>9, AcquireEffect
  <2>2. Adopt(s, io) /\ appCtx' = appCtx /\ drops' = drops
    BY <1>9 DEF Acquire
  <2>3. QED
    BY <2>1, <2>2, CtxOpened DEF Takes
<1>10. ASSUME NEW p \in Procs,
              (p \in Threads /\ Complete(p)) \/ (p \in Workers /\ Recover(p))
       PROVE  CtxInv'
  <2>1. PICK s \in Slots : /\ slots[s].io \in Contexts
                          /\ \E new : Ends(s, new)
    BY <1>10, EndEffect
  <2>2. PICK new : Ends(s, new)
    BY <2>1
  <2>3. PICK io \in Contexts : slots[s].io = io
    BY <2>1
  <2>4. ctxRefs' = ctxRefs /\ appCtx' = appCtx
    BY <1>10 DEF Complete, Recover
  <2>5. slots' = [slots EXCEPT ![s] = new]
    BY <2>2 DEF Ends, ReleaseHolds
  <2>6. CASE slots[s].released
    <3>1. drops' = [drops EXCEPT ![io] = @ + 1] /\ new.io = NoContext
      BY <2>2, <2>3, <2>6 DEF Ends, ExtraDrop
    <3>2. /\ Find(io)' = {} /\ Find(io) # {}
          /\ \A c \in Contexts : c # io => Find(c)' = Find(c)
      BY <2>3, <2>5, <3>1, CtxFreed
    <3>3. QED
      BY <2>4, <3>1, <3>2 DEF CtxInv, Count, TypeInv, TypeOK
  <2>7. CASE ~slots[s].released
    <3>1. drops' = drops /\ new.io = slots[s].io
      BY <2>2, <2>7 DEF Ends, ExtraDrop
    <3>2. \A z \in Slots : slots'[z].io = slots[z].io
      BY <2>5, <3>1 DEF TypeInv, TypeOK
    <3>3. QED
      BY <2>4, <3>1, <3>2, CtxSame
  <2>8. QED
    BY <2>6, <2>7
<1>11. ASSUME NEW io \in Contexts, ContextRelease(io) PROVE CtxInv'
  <2>1. io \in appCtx /\ appCtx' = appCtx \ {io} /\ ctxRefs' = ctxRefs
    BY <1>11 DEF ContextRelease
  <2>2. CASE \E s \in Find(io) : /\ slots' = [slots EXCEPT ![s] = EmptySlot]
                                /\ drops' = [drops EXCEPT ![io] = @ + 2]
    <3>1. PICK s \in Find(io) : slots' = [slots EXCEPT ![s] = EmptySlot]
      BY <2>2
    <3>2. s \in Slots /\ slots[s].io = io /\ EmptySlot.io = NoContext
      BY <3>1 DEF Find, EmptySlot
    <3>3. /\ Find(io)' = {} /\ Find(io) # {}
          /\ \A c \in Contexts : c # io => Find(c)' = Find(c)
      BY <3>1, <3>2, CtxFreed
    <3>4. QED
      BY <2>1, <2>2, <3>3 DEF CtxInv, Count, TypeInv, TypeOK
  <2>3. CASE /\ \A z \in Slots : slots'[z].io = slots[z].io
             /\ drops' = [drops EXCEPT ![io] = @ + 1]
    <3>1. \A c \in Contexts : Find(c)' = Find(c)
      BY <2>3 DEF Find
    <3>2. QED
      BY <2>1, <2>3, <3>1 DEF CtxInv, Count, TypeInv, TypeOK
  <2>4. QED
    BY <1>11, <2>2, <2>3, ReleaseEffect
<1>12. ASSUME NEW io \in Contexts, ContextCreate(io) \/ NativeContextRelease(io) \/ GpuFinishes(io)
       PROVE  CtxInv'
  <2>1. slots' = slots
    BY <1>12 DEF ContextCreate, NativeContextRelease, GpuFinishes
  <2>2. \A c \in Contexts : Find(c)' = Find(c)
    BY <2>1 DEF Find
  <2>3. CASE ContextCreate(io)
    BY <2>2, <2>3 DEF ContextCreate, CtxInv, Count, TypeInv, TypeOK
  <2>4. CASE NativeContextRelease(io)
    <3>1. /\ \A c \in Contexts : drops'[c] = IF c = io THEN drops[c] - 1 ELSE drops[c]
          /\ \A c \in Contexts : ctxRefs'[c] = IF c = io THEN ctxRefs[c] - 1 ELSE ctxRefs[c]
          /\ appCtx' = appCtx
      BY <2>4 DEF NativeContextRelease, TypeInv, TypeOK
    <3>2. \A c \in Contexts : Count(c \in appCtx) \in Nat /\ Count(Find(c) # {}) \in Nat /\ drops[c] \in Nat
      BY DEF Count, TypeInv, TypeOK
    <3>3. QED
      BY <2>2, <3>1, <3>2 DEF CtxInv
  <2>5. CASE GpuFinishes(io)
    BY <2>2, <2>5 DEF GpuFinishes, CtxInv
  <2>6. QED
    BY <1>12, <2>3, <2>4, <2>5
<1>13. ASSUME NEW t \in Threads, ThreadStep(t) PROVE CtxInv'
  <2>1. CASE Execute(t)
    BY <1>2, <1>8, <1>9, <2>1 DEF Execute
  <2>2. CASE Complete(t) \/ Fail(t) \/ SpawnFails(t) \/ EndTransaction(t)
    BY <1>3, <1>7, <1>10, <2>2 DEF Procs
  <2>3. QED
    BY <1>2, <1>13, <2>1, <2>2 DEF ThreadStep
<1>14. ASSUME NEW w \in Workers, WorkerStep(w) PROVE CtxInv'
  BY <1>3, <1>7, <1>10, <1>14 DEF WorkerStep, Procs
<1>15. QED
  BY <1>2, <1>4, <1>5, <1>6, <1>11, <1>12, <1>13, <1>14 DEF Next, PendingCall
-----------------------------------------------------------------------------
(* The theorems.                                                            *)

\* The recovery owner keeps its invariant in every order of its steps.
THEOREM Invariance == Spec => []Inv
<1>1. Init => Inv
  BY TypeInit, OwnerInit, GpuInit, MemInit, ScratchInit, RefInit, CtxInit DEF Inv
<1>2. Inv /\ [Next]_vars => Inv'
  BY TypeStep, OwnerStep, GpuStep, MemStep, ScratchStep, RefStep, CtxStep DEF Inv
<1>3. QED
  BY <1>1, <1>2, PTL DEF Spec

\* Retains and releases balance for every resource and context.
THEOREM ReferencesBalance == Spec => []ReferencesExact
<1>1. Inv => ReferencesExact
  BY DEF Inv, RefInv, CtxInv, Holders, ReferencesExact
<1>2. QED
  BY Invariance, <1>1, PTL

\* Every scratch that exists has one owner.
THEOREM ScratchHasOneOwner == Spec => []ScratchOwnedOnce
<1>1. Inv => ScratchOwnedOnce
  <2> SUFFICES ASSUME Inv PROVE ScratchOwnedOnce
    OBVIOUS
  <2> DEFINE arrays == UNION {buf[t] : t \in Threads}
             tables == UNION {slots[s].scratch : s \in Slots}
  <2>1. ASSUME NEW t \in Threads, NEW x \in buf[t] PROVE x \in arrays
    OBVIOUS
  <2>2. ASSUME NEW s \in Slots, NEW x \in slots[s].scratch PROVE x \in tables
    OBVIOUS
  <2>3. arrays \subseteq live
    BY DEF Inv, ScratchInv, TypeInv, TypeOK
  <2>4. tables \subseteq live
    BY SlotFields DEF Inv, ScratchInv, TypeInv, TypeOK
  <2> HIDE DEF arrays, tables
  <2>5. live \subseteq arrays \cup tables
    BY <2>1, <2>2 DEF Inv, ScratchInv, TypeInv, TypeOK
  <2>6. live = arrays \cup tables
    BY <2>3, <2>4, <2>5
  <2>7. live = (UNION {buf[t] : t \in Threads}) \cup (UNION {slots[s].scratch : s \in Slots})
    BY <2>6, Zenon DEF arrays, tables
  <2>8. QED
    BY <2>7, Zenon DEF Inv, ScratchInv, ScratchOwnedOnce
<1>2. QED
  BY Invariance, <1>1, PTL

\* Whatever the GPU may still access exists: the native context, the
\* resources with their pages, and the scratch.
THEOREM GpuWorkIsSafe == Spec => []GpuSafe
<1>1. Inv => GpuSafe
  <2> SUFFICES ASSUME Inv, NEW io \in Contexts, gpu[io] # {}
               PROVE  /\ ctxRefs[io] > 0
                      /\ \A x \in gpu[io] \cap Resources : refs[x] > 0 /\ Memory[x] \subseteq mapped
                      /\ gpu[io] \cap Scratch \subseteq live
    BY DEF GpuSafe, ResourceExists
  <2>1. PICK s \in Slots : slots[s].io = io /\ gpu[io] \subseteq slots[s].held \cup slots[s].scratch
    BY DEF Inv, GpuInv, GpuCovered, Find
  <2>2. slots[s].held \subseteq Resources /\ slots[s].scratch \subseteq Scratch
    BY SlotFields DEF Inv, TypeInv, TypeOK
  <2>3. ctxRefs[io] > 0
    BY <2>1 DEF Inv, CtxInv, Find, Count, TypeInv, TypeOK
  <2>4. ASSUME NEW x \in gpu[io] \cap Resources
        PROVE  refs[x] > 0 /\ Memory[x] \subseteq mapped
    <3>1. x \in slots[s].held
      BY <2>1, <2>2, ObjectAssumption
    <3>2. Holders(x) # {}
      BY <3>1 DEF Holders
    <3>3. Cardinality(Holders(x)) # 0
      BY <3>2, HoldersCount, FS_EmptySet
    <3>4. refs[x] > 0
      BY <3>3, HoldersCount DEF Inv, RefInv, Count
    <3>5. QED
      BY <3>1, <3>4 DEF Inv, MemInv
  <2>5. gpu[io] \cap Scratch \subseteq live
    BY <2>1, <2>2, ObjectAssumption DEF Inv, ScratchInv
  <2>6. QED
    BY <2>3, <2>4, <2>5
<1>2. QED
  BY Invariance, <1>1, PTL
-----------------------------------------------------------------------------
(* What the steps do to the flags of a slot.                                *)

\* The slot s becomes `new', opened for io and otherwise as it was.
Opened(s, io, new) ==
  /\ slots' = [slots EXCEPT ![s] = new] /\ new \in SlotType /\ new.io = io
  /\ s \in SlotFor(io) /\ io \in appCtx
  /\ ~new.busy /\ ~new.failed /\ ~new.recovering
  /\ new.held = {} /\ new.scratch = {}
  /\ new.charged = slots[s].charged
  /\ ~new.activity /\ ~slots[s].activity
  /\ ~slots[s].busy /\ ~slots[s].failed
  /\ slots[s].held = {} /\ slots[s].scratch = {}
  /\ new.released = slots[s].released

\* A rejected batch opens its slot and changes nothing else of it.
LEMMA OpenedEffect ==
  ASSUME TypeInv, OwnerInv, NEW t \in Threads, NEW io \in Contexts, NEW s \in Slots,
         RejectScratch(t, io, s) \/ Reject(t, io, s)
  PROVE  \E new : Opened(s, io, new)
<1> DEFINE x == slots[s]
           new == [slots[s] EXCEPT !.io = io]
<1>1. /\ slots' = [slots EXCEPT ![s] = new] /\ s \in SlotFor(io) /\ io \in appCtx
      /\ ~x.busy /\ ~x.failed
  BY DEF RejectScratch, Reject, Opens
<1>2. x \in SlotType /\ SlotOK(x)
  BY DEF TypeInv, TypeOK, OwnerInv, SlotsSound
<1>3. new \in SlotType
  BY <1>2, SlotUpdates
<1>4. /\ new.io = io /\ new.busy = x.busy /\ new.failed = x.failed
      /\ new.recovering = x.recovering /\ new.activity = x.activity
      /\ new.released = x.released /\ new.held = x.held /\ new.scratch = x.scratch
      /\ new.charged = x.charged
  BY <1>2 DEF SlotType
<1> HIDE DEF new
<1>5. ~x.recovering /\ ~x.activity /\ x.held = {} /\ x.scratch = {}
  BY <1>1, <1>2 DEF SlotOK
<1>6. QED
  BY <1>1, <1>3, <1>4, <1>5 DEF Opened

\* The slot s is filled with the holds of a batch and their charge.
Filled(t, io, s, rs, new) ==
  /\ slots' = [slots EXCEPT ![s] = new] /\ new \in SlotType /\ new.io = io
  /\ s \in SlotFor(io) /\ io \in appCtx
  /\ new.activity /\ ~new.failed /\ ~slots[s].activity
  /\ ~slots[s].busy /\ ~slots[s].failed
  /\ slots[s].held = {} /\ slots[s].scratch = {}
  /\ new.held = Needed(io, rs) /\ new.scratch = buf[t]
  /\ new.charged = Charge(buf[t] \cup Needed(io, rs))
  /\ new.released = slots[s].released

\* An accepted batch fills its slot.
LEMMA FilledEffect ==
  ASSUME TypeInv, OwnerInv, NEW t \in Threads, NEW io \in Contexts, NEW s \in Slots,
         NEW rs \in SUBSET Resources, Acquire(t, io, s, rs)
  PROVE  \E new : Filled(t, io, s, rs, new)
<1> DEFINE x == slots[s]
           need == Needed(io, rs)
           charge == Charge(buf[t] \cup need)
           new == [slots[s] EXCEPT !.io = io, !.busy = TRUE, !.activity = TRUE,
                     !.held = need, !.scratch = buf[t], !.charged = charge]
<1>1. /\ slots' = [slots EXCEPT ![s] = new] /\ s \in SlotFor(io) /\ io \in appCtx
      /\ ~x.busy /\ ~x.failed
  BY DEF Acquire, Opens
<1>2. need \in SUBSET Resources /\ buf[t] \in SUBSET Scratch
  BY MemoryAssumption DEF Needed, TypeInv, TypeOK
<1>3. x \in SlotType /\ SlotOK(x)
  BY DEF TypeInv, TypeOK, OwnerInv, SlotsSound
<1>4. charge \in Nat
  BY <1>2, ChargeIsNat
<1> HIDE DEF need, charge
<1>5. new \in SlotType
  BY <1>2, <1>3, <1>4, SlotAcquired
<1>6. /\ new.io = io /\ new.activity /\ new.failed = x.failed
      /\ new.held = need /\ new.scratch = buf[t] /\ new.charged = charge
      /\ new.released = x.released
  BY <1>3 DEF SlotType
<1> HIDE DEF new
<1>7. ~x.activity /\ x.held = {} /\ x.scratch = {}
  BY <1>1, <1>3 DEF SlotOK
<1>8. QED
  BY <1>1, <1>5, <1>6, <1>7 DEF Filled, need, charge

\* The slot s keeps a failed batch.
Marked(s, new) ==
  /\ slots' = [slots EXCEPT ![s] = new] /\ new \in SlotType
  /\ new.failed /\ new.io = slots[s].io
  /\ new.activity = slots[s].activity /\ new.released = slots[s].released
  /\ new.held = slots[s].held /\ new.scratch = slots[s].scratch
  /\ new.charged = slots[s].charged
  /\ slots[s].busy \/ slots[s].recovering

\* A failure, and a recovery that is given up, keep what the slot has.
LEMMA MarkedEffect ==
  ASSUME TypeInv, OwnerInv, NEW p \in Procs,
         \/ p \in Threads /\ (Fail(p) \/ SpawnFails(p))
         \/ p \in Workers /\ GiveUp(p)
  PROVE  at[p] \in Slots /\ \E new : Marked(at[p], new)
<1> DEFINE s == at[p]
           x == slots[s]
           new == IF p \in Threads /\ Fail(p)
                  THEN [slots[s] EXCEPT !.busy = FALSE, !.failed = TRUE, !.recovering = TRUE]
                  ELSE [slots[s] EXCEPT !.recovering = FALSE]
<1>1. s \in Slots /\ (x.busy \/ x.recovering) /\ ((p \in Threads /\ Fail(p)) \/ x.recovering)
  BY DEF Fail, SpawnFails, GiveUp, Goto, TypeInv, AtOK, InBatch, OwnerInv, ProcsApart, Works
<1>2. x \in SlotType /\ SlotOK(x)
  BY <1>1 DEF TypeInv, TypeOK, OwnerInv, SlotsSound
<1>3. slots' = [slots EXCEPT ![s] = new]
  BY <1>1, ProcessAssumption DEF Fail, SpawnFails, GiveUp, Goto, TypeInv, TypeOK
<1>4. new \in SlotType
  BY <1>2, SlotUpdates
<1>5. /\ new.io = x.io /\ new.activity = x.activity /\ new.released = x.released
      /\ new.held = x.held /\ new.scratch = x.scratch /\ new.charged = x.charged
      /\ (p \in Threads /\ Fail(p)) \/ new.failed = x.failed
      /\ (p \in Threads /\ Fail(p)) => new.failed
  BY <1>2 DEF SlotType
<1> HIDE DEF new
<1>6. new.failed
  BY <1>1, <1>2, <1>5 DEF SlotOK
<1>7. QED
  BY <1>1, <1>3, <1>4, <1>5, <1>6 DEF Marked

\* The holds of the slot s have ended, and with them the slot of a released
\* context.
Settled(s, new) ==
  /\ slots' = [slots EXCEPT ![s] = new] /\ new \in SlotType
  /\ ~new.busy /\ ~new.recovering /\ ~new.released
  /\ new.held = {} /\ new.scratch = {} /\ new.charged = 0
  /\ slots[s].released => new = EmptySlot
  /\ ~slots[s].released => new.io = slots[s].io /\ new.failed = slots[s].failed

\* A completed batch and a confirmed drain settle their slot; a completed one
\* has no transaction left, nor has a drained one that is released.
LEMMA SettledEffect ==
  ASSUME TypeInv, OwnerInv, NEW p \in Procs,
         (p \in Threads /\ Complete(p)) \/ (p \in Workers /\ Recover(p))
  PROVE  /\ at[p] \in Slots /\ slots[at[p]].activity
         /\ \E new :
              /\ Settled(at[p], new)
              /\ new.activity = (p \in Workers /\ ~slots[at[p]].released)
<1> DEFINE s == at[p]
           x == slots[s]
           y == IF p \in Threads THEN [slots[s] EXCEPT !.busy = FALSE, !.activity = FALSE]
                ELSE [slots[s] EXCEPT !.recovering = FALSE]
           new == Retire(Emptied(y))
<1> USE ProcessAssumption
<1>1. s \in Slots /\ (p \in Threads => x.busy) /\ (p \in Workers => x.recovering)
  BY DEF Complete, Recover, Goto, TypeInv, AtOK, InBatch, OwnerInv, ProcsApart, Works, Procs
<1>2. x \in SlotType /\ SlotOK(x)
  BY <1>1 DEF TypeInv, TypeOK, OwnerInv, SlotsSound
<1>3. x.activity /\ (p \in Threads => ~x.recovering) /\ (p \in Workers => ~x.busy)
  BY <1>1, <1>2 DEF SlotOK
<1>4. slots' = [slots EXCEPT ![s] = new]
  BY DEF Complete, Recover, ReleaseHolds
<1>5. y \in SlotType
  BY <1>2, SlotUpdates
<1>6. /\ y.io = x.io /\ y.failed = x.failed /\ y.released = x.released
      /\ y.busy = (p \notin Threads /\ x.busy) /\ y.recovering = (p \in Threads /\ x.recovering)
      /\ y.activity = (p \notin Threads /\ x.activity)
  BY <1>2 DEF SlotType
<1> HIDE DEF y
<1>7. /\ Emptied(y) \in SlotType /\ Emptied(y).io = y.io /\ Emptied(y).failed = y.failed
      /\ Emptied(y).released = y.released /\ Emptied(y).busy = y.busy
      /\ Emptied(y).recovering = y.recovering /\ Emptied(y).activity = y.activity
      /\ Emptied(y).held = {} /\ Emptied(y).scratch = {} /\ Emptied(y).charged = 0
  <2>1. Emptied(y) \in SlotType
    BY <1>5, EmptiedType
  <2>2. QED
    BY <1>5, <2>1 DEF Emptied, SlotType
<1>8. CASE x.released
  <2>1. new = EmptySlot /\ x.released = TRUE
    BY <1>2, <1>6, <1>7, <1>8, SlotFields DEF Retire
  <2>2. /\ EmptySlot.busy = FALSE /\ EmptySlot.recovering = FALSE /\ EmptySlot.released = FALSE
        /\ EmptySlot.held = {} /\ EmptySlot.scratch = {} /\ EmptySlot.charged = 0
        /\ EmptySlot.activity = FALSE
    BY DEF EmptySlot
  <2>3. slots' = [slots EXCEPT ![s] = EmptySlot]
    BY <1>4, <2>1
  <2>4. Settled(s, EmptySlot)
    BY <1>8, <2>2, <2>3, EmptySlotType DEF Settled
  <2>5. EmptySlot.activity = (p \in Workers /\ ~x.released)
    BY <1>8, <2>2
  <2>6. QED
    BY <1>1, <1>3, <2>4, <2>5
<1>9. CASE ~x.released
  <2>1. new = Emptied(y)
    BY <1>6, <1>7, <1>9 DEF Retire
  <2>2. ~y.busy /\ ~y.recovering
    BY <1>1, <1>3, <1>6 DEF Procs
  <2>3. Settled(s, new)
    BY <1>4, <1>6, <1>7, <1>9, <2>1, <2>2 DEF Settled
  <2>4. new.activity = (p \in Workers /\ ~x.released)
    BY <1>3, <1>6, <1>7, <1>9, <2>1 DEF Procs
  <2>5. QED
    BY <1>1, <1>3, <2>3, <2>4
<1>10. QED
  BY <1>8, <1>9

\* A context release clears a quiescent slot, or marks the slot released.
Cleared(io, s) ==
  /\ s \in Find(io) /\ Quiescent(slots[s])
  /\ slots' = [slots EXCEPT ![s] = EmptySlot]
  /\ ends' = ends + Count(slots[s].activity)

OnlyMarked(io) ==
  /\ slots' \in [Slots -> SlotType]
  /\ ~\E s \in Find(io) : Quiescent(slots[s])
  /\ \A z \in Slots :
       /\ slots'[z].released = (slots[z].io = io \/ slots[z].released)
       /\ slots'[z].io = slots[z].io /\ slots'[z].activity = slots[z].activity
       /\ slots'[z].busy = slots[z].busy /\ slots'[z].failed = slots[z].failed
       /\ slots'[z].recovering = slots[z].recovering
       /\ slots'[z].held = slots[z].held /\ slots'[z].scratch = slots[z].scratch
       /\ slots'[z].charged = slots[z].charged
  /\ ends' = ends

\* What a context release does to the table.
LEMMA ClearedOrMarked ==
  ASSUME TypeInv, OwnerInv, NEW io \in Contexts, ContextRelease(io)
  PROVE  (\E s \in Slots : Cleared(io, s)) \/ OnlyMarked(io)
<1>1. CASE \E s \in Find(io) : Quiescent(slots[s])
  <2>1. PICK s \in Find(io) : /\ slots' = [slots EXCEPT ![s] = EmptySlot]
                             /\ ends' = IF slots[s].activity THEN ends + 1 ELSE ends
    BY <1>1 DEF ContextRelease
  <2>2. \A z \in Find(io) : z = s
    BY <2>1, ContextAssumption DEF Find, OwnerInv, ContextsApart
  <2>3. Quiescent(slots[s]) /\ s \in Slots
    BY <1>1, <2>2 DEF Find
  <2>4. ends \in Nat
    BY DEF TypeInv, TypeOK
  <2>5. ends' = ends + Count(slots[s].activity)
    BY <2>1, <2>4 DEF Count
  <2>6. QED
    BY <2>1, <2>3, <2>5 DEF Cleared
<1>2. CASE ~\E s \in Find(io) : Quiescent(slots[s])
  <2>1. /\ slots' = [s \in Slots |-> IF slots[s].io = io
                                  THEN [slots[s] EXCEPT !.released = TRUE] ELSE slots[s]]
        /\ ends' = ends
    BY <1>2 DEF ContextRelease
  <2>2. ASSUME NEW x \in SlotType
        PROVE  LET new == [x EXCEPT !.released = TRUE]
               IN  /\ new \in SlotType /\ new.released
                   /\ new.io = x.io /\ new.activity = x.activity
                   /\ new.busy = x.busy /\ new.failed = x.failed
                   /\ new.recovering = x.recovering
                   /\ new.held = x.held /\ new.scratch = x.scratch
                   /\ new.charged = x.charged
    <3>1. [x EXCEPT !.released = TRUE] \in SlotType
      BY SlotUpdates
    <3>2. QED
      BY <3>1 DEF SlotType
  <2>3. \A z \in Slots : slots[z] \in SlotType
    BY DEF TypeInv, TypeOK
  <2>4. slots' \in [Slots -> SlotType]
    BY <2>1, <2>2, <2>3
  <2>5. ASSUME NEW z \in Slots
        PROVE  /\ slots'[z].released = (slots[z].io = io \/ slots[z].released)
               /\ slots'[z].io = slots[z].io /\ slots'[z].activity = slots[z].activity
               /\ slots'[z].busy = slots[z].busy /\ slots'[z].failed = slots[z].failed
               /\ slots'[z].recovering = slots[z].recovering
               /\ slots'[z].held = slots[z].held /\ slots'[z].scratch = slots[z].scratch
               /\ slots'[z].charged = slots[z].charged
    <3>1. slots'[z] = IF slots[z].io = io THEN [slots[z] EXCEPT !.released = TRUE] ELSE slots[z]
      BY <2>1
    <3>2. slots[z].released \in BOOLEAN /\ slots'[z].released \in BOOLEAN
      BY <2>3, <2>4, SlotFields
    <3>3. CASE slots[z].io = io
      BY <2>2, <2>3, <3>1, <3>2, <3>3
    <3>4. CASE slots[z].io # io
      BY <3>1, <3>2, <3>4
    <3>5. QED
      BY <3>3, <3>4
  <2>6. QED
    BY <1>2, <2>1, <2>4, <2>5 DEF OnlyMarked
<1>3. QED
  BY <1>1, <1>2
-----------------------------------------------------------------------------
(* Nothing is retained without a reason.                                    *)

\* A slot in use holds something, and so does one that outlives its context.
StrandInv ==
  /\ UnmapMayFail \/ \A g \in deferred : HeldRange(slots, g)
  /\ \A s \in Slots :
       /\ slots[s].busy \/ slots[s].recovering \/ slots[s].released =>
            slots[s].held \cup slots[s].scratch # {}
       /\ slots[s].io # NoContext => (slots[s].released <=> slots[s].io \notin appCtx)

\* A step that leaves the table, the contexts and the deferred ranges alone.
LEMMA StrandSame ==
  ASSUME StrandInv, slots' = slots, appCtx' = appCtx, deferred' = deferred
  PROVE  StrandInv'
  BY DEF StrandInv, HeldRange

\* A step that changes one slot, which keeps covering the deferred ranges.
LEMMA StrandSlot ==
  ASSUME TypeInv, StrandInv, appCtx' = appCtx, NEW s \in Slots, NEW new,
         slots' = [slots EXCEPT ![s] = new],
         new.busy \/ new.recovering \/ new.released => new.held \cup new.scratch # {},
         new.io # NoContext => (new.released <=> new.io \notin appCtx),
         UnmapMayFail \/ \A g \in deferred' : HeldRange(slots', g)
  PROVE  StrandInv'
<1>1. \A z \in Slots : slots'[z] = IF z = s THEN new ELSE slots[z]
  BY DEF TypeInv, TypeOK
<1>2. ASSUME NEW z \in Slots
      PROVE  /\ slots'[z].busy \/ slots'[z].recovering \/ slots'[z].released =>
                  slots'[z].held \cup slots'[z].scratch # {}
             /\ slots'[z].io # NoContext => (slots'[z].released <=> slots'[z].io \notin appCtx)
  <2>1. CASE z = s
    BY <1>1, <2>1
  <2>2. CASE z # s
    BY <1>1, <2>2 DEF StrandInv
  <2>3. QED
    BY <2>1, <2>2
<1>3. QED
  BY <1>2, Zenon DEF StrandInv

\* A range stays covered while no slot loses a hold.
LEMMA StillCovered ==
  ASSUME StrandInv, deferred' \subseteq deferred,
         \A z \in Slots : slots[z].held \subseteq slots'[z].held
  PROVE  UnmapMayFail \/ \A g \in deferred' : HeldRange(slots', g)
  BY DEF StrandInv, HeldRange

\* At start nothing is retained.
THEOREM StrandInit == Init => StrandInv
  BY DEF Init, StrandInv, EmptySlot

\* No step leaves a hold or a marked slot behind that nothing will end.
THEOREM StrandStep ==
  TypeInv /\ OwnerInv /\ CtxInv /\ StrandInv /\ [Next]_vars => StrandInv'
<1> SUFFICES ASSUME TypeInv, OwnerInv, CtxInv, StrandInv, [Next]_vars PROVE StrandInv'
  OBVIOUS
<1> USE ContextAssumption, ProcessAssumption
<1>1. ASSUME slots' = slots, appCtx' = appCtx, deferred' = deferred PROVE StrandInv'
  BY <1>1, StrandSame
<1>2. ASSUME NEW t \in Threads,
             \/ \E X \in SUBSET Scratch : Prepare(t, X)
             \/ \E io \in Contexts : Refuse(t, io)
             \/ \E w \in Workers : Spawn(t, w)
             \/ Abandon(t) \/ Cleanup(t) \/ Submit(t) \/ FinishFence(t)
      PROVE  StrandInv'
  BY <1>1, <1>2 DEF Prepare, Refuse, Spawn, Abandon, Cleanup, Submit, FinishFence
<1>3. ASSUME NEW p \in Procs, EndTransaction(p) \/ (p \in Workers /\ Drain(p)) PROVE StrandInv'
  BY <1>1, <1>3 DEF EndTransaction, Drain
<1>4. ASSUME NEW r \in Resources,
             ResourceCreate(r) \/ ResourceRelease(r) \/ NativeResourceRelease(r)
      PROVE  StrandInv'
  BY <1>1, <1>4 DEF ResourceCreate, ResourceRelease, NativeResourceRelease
<1>5. ASSUME NEW g \in Ranges, VmAllocate(g) \/ VmDeallocate(g) PROVE StrandInv'
  BY <1>1, <1>5 DEF VmAllocate, VmDeallocate, StrandInv
<1>6. ASSUME NEW io \in Contexts, NativeContextRelease(io) \/ GpuFinishes(io) PROVE StrandInv'
  BY <1>1, <1>6 DEF NativeContextRelease, GpuFinishes
<1>7. ASSUME ReleaseEndsTransaction \/ UNCHANGED vars PROVE StrandInv'
  BY <1>1, <1>7 DEF ReleaseEndsTransaction, vars
<1>8. ASSUME NEW io \in Contexts, ContextCreate(io) PROVE StrandInv'
  <2>1. slots' = slots /\ deferred' = deferred /\ appCtx' = appCtx \cup {io}
        /\ io \notin appCtx /\ ctxRefs[io] = 0
    BY <1>8 DEF ContextCreate
  <2>2. Find(io) = {}
    BY <2>1 DEF CtxInv, Count, TypeInv, TypeOK
  <2>3. QED
    BY <2>1, <2>2 DEF StrandInv, Find, HeldRange
<1>9. ASSUME NEW io \in Contexts, ContextRelease(io) PROVE StrandInv'
  <2>1. appCtx' = appCtx \ {io} /\ deferred' = deferred
    BY <1>9 DEF ContextRelease
  <2>2. ASSUME NEW s \in Slots, Cleared(io, s) PROVE StrandInv'
    <3>1. /\ slots[s].io = io /\ Quiescent(slots[s])
          /\ \A z \in Slots : slots'[z] = IF z = s THEN EmptySlot ELSE slots[z]
      BY <2>2 DEF Cleared, Find, TypeInv, TypeOK
    <3>2. \A z \in Slots : z # s => slots[z].io # io
      BY <3>1 DEF OwnerInv, ContextsApart
    <3>3. \A z \in Slots : slots[z].held \subseteq slots'[z].held
      BY <3>1 DEF Quiescent
    <3>4. UnmapMayFail \/ \A g \in deferred' : HeldRange(slots', g)
      BY <2>1, <3>3, StillCovered
    <3>5. QED
      BY <2>1, <3>1, <3>2, <3>4 DEF StrandInv, EmptySlot
  <2>3. CASE OnlyMarked(io)
    <3>1. UnmapMayFail \/ \A g \in deferred' : HeldRange(slots', g)
      BY <2>1, <2>3, StillCovered DEF OnlyMarked
    <3>2. ASSUME NEW z \in Slots
          PROVE  /\ slots'[z].busy \/ slots'[z].recovering \/ slots'[z].released =>
                      slots'[z].held \cup slots'[z].scratch # {}
                 /\ slots'[z].io # NoContext => (slots'[z].released <=> slots'[z].io \notin appCtx')
      BY <2>1, <2>3 DEF OnlyMarked, StrandInv, Find, Quiescent
    <3>3. QED
      BY <3>1, <3>2 DEF StrandInv
  <2>4. QED
    BY <1>9, <2>2, <2>3, ClearedOrMarked
<1>10. ASSUME NEW t \in Threads, NEW io \in Contexts, NEW s \in Slots,
              RejectScratch(t, io, s) \/ Reject(t, io, s)
       PROVE  StrandInv'
  <2>1. PICK new : Opened(s, io, new)
    BY <1>10, OpenedEffect
  <2>2. appCtx' = appCtx /\ deferred' \subseteq deferred
    BY <1>10 DEF RejectScratch, Reject, SweepDeferred
  <2>3. \A z \in Slots : slots[z].held \subseteq slots'[z].held
    BY <2>1 DEF Opened, TypeInv, TypeOK
  <2>4. ~slots[s].released
    <3>1. CASE slots[s].io = NoContext
      BY <3>1 DEF OwnerInv, SlotsSound, SlotOK, EmptySlot
    <3>2. CASE slots[s].io = io
      BY <2>1, <3>2 DEF Opened, StrandInv
    <3>3. QED
      BY <2>1, <3>1, <3>2 DEF Opened, SlotFor, Find, Unused
  <2>5. QED
    BY <2>1, <2>2, <2>3, <2>4, StillCovered, StrandSlot DEF Opened
<1>11. ASSUME NEW t \in Threads, NEW io \in Contexts, NEW s \in Slots,
              NEW rs \in SUBSET Resources, Acquire(t, io, s, rs)
       PROVE  StrandInv'
  <2>1. PICK new : Filled(t, io, s, rs, new)
    BY <1>11, FilledEffect
  <2>2. appCtx' = appCtx /\ deferred' = deferred /\ Needed(io, rs) \cup buf[t] # {}
    BY <1>11 DEF Acquire, Callable
  <2>3. \A z \in Slots : slots[z].held \subseteq slots'[z].held
    BY <2>1 DEF Filled, TypeInv, TypeOK
  <2>4. ~slots[s].released
    <3>1. CASE slots[s].io = NoContext
      BY <3>1 DEF OwnerInv, SlotsSound, SlotOK, EmptySlot
    <3>2. CASE slots[s].io = io
      BY <2>1, <3>2 DEF Filled, StrandInv
    <3>3. QED
      BY <2>1, <3>1, <3>2 DEF Filled, SlotFor, Find, Unused
  <2>5. QED
    BY <2>1, <2>2, <2>3, <2>4, StillCovered, StrandSlot DEF Filled
<1>12. ASSUME NEW p \in Procs,
              \/ p \in Threads /\ (Fail(p) \/ SpawnFails(p))
              \/ p \in Workers /\ GiveUp(p)
       PROVE  StrandInv'
  <2>1. at[p] \in Slots
    BY <1>12, MarkedEffect
  <2>2. PICK new : Marked(at[p], new)
    BY <1>12, MarkedEffect
  <2>3. appCtx' = appCtx /\ deferred' = deferred
    BY <1>12 DEF Fail, SpawnFails, GiveUp
  <2>4. \A z \in Slots : slots[z].held \subseteq slots'[z].held
    BY <2>1, <2>2 DEF Marked, TypeInv, TypeOK
  <2>5. QED
    BY <2>1, <2>2, <2>3, <2>4, StillCovered, StrandSlot DEF Marked, StrandInv
<1>13. ASSUME NEW p \in Procs,
              (p \in Threads /\ Complete(p)) \/ (p \in Workers /\ Recover(p))
       PROVE  StrandInv'
  <2>1. at[p] \in Slots
    BY <1>13, SettledEffect
  <2>2. PICK new : Settled(at[p], new)
    BY <1>13, SettledEffect
  <2>3. appCtx' = appCtx /\ SweepDeferred(slots')
    BY <1>13 DEF Complete, Recover, ReleaseHolds
  <2>4. UnmapMayFail \/ \A g \in deferred' : HeldRange(slots', g)
    BY <2>3 DEF SweepDeferred
  <2>5. new.io # NoContext => (new.released <=> new.io \notin appCtx)
    BY <2>1, <2>2 DEF Settled, StrandInv, EmptySlot
  <2>6. QED
    BY <2>1, <2>2, <2>3, <2>4, <2>5, StrandSlot DEF Settled
<1>14. ASSUME NEW t \in Threads, ThreadStep(t) PROVE StrandInv'
  <2>1. CASE Execute(t)
    BY <1>2, <1>10, <1>11, <2>1 DEF Execute
  <2>2. CASE Complete(t) \/ Fail(t) \/ SpawnFails(t) \/ EndTransaction(t)
    BY <1>3, <1>12, <1>13, <2>2 DEF Procs
  <2>3. QED
    BY <1>2, <1>14, <2>1, <2>2 DEF ThreadStep
<1>15. ASSUME NEW w \in Workers, WorkerStep(w) PROVE StrandInv'
  BY <1>3, <1>12, <1>13, <1>15 DEF WorkerStep, Procs
<1>16. QED
  BY <1>2, <1>4, <1>5, <1>6, <1>7, <1>8, <1>9, <1>14, <1>15 DEF Next, PendingCall
-----------------------------------------------------------------------------
(* Transactions.                                                            *)

Active == {s \in Slots : slots[s].activity}
Ending == {p \in Procs : pc[p] = "ending"}

\* Every open transaction belongs to a slot, to a process about to end it, or
\* to a context release about to end it.
TransInv ==
  /\ IsFiniteSet(Ending)
  /\ xpc = Cardinality(Active) + Cardinality(Ending) + ends

\* Slots are finitely many.
LEMMA ActiveIsFinite == IsFiniteSet(Active) /\ Cardinality(Active) \in Nat
  BY ObjectAssumption, FS_Subset, FS_CardinalityType DEF Active

\* How the number of transactions of slots changes with one slot.
LEMMA ActiveMoves ==
  ASSUME TypeInv, NEW s \in Slots, NEW new, slots' = [slots EXCEPT ![s] = new]
  PROVE  Cardinality(Active') = Cardinality(Active \ {s}) + Count(new.activity)
<1>1. Active' = IF new.activity THEN (Active \ {s}) \cup {s} ELSE Active \ {s}
  BY DEF Active, TypeInv, TypeOK
<1>2. IsFiniteSet(Active \ {s})
  BY ActiveIsFinite, FS_RemoveElement
<1>3. /\ Cardinality((Active \ {s}) \cup {s}) = Cardinality(Active \ {s}) + 1
      /\ Cardinality(Active \ {s}) \in Nat
  BY <1>2, FS_AddElement, FS_CardinalityType
<1>4. QED
  BY <1>1, <1>3 DEF Count

\* The transactions of the other slots.
LEMMA ActiveOthers ==
  ASSUME NEW s \in Slots
  PROVE  Cardinality(Active \ {s}) = Cardinality(Active) - Count(slots[s].activity)
<1>1. s \in Active <=> slots[s].activity
  BY DEF Active
<1>2. Cardinality(Active \ {s})
        = IF s \in Active THEN Cardinality(Active) - 1 ELSE Cardinality(Active)
  BY ActiveIsFinite, FS_RemoveElement
<1>3. Cardinality(Active) \in Nat
  BY ActiveIsFinite
<1>4. CASE slots[s].activity
  BY <1>1, <1>2, <1>4 DEF Count
<1>5. CASE ~slots[s].activity
  BY <1>1, <1>2, <1>3, <1>5 DEF Count
<1>6. QED
  BY <1>4, <1>5

\* A process that moves to "ending", away from it, or elsewhere.
LEMMA EndingMoves ==
  ASSUME TypeInv, TransInv, NEW p \in Procs, NEW q, pc' = [pc EXCEPT ![p] = q]
  PROVE  /\ IsFiniteSet(Ending') /\ Cardinality(Ending) \in Nat
         /\ Cardinality(Ending') = Cardinality(Ending) - Count(pc[p] = "ending") + Count(q = "ending")
<1>1. Ending' = IF q = "ending" THEN (Ending \ {p}) \cup {p} ELSE Ending \ {p}
  BY DEF Ending, TypeInv, TypeOK
<1>2. p \in Ending <=> pc[p] = "ending"
  BY DEF Ending
<1>3. IsFiniteSet(Ending) /\ Cardinality(Ending) \in Nat
  BY FS_CardinalityType DEF TransInv
<1>4. IsFiniteSet(Ending \ {p})
      /\ Cardinality(Ending \ {p}) = Cardinality(Ending) - Count(pc[p] = "ending")
  BY <1>2, <1>3, FS_RemoveElement DEF Count
<1>5. /\ IsFiniteSet((Ending \ {p}) \cup {p})
      /\ Cardinality((Ending \ {p}) \cup {p}) = Cardinality(Ending \ {p}) + 1
  BY <1>4, FS_AddElement
<1>6. QED
  BY <1>1, <1>3, <1>4, <1>5 DEF Count

\* A step in which no slot and no process enters or leaves a transaction.
LEMMA TransSame ==
  ASSUME TypeInv, TransInv, xpc' = xpc, ends' = ends,
         \A s \in Slots : slots'[s].activity = slots[s].activity,
         pc' = pc \/ \E p \in Procs : \E q : /\ pc' = [pc EXCEPT ![p] = q]
                                             /\ pc[p] # "ending" /\ q # "ending"
  PROVE  TransInv'
<1>1. Active' = Active
  BY DEF Active
<1>2. Ending' = Ending
  BY DEF Ending, TypeInv, TypeOK
<1>3. QED
  BY <1>1, <1>2 DEF TransInv

\* At start no transaction is open.
THEOREM TransInit == Init => TransInv
<1> SUFFICES ASSUME Init PROVE TransInv
  OBVIOUS
<1>1. Active = {} /\ Ending = {} /\ xpc = 0 /\ ends = 0
  BY DEF Init, Active, Ending, EmptySlot
<1>2. QED
  BY <1>1, FS_EmptySet DEF TransInv

\* A transaction is begun with its slot and ended once, by whoever took it over.
THEOREM TransStep == TypeInv /\ OwnerInv /\ TransInv /\ [Next]_vars => TransInv'
<1> SUFFICES ASSUME TypeInv, OwnerInv, TransInv, [Next]_vars PROVE TransInv'
  OBVIOUS
<1> USE ContextAssumption, ProcessAssumption
<1>0. /\ Cardinality(Active) \in Nat /\ Cardinality(Ending) \in Nat /\ IsFiniteSet(Ending)
      /\ xpc = Cardinality(Active) + Cardinality(Ending) + ends
      /\ xpc \in Int /\ ends \in Nat
  BY ActiveIsFinite, FS_CardinalityType DEF TransInv, TypeInv, TypeOK
<1>1. ASSUME slots' = slots, xpc' = xpc, ends' = ends, pc' = pc PROVE TransInv'
  BY <1>1, TransSame
<1>2. ASSUME NEW t \in Threads,
             \/ \E X \in SUBSET Scratch : Prepare(t, X)
             \/ \E io \in Contexts : Refuse(t, io)
             \/ Abandon(t) \/ Cleanup(t) \/ Submit(t) \/ FinishFence(t)
      PROVE  TransInv'
  <2>1. /\ slots' = slots /\ xpc' = xpc /\ ends' = ends
        /\ \E q \in {"prepared", "cleanup", "idle", "fence", "failed", "completed"} :
             pc' = [pc EXCEPT ![t] = q]
        /\ pc[t] # "ending"
    BY <1>2 DEF Prepare, Refuse, Abandon, Cleanup, Submit, FinishFence, Goto
  <2>2. QED
    BY <2>1, TransSame DEF Procs
<1>3. ASSUME NEW t \in Threads, NEW w \in Workers, Spawn(t, w) PROVE TransInv'
  <2>1. /\ slots' = slots /\ xpc' = xpc /\ ends' = ends
        /\ pc[t] = "spawn" /\ pc[w] = "idle"
        /\ pc' = [pc EXCEPT ![t] = "cleanup", ![w] = "drain"]
    BY <1>3 DEF Spawn
  <2>2. Ending' = Ending
    BY <2>1 DEF Ending, TypeInv, TypeOK, Procs
  <2>3. Active' = Active
    BY <2>1 DEF Active
  <2>4. QED
    BY <2>1, <2>2, <2>3 DEF TransInv
<1>4. ASSUME NEW w \in Workers, Drain(w) PROVE TransInv'
  <2>1. /\ slots' = slots /\ xpc' = xpc /\ ends' = ends
        /\ \E q \in {"drain", "drained", "gave_up"} : pc' = [pc EXCEPT ![w] = q]
        /\ pc[w] # "ending"
    BY <1>4 DEF Drain, Goto
  <2>2. QED
    BY <2>1, TransSame DEF Procs
<1>5. ASSUME NEW p \in Procs, EndTransaction(p) PROVE TransInv'
  <2>1. /\ slots' = slots /\ xpc' = xpc - 1 /\ ends' = ends /\ pc[p] = "ending"
        /\ \E q \in {"cleanup", "idle"} : pc' = [pc EXCEPT ![p] = q]
    BY <1>5 DEF EndTransaction, Goto
  <2>2. Active' = Active
    BY <2>1 DEF Active
  <2>3. IsFiniteSet(Ending') /\ Cardinality(Ending') = Cardinality(Ending) - 1
    <3>1. PICK q \in {"cleanup", "idle"} : pc' = [pc EXCEPT ![p] = q]
      BY <2>1
    <3>2. /\ IsFiniteSet(Ending')
          /\ Cardinality(Ending')
               = Cardinality(Ending) - Count(pc[p] = "ending") + Count(q = "ending")
      BY <3>1, EndingMoves
    <3>3. Count(pc[p] = "ending") = 1 /\ Count(q = "ending") = 0
      BY <2>1, <3>1 DEF Count
    <3>4. QED
      BY <1>0, <3>2, <3>3
  <2>4. QED
    BY <1>0, <2>1, <2>2, <2>3 DEF TransInv
<1>6. ASSUME ReleaseEndsTransaction PROVE TransInv'
  <2>1. slots' = slots /\ pc' = pc /\ xpc' = xpc - 1 /\ ends' = ends - 1
    BY <1>6 DEF ReleaseEndsTransaction
  <2>2. Active' = Active /\ Ending' = Ending
    BY <2>1 DEF Active, Ending
  <2>3. QED
    BY <1>0, <2>1, <2>2 DEF TransInv
<1>7. ASSUME NEW r \in Resources,
             ResourceCreate(r) \/ ResourceRelease(r) \/ NativeResourceRelease(r)
      PROVE  TransInv'
  BY <1>1, <1>7 DEF ResourceCreate, ResourceRelease, NativeResourceRelease
<1>8. ASSUME NEW g \in Ranges, VmAllocate(g) \/ VmDeallocate(g) PROVE TransInv'
  BY <1>1, <1>8 DEF VmAllocate, VmDeallocate
<1>9. ASSUME NEW io \in Contexts, ContextCreate(io) \/ NativeContextRelease(io) \/ GpuFinishes(io)
      PROVE  TransInv'
  BY <1>1, <1>9 DEF ContextCreate, NativeContextRelease, GpuFinishes
<1>10. ASSUME UNCHANGED vars PROVE TransInv'
  BY <1>1, <1>10 DEF vars
<1>11. ASSUME NEW io \in Contexts, ContextRelease(io) PROVE TransInv'
  <2>1. pc' = pc /\ xpc' = xpc
    BY <1>11 DEF ContextRelease
  <2>2. Ending' = Ending
    BY <2>1 DEF Ending
  <2>3. ASSUME NEW s \in Slots, Cleared(io, s) PROVE TransInv'
    <3>1. slots' = [slots EXCEPT ![s] = EmptySlot] /\ ends' = ends + Count(slots[s].activity)
      BY <2>3 DEF Cleared
    <3>2. /\ Cardinality(Active') = Cardinality(Active \ {s}) + Count(EmptySlot.activity)
          /\ Count(EmptySlot.activity) = 0
      <4>1. Cardinality(Active') = Cardinality(Active \ {s}) + Count(EmptySlot.activity)
        BY <3>1, ActiveMoves
      <4>2. EmptySlot.activity = FALSE
        BY DEF EmptySlot
      <4>3. QED
        BY <4>1, <4>2 DEF Count
    <3>3. Cardinality(Active \ {s}) = Cardinality(Active) - Count(slots[s].activity)
      BY ActiveOthers
    <3>4. Count(slots[s].activity) \in Nat
      BY DEF Count
    <3>5. QED
      BY <1>0, <2>1, <2>2, <3>1, <3>2, <3>3, <3>4 DEF TransInv
  <2>4. CASE OnlyMarked(io)
    BY <2>1, <2>4, TransSame DEF OnlyMarked
  <2>5. QED
    BY <1>11, <2>3, <2>4, ClearedOrMarked
<1>12. ASSUME NEW t \in Threads, NEW io \in Contexts, NEW s \in Slots,
              RejectScratch(t, io, s) \/ Reject(t, io, s)
       PROVE  TransInv'
  <2>1. PICK new : Opened(s, io, new)
    BY <1>12, OpenedEffect
  <2>2. /\ xpc' = xpc /\ ends' = ends
        /\ pc[t] = "prepared" /\ pc' = [pc EXCEPT ![t] = "cleanup"]
    BY <1>12 DEF RejectScratch, Reject, Goto
  <2>3. new.activity = slots[s].activity
    BY <2>1, SlotFields DEF Opened, TypeInv, TypeOK
  <2>4. \A z \in Slots : slots'[z].activity = slots[z].activity
    BY <2>1, <2>3 DEF Opened, TypeInv, TypeOK
  <2>5. QED
    BY <2>2, <2>4, TransSame DEF Procs
<1>13. ASSUME NEW t \in Threads, NEW io \in Contexts, NEW s \in Slots,
              NEW rs \in SUBSET Resources, Acquire(t, io, s, rs)
       PROVE  TransInv'
  <2>1. PICK new : Filled(t, io, s, rs, new)
    BY <1>13, FilledEffect
  <2>2. /\ xpc' = xpc + 1 /\ ends' = ends
        /\ pc[t] = "prepared" /\ pc' = [pc EXCEPT ![t] = "submit"]
    BY <1>13 DEF Acquire, Goto
  <2>3. Cardinality(Active') = Cardinality(Active) + 1
    <3>1. slots' = [slots EXCEPT ![s] = new] /\ new.activity /\ ~slots[s].activity
      BY <2>1 DEF Filled
    <3>2. Cardinality(Active') = Cardinality(Active \ {s}) + Count(new.activity)
      BY <3>1, ActiveMoves
    <3>3. Cardinality(Active \ {s}) = Cardinality(Active) - Count(slots[s].activity)
      BY ActiveOthers
    <3>4. Count(new.activity) = 1 /\ Count(slots[s].activity) = 0
      BY <3>1 DEF Count
    <3>5. QED
      BY <1>0, <3>2, <3>3, <3>4
  <2>4. Ending' = Ending
    BY <2>2 DEF Ending, TypeInv, TypeOK
  <2>5. QED
    BY <1>0, <2>2, <2>3, <2>4 DEF TransInv
<1>14. ASSUME NEW p \in Procs,
              \/ p \in Threads /\ (Fail(p) \/ SpawnFails(p))
              \/ p \in Workers /\ GiveUp(p)
       PROVE  TransInv'
  <2>1. at[p] \in Slots
    BY <1>14, MarkedEffect
  <2>2. PICK new : Marked(at[p], new)
    BY <1>14, MarkedEffect
  <2>3. /\ xpc' = xpc /\ ends' = ends /\ pc[p] # "ending"
        /\ \E q \in {"spawn", "cleanup", "idle"} : pc' = [pc EXCEPT ![p] = q]
    BY <1>14 DEF Fail, SpawnFails, GiveUp, Goto
  <2>4. \A z \in Slots : slots'[z].activity = slots[z].activity
    BY <2>1, <2>2 DEF Marked, TypeInv, TypeOK
  <2>5. QED
    BY <2>3, <2>4, TransSame
<1>15. ASSUME NEW p \in Procs,
              (p \in Threads /\ Complete(p)) \/ (p \in Workers /\ Recover(p))
       PROVE  TransInv'
  <2> DEFINE s == at[p]
  <2>1. s \in Slots /\ slots[s].activity
    BY <1>15, SettledEffect
  <2>2. PICK new : Settled(s, new) /\ new.activity = (p \in Workers /\ ~slots[s].released)
    BY <1>15, SettledEffect
  <2> HIDE DEF s
  <2>3. Cardinality(Active') = Cardinality(Active) - 1 + Count(new.activity)
    <3>1. slots' = [slots EXCEPT ![s] = new]
      BY <2>2 DEF Settled
    <3>2. Cardinality(Active') = Cardinality(Active \ {s}) + Count(new.activity)
      BY <2>1, <3>1, ActiveMoves
    <3>3. Cardinality(Active \ {s}) = Cardinality(Active) - Count(slots[s].activity)
      BY <2>1, ActiveOthers
    <3>4. Count(slots[s].activity) = 1
      BY <2>1 DEF Count
    <3>5. QED
      BY <1>0, <3>2, <3>3, <3>4
  <2>4. xpc' = xpc /\ ends' = ends /\ pc[p] \in {"completed", "drained"}
    BY <1>15 DEF Complete, Recover, Goto
  <2>5. CASE p \in Threads \/ slots[s].released
    <3>1. pc' = [pc EXCEPT ![p] = "ending"]
      <4>1. CASE p \in Threads /\ Complete(p)
        BY <4>1 DEF Complete, Goto
      <4>2. CASE p \in Workers /\ Recover(p)
        <5>1. slots[s] \in SlotType
          BY <2>1 DEF TypeInv, TypeOK
        <5>2. LET slot == Emptied([slots[s] EXCEPT !.recovering = FALSE])
              IN  slot.released = slots[s].released /\ slot.activity = slots[s].activity
          BY <5>1 DEF Emptied, SlotType
        <5>3. QED
          BY <2>1, <2>5, <4>2, <5>2 DEF Recover, Goto, s
      <4>3. QED
        BY <1>15, <4>1, <4>2
    <3>2. IsFiniteSet(Ending') /\ Cardinality(Ending') = Cardinality(Ending) + 1
      <4>1. /\ IsFiniteSet(Ending')
            /\ Cardinality(Ending')
                 = Cardinality(Ending) - Count(pc[p] = "ending") + Count("ending" = "ending")
        BY <3>1, EndingMoves
      <4>2. Count(pc[p] = "ending") = 0 /\ Count("ending" = "ending") = 1
        BY <2>4 DEF Count
      <4>3. QED
        BY <1>0, <4>1, <4>2
    <3>3. Count(new.activity) = 0
      BY <2>2, <2>5 DEF Count
    <3>4. QED
      BY <1>0, <2>3, <2>4, <3>2, <3>3 DEF TransInv
  <2>6. CASE p \in Workers /\ ~slots[s].released
    <3>1. pc' = [pc EXCEPT ![p] = "idle"]
      <4>1. slots[s] \in SlotType
        BY <2>1 DEF TypeInv, TypeOK
      <4>2. LET slot == Emptied([slots[s] EXCEPT !.recovering = FALSE])
            IN  slot.released = slots[s].released
        BY <4>1 DEF Emptied, SlotType
      <4>3. QED
        BY <1>15, <2>6, <4>2 DEF Recover, Goto, s
    <3>2. Ending' = Ending
      BY <2>4, <3>1 DEF Ending, TypeInv, TypeOK
    <3>3. Count(new.activity) = 1
      BY <2>2, <2>6 DEF Count
    <3>4. QED
      BY <1>0, <2>3, <2>4, <3>2, <3>3 DEF TransInv
  <2>7. QED
    BY <2>5, <2>6 DEF Procs
<1>16. ASSUME NEW t \in Threads, ThreadStep(t) PROVE TransInv'
  <2>1. CASE Execute(t)
    BY <1>2, <1>12, <1>13, <2>1 DEF Execute
  <2>2. CASE Complete(t) \/ Fail(t) \/ SpawnFails(t) \/ EndTransaction(t)
    BY <1>5, <1>14, <1>15, <2>2 DEF Procs
  <2>3. QED
    BY <1>2, <1>3, <1>16, <2>1, <2>2 DEF ThreadStep
<1>17. ASSUME NEW w \in Workers, WorkerStep(w) PROVE TransInv'
  BY <1>4, <1>5, <1>14, <1>15, <1>17 DEF WorkerStep, Procs
<1>18. QED
  BY <1>2, <1>6, <1>7, <1>8, <1>9, <1>10, <1>11, <1>16, <1>17 DEF Next, PendingCall
-----------------------------------------------------------------------------
(* The budget.                                                              *)

\* One element per slot and byte charged to it.
Row(s) == {s} \X (1..slots[s].charged)
Rows(S) == UNION {Row(s) : s \in S}

BudgetInv ==
  /\ reserved = Cardinality(Rows(Slots))
  /\ reserved <= Budget
  /\ \A s \in Slots : slots[s].charged = Charge(slots[s].held \cup slots[s].scratch)

\* A row of n bytes counts n.
LEMMA RowCount ==
  ASSUME NEW s, NEW n \in Nat
  PROVE  IsFiniteSet({s} \X (1..n)) /\ Cardinality({s} \X (1..n)) = n
<1>1. IsFiniteSet({s}) /\ Cardinality({s}) = 1
  BY FS_Singleton
<1>2. 1 \in Int /\ n \in Int
  OBVIOUS
<1>3. IsFiniteSet(1..n) /\ Cardinality(1..n) = n
  BY <1>2, FS_Interval
<1> DEFINE one == {s}
           bytes == 1..n
<1> HIDE DEF one, bytes
<1>4. /\ IsFiniteSet(one \X bytes)
      /\ Cardinality(one \X bytes) = Cardinality(one) * Cardinality(bytes)
  BY <1>1, <1>3, FS_Product DEF one, bytes
<1>5. Cardinality(one) = 1 /\ Cardinality(bytes) = n
  BY <1>1, <1>3 DEF one, bytes
<1>6. Cardinality(one \X bytes) = n
  BY <1>4, <1>5
<1>7. QED
  BY <1>4, <1>6 DEF one, bytes

\* The rows of finitely many slots are finitely many bytes.
LEMMA RowsFinite ==
  ASSUME TypeInv, NEW S \in SUBSET Slots
  PROVE  IsFiniteSet(Rows(S)) /\ Cardinality(Rows(S)) \in Nat
<1> DEFINE row == [s \in S |-> Row(s)]
           rows == {Row(s) : s \in S}
<1>1. IsFiniteSet(S)
  BY FS_Subset, ObjectAssumption
<1>2. row \in Surjection(S, rows)
  BY DEF Surjection, row, rows
<1>3. IsFiniteSet(rows)
  BY <1>1, <1>2, FS_Surjection
<1>4. \A s \in S : slots[s].charged \in Nat
  BY SlotFields DEF TypeInv, TypeOK
<1>5. ASSUME NEW s \in S PROVE IsFiniteSet(Row(s))
  BY <1>4, RowCount DEF Row
<1>6. IsFiniteSet(UNION rows)
  <2>1. \A x \in rows : IsFiniteSet(x)
    BY <1>5
  <2>2. QED
    BY <1>3, <2>1, FS_UNION
<1>7. QED
  BY <1>6, FS_CardinalityType DEF Rows

\* The bytes of a slot are its own.
LEMMA RowsOfOne ==
  ASSUME TypeInv, NEW s \in Slots
  PROVE  Cardinality(Rows(Slots)) = Cardinality(Rows(Slots \ {s})) + slots[s].charged
<1>1. slots[s].charged \in Nat
  BY SlotFields DEF TypeInv, TypeOK
<1>2. IsFiniteSet(Row(s)) /\ Cardinality(Row(s)) = slots[s].charged
  BY <1>1, RowCount DEF Row
<1>3. IsFiniteSet(Rows(Slots \ {s})) /\ Cardinality(Rows(Slots \ {s})) \in Nat
  BY RowsFinite
<1>4. Rows(Slots) = Rows(Slots \ {s}) \cup Row(s)
  BY DEF Rows
<1>5. Rows(Slots \ {s}) \cap Row(s) = {}
  BY DEF Rows, Row
<1>6. Cardinality(Rows(Slots \ {s}) \cup Row(s))
        = Cardinality(Rows(Slots \ {s})) + Cardinality(Row(s))
            - Cardinality(Rows(Slots \ {s}) \cap Row(s))
  BY <1>2, <1>3, FS_Union
<1>7. Cardinality(Rows(Slots \ {s}) \cap Row(s)) = 0
  BY <1>5, FS_EmptySet
<1>8. QED
  BY <1>1, <1>2, <1>3, <1>4, <1>6, <1>7

\* How the bytes charged change with one slot.
LEMMA RowsMove ==
  ASSUME TypeInv, TypeInv', NEW s \in Slots, NEW new, slots' = [slots EXCEPT ![s] = new]
  PROVE  Cardinality(Rows(Slots)') = Cardinality(Rows(Slots)) - slots[s].charged + new.charged
<1> DEFINE rest == Rows(Slots \ {s})
           grown == {s} \X (1..new.charged)
<1>1. \A z \in Slots : slots'[z] = IF z = s THEN new ELSE slots[z]
  BY DEF TypeInv, TypeOK
<1>2. slots'[s].charged \in Nat /\ slots[s].charged \in Nat
  BY SlotFields DEF TypeInv, TypeOK
<1>3. new.charged \in Nat
  BY <1>1, <1>2
<1>4. IsFiniteSet(grown) /\ Cardinality(grown) = new.charged
  BY <1>3, RowCount
<1>5. IsFiniteSet(rest) /\ Cardinality(rest) \in Nat
  BY RowsFinite
<1>6. Rows(Slots)' = rest \cup grown
  BY <1>1 DEF Rows, Row
<1>7. rest \cap grown = {}
  BY DEF Rows, Row
<1> HIDE DEF rest, grown
<1>8. Cardinality(rest \cup grown)
        = Cardinality(rest) + Cardinality(grown) - Cardinality(rest \cap grown)
  BY <1>4, <1>5, FS_Union
<1>9. Cardinality(rest \cap grown) = 0
  BY <1>7, FS_EmptySet
<1>10. Cardinality(Rows(Slots)) = Cardinality(rest) + slots[s].charged
  BY RowsOfOne DEF rest
<1>11. QED
  BY <1>2, <1>3, <1>4, <1>5, <1>6, <1>8, <1>9, <1>10

\* Nothing costs nothing.
LEMMA ChargeOfNothing == Charge({}) = 0
<1>1. Bytes({}) = {}
  BY DEF Bytes
<1>2. QED
  BY <1>1, FS_EmptySet DEF Charge

\* A step in which every slot keeps what it holds.
LEMMA BudgetSame ==
  ASSUME BudgetInv, reserved' = reserved,
         \A s \in Slots : /\ slots'[s].held = slots[s].held
                          /\ slots'[s].scratch = slots[s].scratch
                          /\ slots'[s].charged = slots[s].charged
  PROVE  BudgetInv'
<1>1. \A s \in Slots : Row(s)' = Row(s)
  BY DEF Row
<1>2. Rows(Slots)' = Rows(Slots)
  BY <1>1 DEF Rows
<1>3. QED
  BY <1>2 DEF BudgetInv

\* At start nothing is charged.
THEOREM BudgetInit == Init => BudgetInv
<1> SUFFICES ASSUME Init PROVE BudgetInv
  OBVIOUS
<1>1. \A s \in Slots : slots[s] = EmptySlot
  BY DEF Init
<1>2. \A s \in Slots : slots[s].charged = 0 /\ slots[s].held \cup slots[s].scratch = {}
  BY <1>1 DEF EmptySlot
<1>3. \A s \in Slots : Row(s) = {}
  BY <1>2 DEF Row
<1>4. Rows(Slots) = {}
  BY <1>3 DEF Rows
<1>5. reserved = 0 /\ 0 <= Budget
  BY BoundAssumption DEF Init
<1>6. QED
  BY <1>2, <1>4, <1>5, FS_EmptySet, ChargeOfNothing DEF BudgetInv

\* A batch is charged when its holds are taken and given back when they end.
THEOREM BudgetStep ==
  TypeInv /\ TypeInv' /\ OwnerInv /\ BudgetInv /\ [Next]_vars => BudgetInv'
<1> SUFFICES ASSUME TypeInv, TypeInv', OwnerInv, BudgetInv, [Next]_vars PROVE BudgetInv'
  OBVIOUS
<1> USE ContextAssumption, ProcessAssumption
<1>1. ASSUME slots' = slots, reserved' = reserved PROVE BudgetInv'
  BY <1>1, BudgetSame
<1>2. ASSUME NEW t \in Threads,
             \/ \E X \in SUBSET Scratch : Prepare(t, X)
             \/ \E io \in Contexts : Refuse(t, io)
             \/ \E w \in Workers : Spawn(t, w)
             \/ Abandon(t) \/ Cleanup(t) \/ Submit(t) \/ FinishFence(t)
      PROVE  BudgetInv'
  BY <1>1, <1>2 DEF Prepare, Refuse, Spawn, Abandon, Cleanup, Submit, FinishFence
<1>3. ASSUME NEW p \in Procs, EndTransaction(p) \/ (p \in Workers /\ Drain(p)) PROVE BudgetInv'
  BY <1>1, <1>3 DEF EndTransaction, Drain
<1>4. ASSUME NEW r \in Resources,
             ResourceCreate(r) \/ ResourceRelease(r) \/ NativeResourceRelease(r)
      PROVE  BudgetInv'
  BY <1>1, <1>4 DEF ResourceCreate, ResourceRelease, NativeResourceRelease
<1>5. ASSUME NEW g \in Ranges, VmAllocate(g) \/ VmDeallocate(g) PROVE BudgetInv'
  BY <1>1, <1>5 DEF VmAllocate, VmDeallocate
<1>6. ASSUME NEW io \in Contexts, ContextCreate(io) \/ NativeContextRelease(io) \/ GpuFinishes(io)
      PROVE  BudgetInv'
  BY <1>1, <1>6 DEF ContextCreate, NativeContextRelease, GpuFinishes
<1>7. ASSUME ReleaseEndsTransaction \/ UNCHANGED vars PROVE BudgetInv'
  BY <1>1, <1>7 DEF ReleaseEndsTransaction, vars
<1>8. ASSUME NEW io \in Contexts, ContextRelease(io) PROVE BudgetInv'
  <2>1. reserved' = reserved
    BY <1>8 DEF ContextRelease
  <2>2. ASSUME NEW s \in Slots, Cleared(io, s) PROVE BudgetInv'
    <3>1. /\ slots[s].held = {} /\ slots[s].scratch = {}
          /\ \A z \in Slots : slots'[z] = IF z = s THEN EmptySlot ELSE slots[z]
      BY <2>2 DEF Cleared, Quiescent, TypeInv, TypeOK
    <3>2. slots[s].charged = 0
      <4>1. slots[s].held \cup slots[s].scratch = {}
        BY <3>1
      <4>2. QED
        BY <4>1, ChargeOfNothing DEF BudgetInv
    <3>3. ASSUME NEW z \in Slots
          PROVE  /\ slots'[z].held = slots[z].held /\ slots'[z].scratch = slots[z].scratch
                 /\ slots'[z].charged = slots[z].charged
      <4>1. EmptySlot.held = {} /\ EmptySlot.scratch = {} /\ EmptySlot.charged = 0
        BY DEF EmptySlot
      <4>2. QED
        BY <3>1, <3>2, <4>1
    <3>4. QED
      BY <2>1, <3>3, BudgetSame
  <2>3. CASE OnlyMarked(io)
    BY <2>1, <2>3, BudgetSame DEF OnlyMarked
  <2>4. QED
    BY <1>8, <2>2, <2>3, ClearedOrMarked
<1>9. ASSUME NEW t \in Threads, NEW io \in Contexts, NEW s \in Slots,
             RejectScratch(t, io, s) \/ Reject(t, io, s)
      PROVE  BudgetInv'
  <2>1. PICK new : Opened(s, io, new)
    BY <1>9, OpenedEffect
  <2>2. reserved' = reserved
    BY <1>9 DEF RejectScratch, Reject
  <2>3. \A z \in Slots : slots'[z] = IF z = s THEN new ELSE slots[z]
    BY <2>1 DEF Opened, TypeInv, TypeOK
  <2>4. QED
    BY <2>1, <2>2, <2>3, BudgetSame DEF Opened
<1>10. ASSUME NEW t \in Threads, NEW io \in Contexts, NEW s \in Slots,
              NEW rs \in SUBSET Resources, Acquire(t, io, s, rs)
       PROVE  BudgetInv'
  <2> DEFINE charge == Charge(buf[t] \cup Needed(io, rs))
  <2>1. PICK new : Filled(t, io, s, rs, new)
    BY <1>10, FilledEffect
  <2>2. reserved' = reserved + charge /\ charge <= Budget - reserved
    BY <1>10 DEF Acquire, Fits
  <2>3. charge \in Nat
    <3>1. buf[t] \cup Needed(io, rs) \subseteq Resources \cup Scratch
      BY MemoryAssumption DEF Needed, TypeInv, TypeOK
    <3>2. QED
      BY <3>1, ChargeIsNat
  <2>4. new.charged = charge /\ new.held \cup new.scratch = buf[t] \cup Needed(io, rs)
    BY <2>1 DEF Filled
  <2>5. slots[s].charged = 0
    <3>1. slots[s].held \cup slots[s].scratch = {}
      BY <2>1 DEF Filled
    <3>2. QED
      BY <3>1, ChargeOfNothing DEF BudgetInv
  <2>6. slots' = [slots EXCEPT ![s] = new]
    BY <2>1 DEF Filled
  <2>7. Cardinality(Rows(Slots)') = Cardinality(Rows(Slots)) - slots[s].charged + new.charged
    BY <2>6, RowsMove
  <2>8. Cardinality(Rows(Slots)) \in Nat
    BY RowsFinite
  <2>9. reserved' = Cardinality(Rows(Slots)')
    BY <2>2, <2>3, <2>4, <2>5, <2>7, <2>8 DEF BudgetInv
  <2>10. reserved' <= Budget
    BY <2>2, <2>3, <2>8, BoundAssumption DEF BudgetInv
  <2>11. \A z \in Slots : slots'[z].charged = Charge(slots'[z].held \cup slots'[z].scratch)
    BY <2>4, <2>6 DEF BudgetInv, TypeInv, TypeOK
  <2>12. QED
    BY <2>9, <2>10, <2>11 DEF BudgetInv
<1>11. ASSUME NEW p \in Procs,
              \/ p \in Threads /\ (Fail(p) \/ SpawnFails(p))
              \/ p \in Workers /\ GiveUp(p)
       PROVE  BudgetInv'
  <2>1. at[p] \in Slots
    BY <1>11, MarkedEffect
  <2>2. PICK new : Marked(at[p], new)
    BY <1>11, MarkedEffect
  <2>3. reserved' = reserved
    BY <1>11 DEF Fail, SpawnFails, GiveUp
  <2>4. \A z \in Slots : slots'[z] = IF z = at[p] THEN new ELSE slots[z]
    BY <2>1, <2>2 DEF Marked, TypeInv, TypeOK
  <2>5. QED
    BY <2>2, <2>3, <2>4, BudgetSame DEF Marked
<1>12. ASSUME NEW p \in Procs,
              (p \in Threads /\ Complete(p)) \/ (p \in Workers /\ Recover(p))
       PROVE  BudgetInv'
  <2> DEFINE s == at[p]
  <2>1. s \in Slots
    BY <1>12, SettledEffect
  <2>2. PICK new : Settled(s, new)
    BY <1>12, SettledEffect
  <2>3. reserved' = reserved - slots[s].charged
    BY <1>12 DEF Complete, Recover, ReleaseHolds
  <2> HIDE DEF s
  <2>4. slots' = [slots EXCEPT ![s] = new] /\ new.charged = 0 /\ new.held \cup new.scratch = {}
    BY <2>2 DEF Settled
  <2>5. Cardinality(Rows(Slots)') = Cardinality(Rows(Slots)) - slots[s].charged + new.charged
    BY <2>1, <2>4, RowsMove
  <2>6. Cardinality(Rows(Slots)) \in Nat /\ slots[s].charged \in Nat
    BY <2>1, RowsFinite, SlotFields DEF TypeInv, TypeOK
  <2>7. reserved' = Cardinality(Rows(Slots)') /\ reserved' <= Budget
    BY <2>3, <2>4, <2>5, <2>6, BoundAssumption DEF BudgetInv
  <2>8. \A z \in Slots : slots'[z].charged = Charge(slots'[z].held \cup slots'[z].scratch)
    BY <2>1, <2>4, ChargeOfNothing DEF BudgetInv, TypeInv, TypeOK
  <2>9. QED
    BY <2>7, <2>8 DEF BudgetInv
<1>13. ASSUME NEW t \in Threads, ThreadStep(t) PROVE BudgetInv'
  <2>1. CASE Execute(t)
    BY <1>2, <1>9, <1>10, <2>1 DEF Execute
  <2>2. CASE Complete(t) \/ Fail(t) \/ SpawnFails(t) \/ EndTransaction(t)
    BY <1>3, <1>11, <1>12, <2>2 DEF Procs
  <2>3. QED
    BY <1>2, <1>13, <2>1, <2>2 DEF ThreadStep
<1>14. ASSUME NEW w \in Workers, WorkerStep(w) PROVE BudgetInv'
  BY <1>3, <1>11, <1>12, <1>14 DEF WorkerStep, Procs
<1>15. QED
  BY <1>2, <1>4, <1>5, <1>6, <1>7, <1>8, <1>13, <1>14 DEF Next, PendingCall
-----------------------------------------------------------------------------
(* The steps as leases.                                                     *)

\* What running work may access exists.
Leased == \A io \in Contexts : Accessed(io) \subseteq Existing

\* Work that is safe runs on things that exist.
LEMMA SafeIsLeased ==
  ASSUME TypeInv, GpuSafe
  PROVE  Leased
<1> SUFFICES ASSUME NEW io \in Contexts, NEW x \in Accessed(io) PROVE x \in Existing
  BY DEF Leased
<1>1. gpu[io] # {}
  BY DEF Accessed
<1>2. /\ ctxRefs[io] > 0
      /\ \A y \in gpu[io] \cap Resources : ResourceExists(y) /\ Memory[y] \subseteq mapped
      /\ gpu[io] \cap Scratch \subseteq live
  BY <1>1 DEF GpuSafe
<1>3. gpu[io] \subseteq Resources \cup Scratch
  BY DEF TypeInv, TypeOK
<1>4. CASE x = io
  BY <1>2, <1>4 DEF Existing
<1>5. CASE x \in gpu[io]
  BY <1>2, <1>3, <1>5 DEF Existing
<1>6. CASE \E r \in gpu[io] \cap Resources : x \in Memory[r]
  BY <1>2, <1>6 DEF Existing
<1>7. QED
  BY <1>1, <1>4, <1>5, <1>6 DEF Accessed

\* Nothing that exists goes away.
Grows ==
  /\ \A io \in Contexts : ctxRefs[io] > 0 => ctxRefs'[io] > 0
  /\ \A r \in Resources : refs[r] > 0 => refs'[r] > 0
  /\ live \subseteq live' /\ mapped \subseteq mapped'

\* Nothing new exists.
Shrinks ==
  /\ \A io \in Contexts : ctxRefs'[io] > 0 => ctxRefs[io] > 0
  /\ \A r \in Resources : refs'[r] > 0 => refs[r] > 0
  /\ live' \subseteq live /\ mapped' \subseteq mapped

\* While the GPU's work stays the same, the leases do.
LEMMA SameLease ==
  ASSUME gpu' = gpu
  PROVE  [io \in Contexts |-> Accessed(io)]' = [io \in Contexts |-> Accessed(io)]
  BY DEF Accessed

\* A step that starts and ends no work provides or destroys.
LEMMA ProvideOrDestroy ==
  ASSUME Leased', gpu' = gpu, Grows \/ Shrinks
  PROVE  Lease!LeaseNext
<1> DEFINE lease == [io \in Contexts |-> Accessed(io)]
<1>1. lease' = lease
  BY SameLease
<1>2. CASE Grows
  <2>1. Existing \subseteq Existing'
    BY <1>2 DEF Grows, Existing, ResourceExists
  <2>2. Lease!Provide
    BY <1>1, <2>1 DEF Lease!Provide
  <2>3. QED
    BY <2>2 DEF Lease!LeaseNext
<1>3. CASE Shrinks
  <2>1. Existing' \subseteq Existing
    BY <1>3 DEF Shrinks, Existing, ResourceExists
  <2>2. \A c \in Contexts : lease'[c] \subseteq Existing'
    BY DEF Leased
  <2>3. \A c \in Contexts : lease[c] \subseteq Existing'
    BY <1>1, <2>2
  <2>4. Lease!Destroy
    BY <1>1, <2>1, <2>3 DEF Lease!Destroy
  <2>5. QED
    BY <2>4 DEF Lease!LeaseNext
<1>4. QED
  BY <1>2, <1>3

\* The work of one context begins or ends.
LEMMA OneLease ==
  ASSUME NEW io \in Contexts, NEW work, gpu \in [Contexts -> SUBSET (Resources \cup Scratch)],
         gpu' = [gpu EXCEPT ![io] = work]
  PROVE  [c \in Contexts |-> Accessed(c)]'
           = [[c \in Contexts |-> Accessed(c)] EXCEPT ![io] = Accessed(io)']
<1>1. \A c \in Contexts : c # io => gpu'[c] = gpu[c]
  OBVIOUS
<1>2. \A c \in Contexts : c # io => Accessed(c)' = Accessed(c)
  BY <1>1 DEF Accessed
<1>3. QED
  BY <1>2, Zenon

\* What a step does not touch exists as before.
LEMMA SameExisting ==
  ASSUME ctxRefs' = ctxRefs, refs' = refs, live' = live, mapped' = mapped
  PROVE  Existing' = Existing
  BY DEF Existing, ResourceExists

\* An accepted submission begins a lease on what its slot holds.
LEMMA SubmitBegins ==
  ASSUME Inv, Leased', NEW t \in Threads, Submit(t)
  PROVE  Lease!LeaseNext \/ (gpu' = gpu /\ Grows)
<1> DEFINE work == slots[at[t]].held \cup slots[at[t]].scratch
           lease == [c \in Contexts |-> Accessed(c)]
<1>1. pc[t] = "submit" /\ t \in Procs
  BY DEF Submit, Goto, Procs
<1>2. PICK io \in Contexts : io = slots[at[t]].io /\ gpu[io] = {}
  BY <1>1, SlotInUse DEF Inv, GpuInv, GpuQuiet
<1>3. /\ ctxRefs' = ctxRefs /\ refs' = refs /\ live' = live /\ mapped' = mapped
      /\ gpu' = gpu \/ gpu' = [gpu EXCEPT ![io] = work]
  BY <1>2 DEF Submit
<1>4. gpu \in [Contexts -> SUBSET (Resources \cup Scratch)]
  BY DEF Inv, TypeInv, TypeOK
<1> HIDE DEF work
<1>5. CASE gpu' = gpu
  BY <1>3, <1>5 DEF Grows
<1>6. CASE gpu' = [gpu EXCEPT ![io] = work] /\ work = {}
  <2>1. gpu' = gpu
    BY <1>2, <1>4, <1>6
  <2>2. QED
    BY <1>3, <2>1 DEF Grows
<1>7. CASE gpu' = [gpu EXCEPT ![io] = work] /\ work # {}
  <2>1. lease' = [lease EXCEPT ![io] = Accessed(io)']
    BY <1>2, <1>4, <1>7, OneLease
  <2>2. lease[io] = {}
    BY <1>2 DEF Accessed
  <2>3. gpu'[io] # {}
    BY <1>2, <1>4, <1>7
  <2>4. Accessed(io)' # {} /\ lease'[io] = Accessed(io)'
    BY <1>2, <2>3 DEF Accessed
  <2>5. Existing' = Existing
    BY <1>3, SameExisting
  <2>6. Accessed(io)' \subseteq Existing
    BY <1>2, <2>5 DEF Leased
  <2>7. Lease!Begin(io)
    BY <2>1, <2>2, <2>4, <2>5, <2>6 DEF Lease!Begin
  <2>8. QED
    BY <1>2, <2>7 DEF Lease!LeaseNext
<1>8. QED
  BY <1>3, <1>5, <1>6, <1>7

\* Work that finishes ends its lease.
LEMMA FinishEnds ==
  ASSUME TypeInv, NEW io \in Contexts, GpuFinishes(io)
  PROVE  Lease!LeaseNext
<1> DEFINE lease == [c \in Contexts |-> Accessed(c)]
<1>1. /\ gpu[io] # {} /\ gpu' = [gpu EXCEPT ![io] = {}]
      /\ ctxRefs' = ctxRefs /\ refs' = refs /\ live' = live /\ mapped' = mapped
  BY DEF GpuFinishes
<1>2. gpu \in [Contexts -> SUBSET (Resources \cup Scratch)]
  BY DEF TypeInv, TypeOK
<1>3. lease' = [lease EXCEPT ![io] = Accessed(io)']
  BY <1>1, <1>2, OneLease
<1>4. Accessed(io)' = {}
  BY <1>1, <1>2 DEF Accessed
<1>5. lease[io] # {}
  BY <1>1 DEF Accessed
<1>6. Existing' = Existing
  BY <1>1, SameExisting
<1>7. Lease!End(io)
  BY <1>3, <1>4, <1>5, <1>6 DEF Lease!End
<1>8. QED
  BY <1>7 DEF Lease!LeaseNext

\* The driver's own calls create or destroy, never both.
LEMMA DriverSteps ==
  ASSUME TypeInv,
         \/ \E io \in Contexts : ContextCreate(io) \/ ContextRelease(io) \/ NativeContextRelease(io)
         \/ \E r \in Resources : ResourceCreate(r) \/ ResourceRelease(r) \/ NativeResourceRelease(r)
         \/ \E g \in Ranges : VmAllocate(g) \/ VmDeallocate(g)
         \/ ReleaseEndsTransaction \/ UNCHANGED vars
  PROVE  gpu' = gpu /\ (Grows \/ Shrinks)
<1>1. ASSUME NEW io \in Contexts, ContextCreate(io) PROVE gpu' = gpu /\ Grows
  BY <1>1 DEF ContextCreate, Grows, TypeInv, TypeOK
<1>2. ASSUME NEW io \in Contexts, NativeContextRelease(io) PROVE gpu' = gpu /\ Shrinks
  BY <1>2 DEF NativeContextRelease, Shrinks, TypeInv, TypeOK
<1>3. ASSUME NEW r \in Resources, ResourceCreate(r) PROVE gpu' = gpu /\ Grows
  BY <1>3 DEF ResourceCreate, Grows, TypeInv, TypeOK
<1>4. ASSUME NEW r \in Resources, NativeResourceRelease(r) PROVE gpu' = gpu /\ Shrinks
  BY <1>4 DEF NativeResourceRelease, Shrinks, TypeInv, TypeOK
<1>5. ASSUME NEW g \in Ranges, VmAllocate(g) PROVE gpu' = gpu /\ Grows
  BY <1>5 DEF VmAllocate, Grows
<1>6. ASSUME NEW g \in Ranges, VmDeallocate(g) PROVE gpu' = gpu /\ Shrinks
  BY <1>6 DEF VmDeallocate, Shrinks
<1>7. ASSUME \/ \E io \in Contexts : ContextRelease(io)
             \/ \E r \in Resources : ResourceRelease(r)
             \/ ReleaseEndsTransaction \/ UNCHANGED vars
      PROVE  gpu' = gpu /\ Grows
  BY <1>7 DEF ContextRelease, ResourceRelease, ReleaseEndsTransaction, vars, Grows
<1>8. QED
  BY <1>1, <1>2, <1>3, <1>4, <1>5, <1>6, <1>7

\* Outside the submission, a batch and its recovery only take or only give.
LEMMA BatchSteps ==
  ASSUME TypeInv, CtxInv,
         \/ \E t \in Threads : \/ \E X \in SUBSET Scratch : Prepare(t, X)
                               \/ (ThreadStep(t) /\ ~Submit(t))
         \/ \E w \in Workers : WorkerStep(w)
  PROVE  gpu' = gpu /\ (Grows \/ Shrinks)
<1>1. ASSUME NEW t \in Threads,
             \/ \E X \in SUBSET Scratch : Prepare(t, X)
             \/ \E io \in Contexts : Refuse(t, io)
             \/ \E w \in Workers : Spawn(t, w)
             \/ Abandon(t) \/ FinishFence(t) \/ Fail(t) \/ SpawnFails(t)
      PROVE  gpu' = gpu /\ Grows
  BY <1>1 DEF Prepare, Refuse, Spawn, Abandon, FinishFence, Fail, SpawnFails, Grows
<1>2. ASSUME NEW p \in Procs, EndTransaction(p) PROVE gpu' = gpu /\ Grows
  BY <1>2 DEF EndTransaction, Grows
<1>3. ASSUME NEW w \in Workers, Drain(w) \/ GiveUp(w) PROVE gpu' = gpu /\ Grows
  BY <1>3 DEF Drain, GiveUp, Grows
<1>4. ASSUME NEW t \in Threads, Cleanup(t) PROVE gpu' = gpu /\ Shrinks
  BY <1>4 DEF Cleanup, Shrinks
<1>5. ASSUME NEW p \in Procs,
             (p \in Threads /\ Complete(p)) \/ (p \in Workers /\ Recover(p))
      PROVE  gpu' = gpu /\ Shrinks
  <2>1. gpu' = gpu /\ ctxRefs' = ctxRefs /\ \E s, x : ReleaseHolds(s, x)
    BY <1>5 DEF Complete, Recover
  <2>2. PICK s, x : ReleaseHolds(s, x)
    BY <2>1
  <2>3. live' \subseteq live /\ mapped' \subseteq mapped
    BY <2>2 DEF ReleaseHolds, SweepDeferred
  <2>4. \A r \in Resources : refs'[r] > 0 => refs[r] > 0
    BY <2>2 DEF ReleaseHolds, TypeInv, TypeOK
  <2>5. QED
    BY <2>1, <2>3, <2>4 DEF Shrinks
<1>6. ASSUME NEW io \in Contexts, NEW s \in Slots, Adopt(s, io)
      PROVE  \A c \in Contexts : ctxRefs[c] > 0 => ctxRefs'[c] > 0
  BY <1>6 DEF Adopt, TypeInv, TypeOK
<1>7. ASSUME NEW t \in Threads, NEW io \in Contexts, NEW s \in Slots, RejectScratch(t, io, s)
      PROVE  gpu' = gpu /\ Grows
  BY <1>6, <1>7 DEF RejectScratch, Grows
<1>8. ASSUME NEW t \in Threads, NEW io \in Contexts, NEW s \in Slots, Reject(t, io, s)
      PROVE  gpu' = gpu /\ Shrinks
  <2>1. /\ gpu' = gpu /\ refs' = refs /\ live' = live /\ Adopt(s, io) /\ io \in appCtx
        /\ mapped' \subseteq mapped
    BY <1>8 DEF Reject, Opens, SweepDeferred
  <2>2. ctxRefs[io] > 0
    BY <2>1 DEF CtxInv, Count, TypeInv, TypeOK
  <2>3. \A c \in Contexts : ctxRefs'[c] > 0 => ctxRefs[c] > 0
    BY <2>1, <2>2 DEF Adopt, TypeInv, TypeOK
  <2>4. QED
    BY <2>1, <2>3 DEF Shrinks
<1>9. ASSUME NEW t \in Threads, NEW io \in Contexts, NEW s \in Slots,
             NEW rs \in SUBSET Resources, Acquire(t, io, s, rs)
      PROVE  gpu' = gpu /\ Grows
  <2>1. gpu' = gpu /\ live' = live /\ mapped' = mapped /\ Adopt(s, io)
    BY <1>9 DEF Acquire
  <2>2. \A r \in Resources : refs[r] > 0 => refs'[r] > 0
    BY <1>9 DEF Acquire, TypeInv, TypeOK
  <2>3. QED
    BY <1>6, <2>1, <2>2 DEF Grows
<1>10. ASSUME NEW t \in Threads, ThreadStep(t), ~Submit(t) PROVE gpu' = gpu /\ (Grows \/ Shrinks)
  <2>1. CASE Execute(t)
    BY <1>1, <1>7, <1>8, <1>9, <2>1 DEF Execute
  <2>2. CASE Complete(t) \/ EndTransaction(t)
    BY <1>2, <1>5, <2>2 DEF Procs
  <2>3. QED
    BY <1>1, <1>4, <1>10, <2>1, <2>2 DEF ThreadStep
<1>11. ASSUME NEW w \in Workers, WorkerStep(w) PROVE gpu' = gpu /\ (Grows \/ Shrinks)
  BY <1>2, <1>3, <1>5, <1>11 DEF WorkerStep, Procs
<1>12. QED
  BY <1>1, <1>10, <1>11

\* Every step of the owner is a step of the lease or none.
LEMMA StepsAsLease == Inv /\ Leased' /\ [Next]_vars => [Lease!LeaseNext]_(Lease!leaseVars)
<1> SUFFICES ASSUME Inv, Leased', [Next]_vars PROVE Lease!LeaseNext
  OBVIOUS
<1>1. ASSUME NEW t \in Threads, Submit(t) PROVE Lease!LeaseNext
  BY <1>1, SubmitBegins, ProvideOrDestroy
<1>2. ASSUME NEW io \in Contexts, GpuFinishes(io) PROVE Lease!LeaseNext
  BY <1>2, FinishEnds DEF Inv
<1>3. CASE \/ \E t \in Threads : \/ \E X \in SUBSET Scratch : Prepare(t, X)
                                \/ (ThreadStep(t) /\ ~Submit(t))
           \/ \E w \in Workers : WorkerStep(w)
  BY <1>3, BatchSteps, ProvideOrDestroy DEF Inv
<1>4. CASE \/ \E io \in Contexts : ContextCreate(io) \/ ContextRelease(io) \/ NativeContextRelease(io)
           \/ \E r \in Resources : ResourceCreate(r) \/ ResourceRelease(r) \/ NativeResourceRelease(r)
           \/ \E g \in Ranges : VmAllocate(g) \/ VmDeallocate(g)
           \/ ReleaseEndsTransaction \/ UNCHANGED vars
  BY <1>4, DriverSteps, ProvideOrDestroy DEF Inv
<1>5. QED
  BY <1>1, <1>2, <1>3, <1>4 DEF Next, PendingCall
-----------------------------------------------------------------------------
(* Failure.                                                                 *)

\* A slot that changes keeps a failure of its context.
LEMMA FailureStays ==
  ASSUME TypeInv, NEW s \in Slots, NEW new, slots' = [slots EXCEPT ![s] = new],
         NEW io \in Contexts, Poisoned(io),
         slots[s].io = io /\ slots[s].failed => new.io = io /\ new.failed
  PROVE  Poisoned(io)'
<1>1. PICK z \in Slots : slots[z].io = io /\ slots[z].failed
  BY DEF Poisoned, Find
<1>2. slots'[z] = IF z = s THEN new ELSE slots[z]
  BY DEF TypeInv, TypeOK
<1>3. slots'[z].io = io /\ slots'[z].failed
  BY <1>1, <1>2
<1>4. QED
  BY <1>3 DEF Poisoned, Find

\* A poisoned context stays poisoned while the driver holds it.
LEMMA PoisonStays ==
  ASSUME TypeInv, OwnerInv, StrandInv, [Next]_vars,
         NEW io \in Contexts, Poisoned(io), io \in appCtx'
  PROVE  Poisoned(io)'
<1> USE ContextAssumption, ProcessAssumption
<1>1. ASSUME slots' = slots PROVE Poisoned(io)'
  BY <1>1 DEF Poisoned, Find
<1>2. ASSUME NEW t \in Threads, NEW c \in Contexts, NEW s \in Slots,
             RejectScratch(t, c, s) \/ Reject(t, c, s)
      PROVE  Poisoned(io)'
  <2>1. PICK new : Opened(s, c, new)
    BY <1>2, OpenedEffect
  <2>2. QED
    BY <2>1, FailureStays DEF Opened
<1>3. ASSUME NEW t \in Threads, NEW c \in Contexts, NEW s \in Slots,
             NEW rs \in SUBSET Resources, Acquire(t, c, s, rs)
      PROVE  Poisoned(io)'
  <2>1. PICK new : Filled(t, c, s, rs, new)
    BY <1>3, FilledEffect
  <2>2. QED
    BY <2>1, FailureStays DEF Filled
<1>4. ASSUME NEW p \in Procs,
             \/ p \in Threads /\ (Fail(p) \/ SpawnFails(p))
             \/ p \in Workers /\ GiveUp(p)
      PROVE  Poisoned(io)'
  <2>1. at[p] \in Slots
    BY <1>4, MarkedEffect
  <2>2. PICK new : Marked(at[p], new)
    BY <1>4, MarkedEffect
  <2>3. QED
    BY <2>1, <2>2, FailureStays DEF Marked
<1>5. ASSUME NEW p \in Procs,
             (p \in Threads /\ Complete(p)) \/ (p \in Workers /\ Recover(p))
      PROVE  Poisoned(io)'
  <2>1. at[p] \in Slots /\ appCtx' = appCtx
    BY <1>5, SettledEffect DEF Complete, Recover
  <2>2. PICK new : Settled(at[p], new)
    BY <1>5, SettledEffect
  <2>3. slots[at[p]].io = io => ~slots[at[p]].released
    BY <2>1 DEF StrandInv
  <2>4. QED
    BY <2>1, <2>2, <2>3, FailureStays DEF Settled
<1>6. ASSUME NEW c \in Contexts, ContextRelease(c) PROVE Poisoned(io)'
  <2>1. io # c
    BY <1>6 DEF ContextRelease
  <2>2. ASSUME NEW s \in Slots, Cleared(c, s) PROVE Poisoned(io)'
    BY <2>1, <2>2, FailureStays DEF Cleared, Find
  <2>3. CASE OnlyMarked(c)
    BY <2>3 DEF OnlyMarked, Poisoned, Find
  <2>4. QED
    BY <1>6, <2>2, <2>3, ClearedOrMarked
<1>7. ASSUME NEW t \in Threads,
             \/ \E X \in SUBSET Scratch : Prepare(t, X)
             \/ \E c \in Contexts : Refuse(t, c)
             \/ \E w \in Workers : Spawn(t, w)
             \/ Abandon(t) \/ Cleanup(t) \/ Submit(t) \/ FinishFence(t)
      PROVE  Poisoned(io)'
  BY <1>1, <1>7 DEF Prepare, Refuse, Spawn, Abandon, Cleanup, Submit, FinishFence
<1>8. ASSUME NEW p \in Procs, EndTransaction(p) \/ (p \in Workers /\ Drain(p)) PROVE Poisoned(io)'
  BY <1>1, <1>8 DEF EndTransaction, Drain
<1>9. ASSUME \/ \E c \in Contexts : ContextCreate(c) \/ NativeContextRelease(c) \/ GpuFinishes(c)
             \/ \E r \in Resources : ResourceCreate(r) \/ ResourceRelease(r) \/ NativeResourceRelease(r)
             \/ \E g \in Ranges : VmAllocate(g) \/ VmDeallocate(g)
             \/ ReleaseEndsTransaction \/ UNCHANGED vars
      PROVE  Poisoned(io)'
  BY <1>1, <1>9 DEF ContextCreate, NativeContextRelease, GpuFinishes, ResourceCreate,
                    ResourceRelease, NativeResourceRelease, VmAllocate, VmDeallocate,
                    ReleaseEndsTransaction, vars
<1>10. ASSUME NEW t \in Threads, ThreadStep(t) PROVE Poisoned(io)'
  <2>1. CASE Execute(t)
    BY <1>2, <1>3, <1>7, <2>1 DEF Execute
  <2>2. CASE Complete(t) \/ Fail(t) \/ SpawnFails(t) \/ EndTransaction(t)
    BY <1>4, <1>5, <1>8, <2>2 DEF Procs
  <2>3. QED
    BY <1>7, <1>10, <2>1, <2>2 DEF ThreadStep
<1>11. ASSUME NEW w \in Workers, WorkerStep(w) PROVE Poisoned(io)'
  BY <1>4, <1>5, <1>8, <1>11 DEF WorkerStep, Procs
<1>12. QED
  BY <1>6, <1>7, <1>9, <1>10, <1>11 DEF Next, PendingCall

\* The GPU gets no work of a poisoned context.
LEMMA PoisonRunsNothing ==
  ASSUME Inv, [Next]_vars, NEW io \in Contexts, Poisoned(io), gpu[io] = {}
  PROVE  gpu'[io] = {}
<1>1. ASSUME NEW t \in Threads, Submit(t) PROVE gpu'[io] = {}
  <2>1. pc[t] = "submit" /\ t \in Procs
    BY <1>1 DEF Submit, Goto, Procs
  <2>2. at[t] \in Slots /\ slots[at[t]].busy
    BY <2>1, SlotInUse DEF Inv, OwnerInv, ProcsApart, InBatch
  <2>3. slots[at[t]].io # io
    <3>1. PICK z \in Slots : slots[z].io = io /\ slots[z].failed
      BY DEF Poisoned, Find
    <3>2. z # at[t]
      BY <2>2, <3>1 DEF Inv, OwnerInv, SlotsSound, SlotOK
    <3>3. QED
      BY <2>2, <3>1, <3>2, ContextAssumption DEF Inv, OwnerInv, ContextsApart
  <2>4. QED
    BY <1>1, <2>3 DEF Submit, Inv, TypeInv, TypeOK
<1>2. ASSUME NEW c \in Contexts, GpuFinishes(c) PROVE gpu'[io] = {}
  BY <1>2 DEF GpuFinishes, Inv, TypeInv, TypeOK
<1>3. CASE \/ \E t \in Threads : \/ \E X \in SUBSET Scratch : Prepare(t, X)
                                \/ (ThreadStep(t) /\ ~Submit(t))
           \/ \E w \in Workers : WorkerStep(w)
  BY <1>3, BatchSteps DEF Inv
<1>4. CASE \/ \E c \in Contexts : ContextCreate(c) \/ ContextRelease(c) \/ NativeContextRelease(c)
           \/ \E r \in Resources : ResourceCreate(r) \/ ResourceRelease(r) \/ NativeResourceRelease(r)
           \/ \E g \in Ranges : VmAllocate(g) \/ VmDeallocate(g)
           \/ ReleaseEndsTransaction \/ UNCHANGED vars
  BY <1>4, DriverSteps DEF Inv
<1>5. QED
  BY <1>1, <1>2, <1>3, <1>4 DEF Next, PendingCall
-----------------------------------------------------------------------------
(* The theorems of the accounting and of the leases.                        *)

\* The accounting keeps its invariants in every order of the steps.
THEOREM AccountsInvariance == Spec => [](StrandInv /\ TransInv /\ BudgetInv)
<1> DEFINE Accounts == StrandInv /\ TransInv /\ BudgetInv
<1>1. Init => Accounts
  BY StrandInit, TransInit, BudgetInit
<1>2. Inv /\ Inv' /\ Accounts /\ [Next]_vars => Accounts'
  BY StrandStep, TransStep, BudgetStep DEF Inv
<1> HIDE DEF Accounts
<1>3. Spec => []Accounts
  BY <1>1, <1>2, Invariance, PTL DEF Spec
<1>4. QED
  BY <1>3 DEF Accounts

\* Nothing is retained without a reason, whatever order a release, a fence and
\* a drain come in (hevc_recovery.cpp:84-128, 210-246).
THEOREM NothingIsStranded == Spec => []NothingStranded
<1>1. Inv /\ StrandInv => NothingStranded
  <2> SUFFICES ASSUME Inv, StrandInv PROVE NothingStranded
    OBVIOUS
  <2>1. \A s \in Slots : slots[s].held \cup slots[s].scratch # {} => slots[s].busy \/ slots[s].failed
    BY IdleSlot DEF Inv
  <2>2. \A s \in Slots : slots[s].released => ~Quiescent(slots[s])
    BY DEF StrandInv, Quiescent
  <2>3. QED
    BY <2>1, <2>2 DEF StrandInv, NothingStranded
<1>2. QED
  BY Invariance, AccountsInvariance, <1>1, PTL

\* Every transaction begun is ended once, and none while its work may run
\* (hevc_recovery.cpp:21).
THEOREM TransactionsBalance == Spec => []TransactionsExact
<1>1. Inv /\ TransInv => TransactionsExact
  <2> SUFFICES ASSUME Inv, TransInv PROVE TransactionsExact
    OBVIOUS
  <2>1. xpc = Cardinality({s \in Slots : slots[s].activity})
                + Cardinality({p \in Procs : pc[p] = "ending"}) + ends
    BY DEF TransInv, Active, Ending
  <2>2. ASSUME NEW io \in Contexts, gpu[io] # {} PROVE \E s \in Find(io) : slots[s].activity
    BY <2>2 DEF Inv, GpuInv, GpuCovered, OwnerInv, SlotsSound, SlotOK, Find
  <2>3. QED
    BY <2>1, <2>2 DEF TransactionsExact
<1>2. QED
  BY Invariance, AccountsInvariance, <1>1, PTL

\* What is charged is what the slots hold, and it stays within the budget.
THEOREM BudgetHolds == Spec => []BudgetExact
<1>1. BudgetInv => BudgetExact
  BY DEF BudgetInv, BudgetExact, Rows, Row
<1>2. QED
  BY AccountsInvariance, <1>1, PTL

\* A failed context stays poisoned until the driver releases it, also after a
\* drain that succeeded, and runs nothing more (hevc_recovery.cpp:136).
THEOREM FailuresStick == Spec => FailureIsSticky
<1>1. Inv /\ StrandInv /\ [Next]_vars =>
        [\A io \in Contexts : Poisoned(io) =>
           /\ io \in appCtx' => Poisoned(io)'
           /\ gpu[io] = {} => gpu'[io] = {}]_vars
  BY PoisonStays, PoisonRunsNothing DEF Inv
<1>2. QED
  BY Invariance, AccountsInvariance, <1>1, PTL DEF Spec, FailureIsSticky

\* The detailed owner implements the abstract lease: work begins on things
\* that exist, and nothing on lease is taken away.
THEOREM OwnerIsALease == Spec => LeaseSpec
<1>1. Init => Lease!LeaseInit
  BY DEF Init, Lease!LeaseInit, Existing, ResourceExists, Accessed
<1>2. Inv /\ GpuSafe => Leased
  BY SafeIsLeased DEF Inv
<1>3. QED
  BY <1>1, <1>2, Invariance, GpuWorkIsSafe, StepsAsLease, PTL DEF Spec, LeaseSpec, Lease!LeaseSpec
=============================================================================
