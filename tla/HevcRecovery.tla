---------------------------- MODULE HevcRecovery ----------------------------
(***************************************************************************)
(* Ownership of the memory a submitted HEVC batch uses.                    *)
(*                                                                         *)
(* The VA driver's imports are redirected to the wrappers of               *)
(* backend/hevc_recovery.cpp.  A batch first takes a hold on everything    *)
(* the GPU will read or write; only then is it submitted.  The holds end   *)
(* when the batch's fence is confirmed, or, after any error, when a        *)
(* detached worker has drained the whole native context.  Until then an    *)
(* object release, a vm_deallocate or a context release by the driver      *)
(* takes effect on the driver's own references only.                       *)
(*                                                                         *)
(* One action is one critical section of the file's only mutex, or one     *)
(* native call made outside it.  The native releases that follow an unlock *)
(* are counted as pending calls (`drops'), and so is the transaction end   *)
(* that follows a context release (`ends').                                *)
(***************************************************************************)
EXTENDS Integers, FiniteSets

CONSTANTS
  Threads,      \* driver threads that submit batches
  Workers,      \* detached recovery threads that pthread_create can provide
  Contexts,     \* native video contexts (`io')
  Slots,        \* the table `contexts', kContexts entries
  Resources,    \* IOAccel resource objects
  Scratch,      \* scratch allocations (ReimsScratch)
  Pages,        \* pages of the task's address space
  Ranges,       \* the ranges the driver allocates and deallocates
  Memory,       \* Memory[r]: the pages resource r is backed by
  Supported,    \* resources whose backing the catalog understands
  DataBuffers,  \* DataBuffers[io]: resources a context itself owns
  Size,         \* Size[x]: bytes charged for a resource or a scratch
  Budget,       \* kRetainedBudget
  MaxCatalog,   \* kResources
  MaxHeld,      \* kHeld
  MaxDeferred,  \* kDeferred
  MaxDrain,     \* drain attempts of one worker
  MaxEnds,      \* context releases about to end a transaction at one time
  UnmapMayFail, \* whether a vm_deallocate of a deferred range may fail
  NoContext, NoSlot

ASSUME ContextAssumption == NoContext \notin Contexts /\ NoSlot \notin Slots
ASSUME ProcessAssumption == Threads \cap Workers = {}
ASSUME ObjectAssumption ==
  /\ Resources \cap Scratch = {}
  /\ IsFiniteSet(Slots) /\ IsFiniteSet(Resources) /\ IsFiniteSet(Scratch)
ASSUME MemoryAssumption ==
  /\ Ranges \subseteq SUBSET Pages
  /\ Memory \in [Resources -> SUBSET Pages]
  /\ Supported \subseteq Resources
  /\ DataBuffers \in [Contexts -> SUBSET Resources]
  \* The framework allocates data buffers; no range of the driver backs them.
  /\ \A io \in Contexts : \A r \in DataBuffers[io] :
       Memory[r] = {} /\ r \notin Supported
ASSUME BoundAssumption ==
  /\ Size \in [Resources \cup Scratch -> Nat]
  /\ Budget \in Nat /\ MaxCatalog \in Nat /\ MaxHeld \in Nat
  /\ MaxDeferred \in Nat /\ MaxDrain \in Nat \ {0}
  /\ MaxEnds \in Nat \ {0}
  /\ UnmapMayFail \in BOOLEAN

VARIABLES
  slots,     \* the table `contexts'
  catalog,   \* the table `resources': objects the driver created
  dropping,  \* objects taken out of the catalog, native release still to come
  refs,      \* refs[r]: references of the driver and of the holds on r
  mapped,    \* pages that are mapped
  owned,     \* pages the driver has allocated and not yet deallocated
  deferred,  \* the table `deferred': ranges to unmap when no hold needs them
  reserved,  \* reservedBytes
  xpc,       \* open XPC transactions
  ends,      \* transaction ends that context releases still have to call
  appCtx,    \* contexts the driver holds
  ctxRefs,   \* ctxRefs[io]: references to a native context
  drops,     \* drops[io]: IOAccelVideoContextRelease calls still to be made
  gpu,       \* gpu[io]: what accepted, incomplete GPU work of io may access
  live,      \* scratch allocations that exist
  pc, at,    \* control state and Context* of every thread and worker
  buf,       \* buf[t]: the scratch array of the caller of execute
  attempt    \* attempt[w]: drain attempts made by a worker

appVars == <<catalog, dropping, owned, appCtx>>
memVars == <<refs, mapped, deferred, reserved, live>>
ctxVars == <<ctxRefs, drops>>
xpcVars == <<xpc, ends>>
runVars == <<pc, at, buf, attempt>>
vars == <<slots, gpu, appVars, memVars, ctxVars, xpcVars, runVars>>

Procs == Threads \cup Workers

EmptySlot ==
  [io |-> NoContext, busy |-> FALSE, failed |-> FALSE, released |-> FALSE,
   recovering |-> FALSE, activity |-> FALSE,
   held |-> {}, scratch |-> {}, charged |-> 0]

SlotType ==
  [io : Contexts \cup {NoContext}, busy : BOOLEAN, failed : BOOLEAN,
   released : BOOLEAN, recovering : BOOLEAN, activity : BOOLEAN,
   held : SUBSET Resources, scratch : SUBSET Scratch, charged : Nat]

Init ==
  /\ slots = [s \in Slots |-> EmptySlot]
  /\ catalog = {} /\ dropping = {} /\ refs = [r \in Resources |-> 0]
  /\ mapped = {} /\ owned = {} /\ deferred = {}
  /\ reserved = 0 /\ xpc = 0 /\ ends = 0
  /\ appCtx = {}
  /\ ctxRefs = [io \in Contexts |-> 0] /\ drops = [io \in Contexts |-> 0]
  /\ gpu = [io \in Contexts |-> {}]
  /\ live = {}
  /\ pc = [p \in Procs |-> "idle"] /\ at = [p \in Procs |-> NoSlot]
  /\ buf = [t \in Threads |-> {}] /\ attempt = [w \in Workers |-> 0]
-----------------------------------------------------------------------------
(* Helpers                                                                 *)

\* The byte count of a set of objects: one element per object and byte.
Bytes(S) == UNION {{x} \X (1..Size[x]) : x \in S}
Charge(S) == Cardinality(Bytes(S))

\* The pages a hold protects: only a supported resource records its range.
Tracked(r) == IF r \in Supported THEN Memory[r] ELSE {}

\* heldRange: some hold of the table covers a page of g.
HeldRange(table, g) ==
  \E s \in Slots : \E r \in table[s].held : g \cap Tracked(r) # {}

\* find, or else an unused slot.
Find(io) == {s \in Slots : slots[s].io = io}
Unused == {s \in Slots : slots[s].io = NoContext}
SlotFor(io) == IF Find(io) # {} THEN Find(io) ELSE Unused

\* Everything a batch on io that names the resources rs has to hold.
Needed(io, rs) == DataBuffers[io] \cup rs

\* Mutant: the backing of a resource need not be understood.
AcquirableUnchecked(io, rs) ==
  rs \subseteq catalog \cup DataBuffers[io] /\ Cardinality(Needed(io, rs)) <= MaxHeld

\* addHold and addHandle succeed for every resource of the batch.
Acquirable(io, rs) ==
  /\ rs \subseteq (catalog \cap Supported) \cup DataBuffers[io]
  /\ Cardinality(Needed(io, rs)) <= MaxHeld

Fits(charge) == charge <= Budget - reserved

\* A slot a context release may clear: no batch, no worker, nothing retained.
Quiescent(slot) ==
  ~slot.busy /\ ~slot.recovering /\ slot.held = {} /\ slot.scratch = {}

\* Mutant: the end of one batch unmaps the ranges other batches still hold.
SweepEverything(table) ==
  deferred' = {} /\ mapped' = mapped \ UNION deferred

\* The deferred ranges that no hold of the table covers are unmapped; one
\* whose vm_deallocate fails stays in the list.
SweepDeferred(table) ==
  LET free == {g \in deferred : ~HeldRange(table, g)}
  IN  \E done \in IF UnmapMayFail THEN SUBSET free ELSE {free} :
        /\ deferred' = deferred \ done
        /\ mapped' = mapped \ UNION done

\* Mutant: the charge survives the holds.
EmptiedStillCharged(slot) == [slot EXCEPT !.held = {}, !.scratch = {}]

\* What the holder keeps of its slot after releaseHolds.
Emptied(slot) == [slot EXCEPT !.held = {}, !.scratch = {}, !.charged = 0]

\* releaseHolds(s), the slot becoming `slot' in the same critical section.
ReleaseHolds(s, slot) ==
  /\ slots' = [slots EXCEPT ![s] = slot]
  /\ refs' = [r \in Resources |->
                IF r \in slots[s].held THEN refs[r] - 1 ELSE refs[r]]
  /\ SweepDeferred(slots')
  /\ live' = live \ slots[s].scratch
  /\ reserved' = reserved - slots[s].charged

\* Mutant: a release that came during the batch is overlooked.
RetireNever(slot) == slot

\* Mutant: a cleared slot keeps its transaction flag.
RetireStillActive(slot) ==
  IF slot.released THEN [EmptySlot EXCEPT !.activity = TRUE] ELSE slot

\* A batch's slot once its owner is done with it: gone if the driver has
\* released the context meanwhile, else ready for its next use.
Retire(slot) == IF slot.released THEN EmptySlot ELSE slot

\* Mutant: the slot's own reference leaks.
ExtraDropForgotten(slot) == UNCHANGED drops

\* The extra native reference that a retired slot gives up.
ExtraDrop(slot) ==
  drops' = IF slot.released THEN [drops EXCEPT ![slot.io] = @ + 1] ELSE drops

Goto(p, from, to) == pc[p] = from /\ pc' = [pc EXCEPT ![p] = to]
-----------------------------------------------------------------------------
(* The driver outside execute.  It follows its own contract: it creates     *)
(* resources on memory it owns, and gives each thing back once.             *)

ContextCreate(io) ==
  /\ io \notin appCtx /\ ctxRefs[io] = 0 /\ gpu[io] = {}
  /\ appCtx' = appCtx \cup {io}
  /\ ctxRefs' = [ctxRefs EXCEPT ![io] = 1]
  /\ UNCHANGED <<slots, gpu, catalog, dropping, owned, memVars, drops,
                 xpcVars, runVars>>

VmAllocate(g) ==
  /\ g \cap mapped = {}
  /\ mapped' = mapped \cup g /\ owned' = owned \cup g
  /\ UNCHANGED <<slots, gpu, catalog, dropping, appCtx, refs, deferred,
                 reserved, live, ctxVars, xpcVars, runVars>>

\* A full catalog makes the call release the new object and return null.
ResourceCreate(r) ==
  /\ refs[r] = 0 /\ \A io \in Contexts : r \notin DataBuffers[io]
  /\ Memory[r] \subseteq owned
  /\ Cardinality(catalog) < MaxCatalog
  /\ catalog' = catalog \cup {r}
  /\ refs' = [refs EXCEPT ![r] = 1]
  /\ UNCHANGED <<slots, gpu, dropping, owned, appCtx, mapped, deferred,
                 reserved, live, ctxVars, xpcVars, runVars>>

\* The entry leaves the catalog under the lock, the reference goes after it.
ResourceRelease(r) ==
  /\ r \in catalog
  /\ catalog' = catalog \ {r} /\ dropping' = dropping \cup {r}
  /\ UNCHANGED <<slots, gpu, owned, appCtx, memVars, ctxVars, xpcVars,
                 runVars>>

NativeResourceRelease(r) ==
  /\ r \in dropping
  /\ dropping' = dropping \ {r}
  /\ refs' = [refs EXCEPT ![r] = @ - 1]
  /\ UNCHANGED <<slots, gpu, catalog, owned, appCtx, mapped, deferred,
                 reserved, live, ctxVars, xpcVars, runVars>>

\* A held range is only noted; with the list full the call is refused with
\* KERN_RESOURCE_SHORTAGE and the driver still owns the range.
VmDeallocate(g) ==
  /\ g \subseteq owned
  /\ owned' = owned \ g
  /\ \/ /\ HeldRange(slots, g) /\ Cardinality(deferred) < MaxDeferred
        /\ deferred' = deferred \cup {g} /\ UNCHANGED mapped
     \/ /\ ~HeldRange(slots, g)
        /\ mapped' = mapped \ g /\ UNCHANGED deferred
  /\ UNCHANGED <<slots, gpu, catalog, dropping, appCtx, refs, reserved, live,
                 ctxVars, xpcVars, runVars>>

\* reims_owned_context_release: the native reference of the driver always
\* goes, the slot and its own reference only when nothing is outstanding.
ContextRelease(io) ==
  /\ io \in appCtx
  /\ appCtx' = appCtx \ {io}
  /\ IF \E s \in Find(io) : Quiescent(slots[s])
     THEN \E s \in Find(io) :
            /\ slots[s].activity => ends < MaxEnds
            /\ slots' = [slots EXCEPT ![s] = EmptySlot]
            /\ drops' = [drops EXCEPT ![io] = @ + 2]
            /\ ends' = IF slots[s].activity THEN ends + 1 ELSE ends
     ELSE /\ slots' = [s \in Slots |->
                        IF slots[s].io = io
                        THEN [slots[s] EXCEPT !.released = TRUE] ELSE slots[s]]
          /\ drops' = [drops EXCEPT ![io] = @ + 1]
          /\ UNCHANGED ends
  /\ UNCHANGED <<gpu, catalog, dropping, owned, memVars, ctxRefs, xpc,
                 runVars>>

\* The calls that follow an unlock.
NativeContextRelease(io) ==
  /\ drops[io] > 0
  /\ drops' = [drops EXCEPT ![io] = @ - 1]
  /\ ctxRefs' = [ctxRefs EXCEPT ![io] = @ - 1]
  /\ UNCHANGED <<slots, gpu, appVars, memVars, xpcVars, runVars>>

ReleaseEndsTransaction ==
  /\ ends > 0
  /\ ends' = ends - 1 /\ xpc' = xpc - 1
  /\ UNCHANGED <<slots, gpu, appVars, memVars, ctxVars, runVars>>
-----------------------------------------------------------------------------
(* A thread's batch: prepare its scratch, execute, destroy what is left.    *)

\* prepare(): the scratch of a batch (none for the final flush).
Prepare(t, X) ==
  /\ Goto(t, "idle", "prepared")
  /\ X \cap live = {}
  /\ live' = live \cup X /\ buf' = [buf EXCEPT ![t] = X]
  /\ UNCHANGED <<slots, gpu, appVars, refs, mapped, deferred, reserved,
                 ctxVars, xpcVars, at, attempt>>

\* prepare() gives up before it calls execute.
Abandon(t) ==
  /\ Goto(t, "prepared", "cleanup")
  /\ UNCHANGED <<slots, gpu, appVars, memVars, ctxVars, xpcVars, at, buf,
                 attempt>>

\* What every caller of execute guarantees: it holds the context, does not use
\* memory it has deallocated, and its batch names a resource or a scratch.
Callable(t, io, rs) ==
  /\ io \in appCtx
  /\ \A r \in rs \cap catalog : Memory[r] \subseteq owned
  /\ Needed(io, rs) \cup buf[t] # {}

\* -1 without a submission: the context has failed or is busy, or the table
\* is full.
Refuse(t, io) ==
  /\ io \in appCtx
  /\ \/ \E s \in Find(io) : slots[s].failed \/ slots[s].busy
     \/ SlotFor(io) = {}
  /\ Goto(t, "prepared", "cleanup")
  /\ UNCHANGED <<slots, gpu, appVars, memVars, ctxVars, xpcVars, at, buf,
                 attempt>>

\* Mutant: a second batch may start while one is running.
OpensBusy(t, io, s) ==
  /\ pc[t] = "prepared" /\ io \in appCtx
  /\ s \in SlotFor(io) /\ ~slots[s].failed

\* The slot execute works with: the context's own, or one it takes over.
Opens(t, io, s) ==
  /\ pc[t] = "prepared" /\ io \in appCtx
  /\ s \in SlotFor(io) /\ ~slots[s].failed /\ ~slots[s].busy

\* Mutant: every batch retains the context again.
AdoptAgain(s, io) == ctxRefs' = [ctxRefs EXCEPT ![io] = @ + 1]

\* A slot taken over for io keeps a reference to it from then on.
Adopt(s, io) ==
  ctxRefs' = IF slots[s].io = io THEN ctxRefs ELSE [ctxRefs EXCEPT ![io] = @ + 1]

\* 0: the scratch alone is over the budget.  Nothing is taken but the slot.
RejectScratch(t, io, s) ==
  /\ Opens(t, io, s) /\ ~Fits(Charge(buf[t]))
  /\ slots' = [slots EXCEPT ![s].io = io]
  /\ Adopt(s, io) /\ Goto(t, "prepared", "cleanup")
  /\ UNCHANGED <<gpu, appVars, memVars, drops, xpcVars, at, buf, attempt>>

\* 0: too many data-buffer classes, a malformed sideband, an unknown, foreign
\* or unsupported handle, a limit.  The partial holds go within the section,
\* and releaseHolds tries the deferred ranges once more.
Reject(t, io, s) ==
  /\ Opens(t, io, s) /\ Fits(Charge(buf[t]))
  /\ slots' = [slots EXCEPT ![s].io = io]
  /\ SweepDeferred(slots)
  /\ Adopt(s, io) /\ Goto(t, "prepared", "cleanup")
  /\ UNCHANGED <<gpu, appVars, refs, reserved, live, drops, xpcVars, at, buf,
                 attempt>>

\* Mutant: the caller's array keeps what the slot now owns.
SurrenderedKept(t) == buf

\* The caller's scratch array once the slot owns its contents.
Surrendered(t) == [buf EXCEPT ![t] = {}]

\* Every hold is taken: the slot owns the scratch and the transaction is open.
Acquire(t, io, s, rs) ==
  LET need == Needed(io, rs)
      charge == Charge(buf[t] \cup need)
  IN  /\ Opens(t, io, s) /\ Callable(t, io, rs)
      /\ Acquirable(io, rs) /\ Fits(charge)
      /\ slots' = [slots EXCEPT ![s] =
                     [@ EXCEPT !.io = io, !.busy = TRUE, !.activity = TRUE,
                               !.held = need, !.scratch = buf[t],
                               !.charged = charge]]
      /\ reserved' = reserved + charge
      /\ refs' = [r \in Resources |->
                    IF r \in need THEN refs[r] + 1 ELSE refs[r]]
      /\ xpc' = xpc + 1
      /\ buf' = Surrendered(t)
      /\ Adopt(s, io) /\ Goto(t, "prepared", "submit")
      /\ at' = [at EXCEPT ![t] = s]
      /\ UNCHANGED <<gpu, appVars, mapped, deferred, live, drops, ends,
                     attempt>>

\* IOAccelVideoContextSubmitDataBuffers.  An error does not say that the
\* kernel has not accepted the commands.
Submit(t) ==
  LET slot == slots[at[t]]
  IN  \E accepted, ok \in BOOLEAN :
        /\ Goto(t, "submit", IF ok THEN "fence" ELSE "failed")
        /\ ok => accepted
        /\ gpu' = IF accepted
                  THEN [gpu EXCEPT ![slot.io] = slot.held \cup slot.scratch]
                  ELSE gpu
        /\ UNCHANGED <<slots, appVars, memVars, ctxVars, xpcVars, at, buf,
                       attempt>>

\* Mutant: the wait cannot fail.
FinishFenceForever(t) ==
  /\ Goto(t, "fence", "completed") /\ gpu[slots[at[t]].io] = {}
  /\ UNCHANGED <<slots, gpu, appVars, memVars, ctxVars, xpcVars, at, buf,
                 attempt>>

\* The native waits succeed only when the context has no work left; they may
\* fail at any time (a timeout, a device reset).
FinishFence(t) ==
  /\ \/ Goto(t, "fence", "completed") /\ gpu[slots[at[t]].io] = {}
     \/ Goto(t, "fence", "failed")
  /\ UNCHANGED <<slots, gpu, appVars, memVars, ctxVars, xpcVars, at, buf,
                 attempt>>

\* 2: genuinely completed.
Complete(t) ==
  LET s == at[t]
      slot == Emptied([slots[s] EXCEPT !.busy = FALSE, !.activity = FALSE])
  IN  /\ Goto(t, "completed", "ending")
      /\ ReleaseHolds(s, Retire(slot)) /\ ExtraDrop(slots[s])
      /\ at' = [at EXCEPT ![t] = NoSlot]
      /\ UNCHANGED <<gpu, appVars, ctxRefs, xpcVars, buf, attempt>>

\* A failed batch: the context is poisoned, its holds go to a worker.
Fail(t) ==
  /\ Goto(t, "failed", "spawn")
  /\ slots' = [slots EXCEPT ![at[t]] =
                 [@ EXCEPT !.busy = FALSE, !.failed = TRUE, !.recovering = TRUE]]
  /\ UNCHANGED <<gpu, appVars, memVars, ctxVars, xpcVars, at, buf, attempt>>

\* pthread_create(recover)
Spawn(t, w) ==
  /\ pc[t] = "spawn" /\ pc[w] = "idle"
  /\ pc' = [pc EXCEPT ![t] = "cleanup", ![w] = "drain"]
  /\ at' = [at EXCEPT ![t] = NoSlot, ![w] = at[t]]
  /\ attempt' = [attempt EXCEPT ![w] = 0]
  /\ UNCHANGED <<slots, gpu, appVars, memVars, ctxVars, xpcVars, buf>>

\* pthread_create fails: everything stays retained.
SpawnFails(t) ==
  /\ Goto(t, "spawn", "cleanup")
  /\ slots' = [slots EXCEPT ![at[t]].recovering = FALSE]
  /\ at' = [at EXCEPT ![t] = NoSlot]
  /\ UNCHANGED <<gpu, appVars, memVars, ctxVars, xpcVars, buf, attempt>>

\* The caller destroys the scratch that was not taken from it.
Cleanup(t) ==
  /\ Goto(t, "cleanup", "idle")
  /\ live' = live \ buf[t] /\ buf' = [buf EXCEPT ![t] = {}]
  /\ UNCHANGED <<slots, gpu, appVars, refs, mapped, deferred, reserved,
                 ctxVars, xpcVars, at, attempt>>
-----------------------------------------------------------------------------
(* The recovery worker, and the GPU.                                        *)

LastAttempt(w) == attempt[w] + 1 = MaxDrain

\* IOAccelVideoContextFinish drains the whole context, outside the lock.
Drain(w) ==
  /\ \/ /\ Goto(w, "drain", "drained")
        /\ gpu[slots[at[w]].io] = {}
        /\ UNCHANGED attempt
     \/ /\ Goto(w, "drain", "drain")
        /\ ~LastAttempt(w)
        /\ attempt' = [attempt EXCEPT ![w] = @ + 1]
     \/ /\ Goto(w, "drain", "gave_up")
        /\ LastAttempt(w)
        /\ UNCHANGED attempt
  /\ UNCHANGED <<slots, gpu, appVars, memVars, ctxVars, xpcVars, at, buf>>

\* A confirmed drain: the holds end; a failed context stays poisoned until
\* its native owner releases it.
Recover(w) ==
  LET s == at[w]
      slot == Emptied([slots[s] EXCEPT !.recovering = FALSE])
  IN  /\ Goto(w, "drained",
               IF slot.released /\ slot.activity THEN "ending" ELSE "idle")
      /\ ReleaseHolds(s, Retire(slot)) /\ ExtraDrop(slots[s])
      /\ at' = [at EXCEPT ![w] = NoSlot]
      /\ attempt' = [attempt EXCEPT ![w] = 0]
      /\ UNCHANGED <<gpu, appVars, ctxRefs, xpcVars, buf>>

\* No drain succeeded: the slot and everything it holds stay occupied.
GiveUp(w) ==
  /\ Goto(w, "gave_up", "idle")
  /\ slots' = [slots EXCEPT ![at[w]].recovering = FALSE]
  /\ at' = [at EXCEPT ![w] = NoSlot]
  /\ attempt' = [attempt EXCEPT ![w] = 0]
  /\ UNCHANGED <<gpu, appVars, memVars, ctxVars, xpcVars, buf>>

GpuFinishes(io) ==
  /\ gpu[io] # {}
  /\ gpu' = [gpu EXCEPT ![io] = {}]
  /\ UNCHANGED <<slots, appVars, memVars, ctxVars, xpcVars, runVars>>

\* xpc_transaction_end of a completed batch or of a worker.
EndTransaction(p) ==
  /\ Goto(p, "ending", IF p \in Threads THEN "cleanup" ELSE "idle")
  /\ xpc' = xpc - 1
  /\ UNCHANGED <<slots, gpu, appVars, memVars, ctxVars, ends, at, buf,
                 attempt>>
-----------------------------------------------------------------------------
Execute(t) ==
  \/ \E io \in Contexts : Refuse(t, io)
  \/ \E io \in Contexts, s \in Slots :
       \/ RejectScratch(t, io, s)
       \/ Reject(t, io, s)
       \/ \E rs \in SUBSET Resources : Acquire(t, io, s, rs)

ThreadStep(t) ==
  \/ Execute(t) \/ Abandon(t)
  \/ Submit(t) \/ FinishFence(t) \/ Complete(t) \/ Fail(t)
  \/ \E w \in Workers : Spawn(t, w)
  \/ SpawnFails(t) \/ EndTransaction(t) \/ Cleanup(t)

WorkerStep(w) == Drain(w) \/ Recover(w) \/ GiveUp(w) \/ EndTransaction(w)

PendingCall ==
  ReleaseEndsTransaction \/ \E io \in Contexts : NativeContextRelease(io)

Next ==
  \/ \E t \in Threads :
       (\E X \in SUBSET Scratch : Prepare(t, X)) \/ ThreadStep(t)
  \/ \E w \in Workers : WorkerStep(w)
  \/ \E io \in Contexts :
       ContextCreate(io) \/ ContextRelease(io) \/ GpuFinishes(io)
  \/ \E r \in Resources :
       ResourceCreate(r) \/ ResourceRelease(r) \/ NativeResourceRelease(r)
  \/ \E g \in Ranges : VmAllocate(g) \/ VmDeallocate(g)
  \/ PendingCall

Spec == Init /\ [][Next]_vars

\* A thread inside the wrappers keeps running, the native waits return, and a
\* call that follows an unlock is made.  Nothing obliges the driver to submit,
\* to create or to release, nor the GPU to finish.
FairSpec ==
  /\ Spec
  /\ \A t \in Threads : WF_vars(ThreadStep(t))
  /\ \A w \in Workers : WF_vars(WorkerStep(w))
  /\ WF_vars(ReleaseEndsTransaction)
  /\ \A io \in Contexts : WF_vars(NativeContextRelease(io))
=============================================================================
