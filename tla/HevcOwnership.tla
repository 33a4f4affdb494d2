---------------------------- MODULE HevcOwnership ----------------------------
(***************************************************************************)
(* What the recovery owner promises, as properties of HevcRecovery.        *)
(***************************************************************************)
EXTENDS HevcRecovery

ThreadPC == {"idle", "prepared", "submit", "fence", "completed", "failed",
             "spawn", "ending", "cleanup"}
WorkerPC == {"idle", "drain", "drained", "gave_up", "ending"}
InBatch == {"submit", "fence", "completed", "failed"}

\* Every variable has its type; counters that the code decrements are only
\* known to be integers here.
TypeOK ==
  /\ slots \in [Slots -> SlotType]
  /\ catalog \subseteq Resources /\ dropping \subseteq Resources
  /\ refs \in [Resources -> Int]
  /\ mapped \subseteq Pages /\ owned \subseteq Pages
  /\ deferred \subseteq Ranges
  /\ reserved \in Int /\ xpc \in Int /\ ends \in Nat
  /\ appCtx \subseteq Contexts
  /\ ctxRefs \in [Contexts -> Int] /\ drops \in [Contexts -> Nat]
  /\ gpu \in [Contexts -> SUBSET (Resources \cup Scratch)]
  /\ live \subseteq Scratch
  /\ pc \in [Procs -> ThreadPC \cup WorkerPC]
  /\ at \in [Procs -> Slots \cup {NoSlot}]
  /\ buf \in [Threads -> SUBSET Scratch]
  /\ attempt \in [Workers -> 0 .. MaxDrain - 1]

ResourceExists(r) ==
  \/ refs[r] > 0
  \/ \E io \in Contexts : r \in DataBuffers[io] /\ ctxRefs[io] > 0

\* While the GPU may still access them, a batch's native context, resources,
\* their pages and its scratch all exist, whatever other threads, contexts
\* that share a resource, workers and the driver's own releases do meanwhile.
GpuSafe ==
  \A io \in Contexts : gpu[io] # {} =>
    /\ ctxRefs[io] > 0
    /\ \A x \in gpu[io] \cap Resources : ResourceExists(x) /\ Memory[x] \subseteq mapped
    /\ gpu[io] \cap Scratch \subseteq live

\* Every scratch that exists has one owner, a caller's array or a slot, so it
\* is destroyed once and never forgotten: execute takes all of it or nothing.
ScratchOwnedOnce ==
  /\ \A t, u \in Threads : t # u => buf[t] \cap buf[u] = {}
  /\ \A s, z \in Slots : s # z => slots[s].scratch \cap slots[z].scratch = {}
  /\ \A t \in Threads, s \in Slots : buf[t] \cap slots[s].scratch = {}
  /\ live = (UNION {buf[t] : t \in Threads}) \cup (UNION {slots[s].scratch : s \in Slots})

Count(P) == IF P THEN 1 ELSE 0

\* Retains and releases balance: an object has the driver's reference and one
\* per slot that holds it; a native context has the driver's, its slot's, and
\* those whose release has been decided and not yet called.
ReferencesExact ==
  /\ \A r \in Resources :
       refs[r] = Count(r \in catalog \cup dropping)
                   + Cardinality({s \in Slots : r \in slots[s].held})
  /\ \A io \in Contexts :
       ctxRefs[io] = Count(io \in appCtx) + Count(Find(io) # {}) + drops[io]

\* reservedBytes is what the slots have been charged, within the budget, and
\* a slot is charged for all it holds: the size_t never wraps below zero.
BudgetExact ==
  /\ reserved = Cardinality(UNION {{s} \X (1..slots[s].charged) : s \in Slots})
  /\ reserved <= Budget
  /\ \A s \in Slots : slots[s].charged = Charge(slots[s].held \cup slots[s].scratch)

\* hevc_recovery.cpp:21 - the XPC transaction is never ended on an unconfirmed
\* completion, and every transaction begun is ended once.
TransactionsExact ==
  /\ xpc = Cardinality({s \in Slots : slots[s].activity})
             + Cardinality({p \in Procs : pc[p] = "ending"}) + ends
  /\ \A io \in Contexts : gpu[io] # {} => \E s \in Find(io) : slots[s].activity

\* A slot has one thread or one worker at a time, exactly while it is busy or
\* recovering: nobody else's completion can be taken for this batch's.
OneOwnerPerSlot ==
  /\ \A p, q \in Procs : p # q /\ at[p] # NoSlot => at[p] # at[q]
  /\ \A s \in Slots :
       /\ slots[s].busy <=> \E t \in Threads : at[t] = s /\ pc[t] \in InBatch
       /\ slots[s].recovering <=> \E p \in Procs : at[p] = s /\ pc[p] \notin InBatch
       /\ ~(slots[s].busy /\ slots[s].recovering)
  /\ \A s, z \in Slots : s # z /\ slots[s].io = slots[z].io => slots[s].io = NoContext

\* Nothing is retained without a reason: a deferred range is still held by
\* somebody, holds belong to a running or a failed batch, and the slot of a
\* released context survives only while it is in use or its completion is
\* unknown, in whatever order release, fence and drain came.
NothingStranded ==
  /\ UnmapMayFail \/ \A g \in deferred : HeldRange(slots, g)
  /\ \A s \in Slots :
       /\ slots[s].held \cup slots[s].scratch # {} => slots[s].busy \/ slots[s].failed
       /\ slots[s].released => ~Quiescent(slots[s])
       /\ slots[s].io # NoContext =>
            (slots[s].released <=> slots[s].io \notin appCtx)

Poisoned(io) == \E s \in Find(io) : slots[s].failed

\* hevc_recovery.cpp:136 - a failed context stays poisoned until its native
\* owner releases it, also after a successful drain, and runs nothing more.
FailureIsSticky ==
  [][\A io \in Contexts : Poisoned(io) =>
       /\ io \in appCtx' => Poisoned(io)'
       /\ gpu[io] = {} => gpu'[io] = {}]_vars

\* A submitted batch returns to its caller whether or not the GPU finishes.
BatchReturns == \A t \in Threads : pc[t] = "submit" ~> pc[t] = "idle"

\* A slot given up by its worker, or that never got one.
Quarantined(io) ==
  \E s \in Find(io) : slots[s].failed /\ ~slots[s].recovering

\* A context the driver has released is destroyed in the end, unless the
\* completion of its last batch could not be confirmed.
ContextReclaimed ==
  \A io \in Contexts :
    io \notin appCtx ~> (ctxRefs[io] = 0 \/ Quarantined(io) \/ io \in appCtx)
-----------------------------------------------------------------------------
(* Refinement: what exists and what running work may access.                *)

Existing ==
  {io \in Contexts : ctxRefs[io] > 0} \cup {r \in Resources : ResourceExists(r)}
    \cup live \cup mapped

Accessed(io) ==
  IF gpu[io] = {} THEN {}
  ELSE {io} \cup gpu[io] \cup UNION {Memory[r] : r \in gpu[io] \cap Resources}

Lease == INSTANCE GpuLease WITH
  Clients <- Contexts, exists <- Existing,
  lease <- [io \in Contexts |-> Accessed(io)]

\* Owned batches implement leases.
LeaseSpec == Lease!LeaseSpec
=============================================================================
