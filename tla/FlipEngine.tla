----------------------------- MODULE FlipEngine -----------------------------
(* The primary plane of ReimsIntelADLFramebuffer: `flip` arms one update,    *)
(* the pipe latches it at a vertical blank, `itcm` retires the surface that  *)
(* left the screen, and `stop` detaches the plane.                           *)
(*                                                                          *)
(* A native resource is a model value; its IOSurface is folded into it.  The *)
(* pipe's vertical blanks and the accelerator's own prepare and complete of  *)
(* a resource interleave with every step of the driver.                     *)
EXTENDS Naturals, FiniteSets

CONSTANTS
    Resources,     \* native IGAccelResource objects
    Tiled,         \* those whose layout needs plane tiling bits
    Bases,         \* GGTT addresses a resource may be mapped at
    BootBase,      \* address the firmware surface is scanned from
    NoResource,
    NoBase,        \* address 0: the plane is off
    CacheSize      \* entries of proofs[] (8 in the code)

ASSUME ResourcesAssumption ==
    /\ NoResource \notin Resources
    /\ Tiled \subseteq Resources

ASSUME BasesAssumption ==
    /\ NoBase \notin Bases
    /\ BootBase \notin Bases

ASSUME CacheAssumption == CacheSize \in Nat

VARIABLES
    \* hardware
    surf,          \* SURF register: armed, taken at the next vertical blank
    live,          \* SURFLIVE: what the pipe scans
    dptDisabled,   \* CHICKEN_MISC_2[30]
    foreignTiled,  \* another enabled plane is tiled
    \* native accelerator
    native,        \* resources the accelerator itself holds prepared
    mapping,       \* GGTT mapping of each prepared resource
    \* framebuffer
    pins,          \* driver's outstanding pinResource calls per resource
    front, pending,
    proofs, optimizeScanout,
    flip,          \* ReimsFlip::State: submitted, latched and completed
    base,          \*   its base,
    newFrame,      \*   wraps > armWrap,
    unseen,        \*   and the frame counter moved past lastFrame
    ready, changedDPT, savedDPT,
    \* control
    pc,            \* the flip under the state lock
    detach,        \* the stop call
    frames,        \* line wraps stop has seen
    crossed        \* history: a vertical blank passed since arm

hwVars == <<surf, live, dptDisabled, foreignTiled>>
pinVars == <<native, mapping, pins>>
flipVars == <<flip, base, newFrame, unseen, crossed>>
ownVars == <<front, pending, proofs, optimizeScanout>>
dptVars == <<changedDPT, savedDPT>>
ctlVars == <<ready, pc, detach, frames>>
vars == <<hwVars, pinVars, flipVars, ownVars, dptVars, ctlVars>>

Unmapped == [base |-> NoBase, sound |-> FALSE]
Empty == [r |-> NoResource, valid |-> FALSE, base |-> NoBase]
Off == [r |-> NoResource, base |-> NoBase]
Entries == 1..CacheSize

----------------------------------------------------------------------------
(* Preparation.  A resource stays mapped while somebody holds it prepared;   *)
(* a fresh preparation may choose another address and other pages.           *)

\* `sound` says that the page table holds the descriptor's pages.
Mappings == [base : Bases, sound : BOOLEAN]

Prepared(r) == r \in native \/ pins[r] > 0

\* The mappings once the holders are native h and driver pins p.
Kept(h, p) ==
    [r \in Resources |-> IF r \in h \/ p[r] > 0 THEN mapping[r] ELSE Unmapped]

\* Pins after unpinning resource r once; unpinning nothing is a no-op.
Unpinned(p, r) == [q \in Resources |-> IF q = r THEN p[q] - 1 ELSE p[q]]
Pinned(p, r) == [q \in Resources |-> IF q = r THEN p[q] + 1 ELSE p[q]]

\* A cache entry keeps its mapping epoch by a prepare of its own.
CachePinned(p, r) == Pinned(p, r)

\* Pins held by the entries es of the proof cache.
CachePins(es, r) == Cardinality({e \in es : proofs[e].r = r})

NativePrepare(r) ==
    /\ r \notin native
    /\ native' = native \cup {r}
    /\ IF Prepared(r)
       THEN UNCHANGED mapping
       ELSE \E m \in Mappings :
               /\ \A q \in Resources : mapping[q].base # m.base
               /\ mapping' = [mapping EXCEPT ![r] = m]
    /\ UNCHANGED <<pins, hwVars, flipVars, ownVars, dptVars, ctlVars>>

NativeComplete(r) ==
    /\ r \in native
    /\ native' = native \ {r}
    /\ mapping' = Kept(native', pins)
    /\ UNCHANGED <<pins, hwVars, flipVars, ownVars, dptVars, ctlVars>>

\* The pipe takes the armed registers.
VerticalBlank ==
    /\ live' = surf
    /\ unseen' = TRUE
    /\ crossed' = TRUE
    /\ frames' = IF detach = "wait" /\ frames < 2 THEN frames + 1 ELSE frames
    /\ UNCHANGED <<surf, dptDisabled, foreignTiled, pinVars, ownVars, dptVars,
                   flip, base, newFrame, ready, pc, detach>>

----------------------------------------------------------------------------
(* The proof cache.  A lookup for r yields the entry to use (0: none), the   *)
(* entries and the pins.                                                    *)

\* The scan stops at r's entry or at the first empty one.
Candidates(r) == {e \in Entries : proofs[e].r \in {r, NoResource}}
Firsts(r) == {e \in Candidates(r) : \A f \in Candidates(r) : e <= f}

\* Otherwise an entry that is neither on screen nor armed; age chooses among
\* them in the code, any of them here.
Victims == {e \in Entries : proofs[e].r \notin {front, pending}}

\* clearProofs.
Cleared(p) == [r \in Resources |-> p[r] - CachePins(Entries, r)]

\* Mutant: the evicted resource stays prepared.
MissLeaks(e, p) == {[entry |-> e, fresh |-> TRUE, pins |-> p]}

Miss(e, p) ==
    LET evicted == Unpinned(p, proofs[e].r) IN
    {[entry |-> e, fresh |-> TRUE, pins |-> evicted]}

Lookups(r, p) ==
    IF ~optimizeScanout
    THEN {[entry |-> 0, fresh |-> FALSE, pins |-> Cleared(p)]}
    ELSE IF Candidates(r) # {}
    THEN UNION {IF proofs[e].r = r THEN {[entry |-> e, fresh |-> FALSE, pins |-> p]}
                                   ELSE Miss(e, p) : e \in Firsts(r)}
    ELSE IF Victims = {}
    THEN {[entry |-> 0, fresh |-> FALSE, pins |-> p]}
    ELSE UNION {Miss(e, p) : e \in Victims}

\* proofFor: on a miss the emptied entry takes a pin of its own, which may fail.
ProofFor(r, p) ==
    LET emptied(l) == [proofs EXCEPT ![l.entry] = Empty]
        cleared == IF optimizeScanout THEN proofs ELSE [e \in Entries |-> Empty]
    IN  {[entry |-> l.entry, proofs |-> cleared, pins |-> l.pins] :
            l \in {m \in Lookups(r, p) : ~m.fresh}}
        \cup
        {[entry |-> 0, proofs |-> emptied(l), pins |-> l.pins] :
            l \in {m \in Lookups(r, p) : m.fresh}}
        \cup
        {[entry |-> l.entry,
          proofs |-> [proofs EXCEPT ![l.entry] = [Empty EXCEPT !.r = r]],
          pins |-> CachePinned(l.pins, r)] :
            l \in {m \in Lookups(r, p) : m.fresh}}

\* inspect: an identity that matches a valid proof is trusted; otherwise every
\* page is compared.  m is r's mapping, va the address of the flip record.
ProofHit(c, m, va) ==
    /\ c.entry # 0
    /\ c.proofs[c.entry].valid
    /\ c.proofs[c.entry].base = va
    /\ m.base = va

\* Mutant: the address alone is believed.
InspectAddress(c, m, va) == m.base = va

InspectOK(c, m, va) == m.base = va /\ (ProofHit(c, m, va) \/ m.sound)

\* Any failed inspection breaks the proof epoch.
ProofAfter(c, m, va) ==
    IF c.entry = 0 THEN c.proofs
    ELSE [c.proofs EXCEPT ![c.entry] =
            IF InspectOK(c, m, va) THEN [@ EXCEPT !.valid = TRUE, !.base = va]
                                   ELSE [@ EXCEPT !.valid = FALSE]]

----------------------------------------------------------------------------
(* Observing the pipe and arming it.                                        *)

\* Mutant: a latched update that itcm has not retired is forgotten.
PendingUntilLatch == flip = "armed"

Pending == flip \in {"armed", "latched"}

\* Mutant: any vertical blank counts as this update's.
LatchesAnything(seen) == flip = "armed" /\ seen

\* observe: after observeScanout has counted the frames.
Latches(seen) == flip = "armed" /\ seen /\ live.base = base

observeScanout ==
    LET seen == newFrame \/ unseen IN
    /\ newFrame' = seen
    /\ unseen' = FALSE
    /\ flip' = IF Latches(seen) THEN "latched" ELSE flip

\* observeScanout, then State::arm: the frames so far do not count.
Arm(r, va) ==
    /\ unseen' = FALSE
    /\ flip' = "armed"
    /\ base' = va
    /\ newFrame' = FALSE
    /\ crossed' = FALSE
    /\ pending' = r

\* Mutant: the setting is not read back.
RouteUnverified(r, ok) ==
    IF r \notin Tiled \/ dptDisabled
    THEN ok /\ UNCHANGED <<dptDisabled, dptVars>>
    ELSE IF foreignTiled
    THEN ~ok /\ UNCHANGED <<dptDisabled, dptVars>>
    ELSE /\ savedDPT' = dptDisabled
         /\ changedDPT' = TRUE
         /\ ok
         /\ dptDisabled' \in BOOLEAN

\* The DPT block of armPrimary: `ok` when the surface may be armed.
RouteTiled(r, ok) ==
    IF r \notin Tiled \/ dptDisabled
    THEN ok /\ UNCHANGED <<dptDisabled, dptVars>>
    ELSE IF foreignTiled
    THEN ~ok /\ UNCHANGED <<dptDisabled, dptVars>>
    ELSE /\ savedDPT' = dptDisabled
         /\ changedDPT' = TRUE
         /\ dptDisabled' = ok      \* the write may not take

\* Native calls end before stop begins: the pipe that borrows the framebuffer
\* is told of its termination first.
Attached == detach = "running"

\* The lock is free and a new native call may run.
Callable == pc = "idle" /\ Attached

\* flip with a resource: pin, proof, inspection, then armPrimary.
flipSurface(r, va) ==
    /\ Callable
    /\ ~Pending
    /\ Prepared(r)
    /\ \E c \in ProofFor(r, Pinned(pins, r)) :
          LET m == mapping[r]
              fail == Unpinned(c.pins, r)
          IN  /\ proofs' = ProofAfter(c, m, va)
              /\ \/ /\ ~InspectOK(c, m, va)
                    /\ pins' = fail
                    /\ UNCHANGED <<dptDisabled, dptVars, flipVars, pending, pc>>
                 \/ /\ InspectOK(c, m, va)
                    /\ RouteTiled(r, FALSE)
                    /\ pins' = fail
                    /\ UNCHANGED <<flipVars, pending, pc>>
                 \/ /\ InspectOK(c, m, va)
                    /\ RouteTiled(r, TRUE)
                    /\ pins' = c.pins
                    /\ Arm(r, va)
                    /\ pc' = "write"
              /\ mapping' = Kept(native, pins')
    /\ UNCHANGED <<surf, live, foreignTiled, native, front, optimizeScanout,
                   ready, detach, frames>>

\* flip with neither resource nor surface: the plane is to be turned off.
flipDisable ==
    /\ Callable
    /\ ~Pending
    /\ Arm(NoResource, NoBase)
    /\ pc' = "write"
    /\ UNCHANGED <<hwVars, pinVars, front, proofs, optimizeScanout, dptVars,
                   ready, detach, frames>>

\* Mutant: turning the plane off writes CTL alone.
WriteControl ==
    /\ pc = "write"
    /\ surf' = IF pending = NoResource THEN surf ELSE [r |-> pending, base |-> base]
    /\ pc' = "idle"
    /\ UNCHANGED <<live, dptDisabled, foreignTiled, pinVars, flipVars, ownVars,
                   dptVars, ready, detach, frames>>

\* CTL takes effect with SURF, so the two writes of armPrimary are one step.
WritePlane ==
    /\ pc = "write"
    /\ surf' = [r |-> pending, base |-> base]
    /\ pc' = "idle"
    /\ UNCHANGED <<live, dptDisabled, foreignTiled, pinVars, flipVars, ownVars,
                   dptVars, ready, detach, frames>>

\* itcm: observeScanout, then finishFlip.
itcm ==
    LET seen == newFrame \/ unseen
        finish == flip = "latched" \/ Latches(seen)
    IN  /\ Callable
        /\ newFrame' = seen
        /\ unseen' = FALSE
        /\ IF finish
           THEN /\ flip' = "completed"
                /\ pins' = Unpinned(pins, front)
                /\ mapping' = Kept(native, pins')
                /\ front' = pending
                /\ pending' = NoResource
           ELSE UNCHANGED <<flip, pins, mapping, front, pending>>
        /\ UNCHANGED <<hwVars, native, base, crossed, proofs, optimizeScanout,
                       dptVars, ctlVars>>

\* The part of tick under the state lock that concerns the plane.
tick ==
    /\ pc = "idle"
    /\ ready
    /\ observeScanout
    /\ UNCHANGED <<hwVars, pinVars, base, crossed, ownVars, dptVars, ctlVars>>

\* setProperties with StartFlipProfile and OptimizeScanout.
setOptimize(b) ==
    /\ pc = "idle"
    /\ optimizeScanout' = b
    /\ UNCHANGED <<hwVars, pinVars, flipVars, front, pending, proofs, dptVars,
                   ctlVars>>

----------------------------------------------------------------------------
(* stop.  Only its first step holds the state lock.                         *)

Detached(from, to) == detach = from /\ detach' = to

stopBegin ==
    /\ pc = "idle"
    /\ Detached("running", "disable")
    /\ ready' = FALSE
    /\ UNCHANGED <<hwVars, pinVars, flipVars, ownVars, dptVars, pc, frames>>

stopDisable ==
    /\ Detached("disable", IF front = NoResource /\ pending = NoResource
                           THEN "clear" ELSE "wait")
    /\ surf' = IF detach' = "wait" THEN Off ELSE surf
    /\ UNCHANGED <<live, dptDisabled, foreignTiled, pinVars, flipVars, ownVars,
                   dptVars, ready, pc, frames>>

\* Two frames passed and nothing is scanned: the pins and the DPT setting go.
stopRelease ==
    /\ Detached("wait", "clear")
    /\ frames = 2
    /\ live.base = NoBase
    /\ pins' = Unpinned(Unpinned(pins, front), pending)
    /\ mapping' = Kept(native, pins')
    /\ front' = NoResource
    /\ pending' = NoResource
    /\ dptDisabled' = IF changedDPT THEN savedDPT ELSE dptDisabled
    /\ changedDPT' = FALSE
    /\ UNCHANGED <<surf, live, foreignTiled, native, flipVars, proofs,
                   optimizeScanout, savedDPT, ready, pc, frames>>

\* The hundred samples ran out: the pins stay.
stopTimeout ==
    /\ Detached("wait", "clear")
    /\ UNCHANGED <<hwVars, pinVars, flipVars, ownVars, dptVars, ready, pc, frames>>

stopClear ==
    /\ Detached("clear", "stopped")
    /\ proofs' = [e \in Entries |-> Empty]
    /\ pins' = Cleared(pins)
    /\ mapping' = Kept(native, pins')
    /\ UNCHANGED <<hwVars, native, flipVars, front, pending, optimizeScanout,
                   dptVars, ready, pc, frames>>

----------------------------------------------------------------------------
Init ==
    /\ surf = [r |-> NoResource, base |-> BootBase]
    /\ live = surf
    /\ dptDisabled \in BOOLEAN
    /\ foreignTiled \in BOOLEAN
    /\ native = {}
    /\ mapping = [r \in Resources |-> Unmapped]
    /\ pins = [r \in Resources |-> 0]
    /\ front = NoResource
    /\ pending = NoResource
    /\ proofs = [e \in Entries |-> Empty]
    /\ optimizeScanout = TRUE
    /\ flip = "none"
    /\ base = NoBase
    /\ newFrame = FALSE
    /\ unseen = FALSE
    /\ ready = TRUE
    /\ changedDPT = FALSE
    /\ savedDPT = FALSE
    /\ pc = "idle"
    /\ detach = "running"
    /\ frames = 0
    /\ crossed = FALSE

NativeStep == \E r \in Resources : NativePrepare(r) \/ NativeComplete(r)
FlipStep ==
    \/ \E r \in Resources, va \in Bases : flipSurface(r, va)
    \/ flipDisable
    \/ WritePlane
    \/ itcm
    \/ tick
    \/ \E b \in BOOLEAN : setOptimize(b)
StopStep == stopBegin \/ stopDisable \/ stopRelease \/ stopTimeout \/ stopClear

Next == NativeStep \/ VerticalBlank \/ FlipStep \/ StopStep

Spec == Init /\ [][Next]_vars

\* The pipe keeps running, a flip that holds the lock goes on, and the native
\* queue polls itcm at each of the vertical blanks it is told of.
FairSpec == Spec /\ WF_vars(VerticalBlank) /\ WF_vars(WritePlane) /\ WF_vars(itcm)
=============================================================================
