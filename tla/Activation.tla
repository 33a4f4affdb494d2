----------------------------- MODULE Activation -----------------------------
(***************************************************************************)
(* Bringing the GPU up: runs of igpu-start (session.py), the dormant gate  *)
(* they call (gate.cpp) and the display link the gate drives               *)
(* (ReimsADLDesktopLink.cpp).  A run reads the registry, calls the gate    *)
(* through the control tool, and waits with a deadline.  A run that dies   *)
(* leaves its call in the kernel, where it still completes, while the next *)
(* run may already have begun.                                             *)
(***************************************************************************)
EXTENDS Naturals, FiniteSets

CONSTANTS
  Runs,      \* executions of igpu-start in one boot, each made once
  MaxResets  \* bound on the resets of the GT

ASSUME ActivationAssumption == IsFiniteSet(Runs) /\ MaxResets \in Nat

VARIABLES
  fb,     \* the framebuffer below GFX0: "firmware", "none" or "native"
  accel,  \* IntelAccelerator: "absent", "failed", "starting", "hidden",
          \* "publishing" (registerService called) or "published"
  probe,  \* the match probe of the self-test is in the registry
  rules,  \* personalities added to the catalogue
  gate,   \* the gate's latches and its DisplayPreparationReady property
  kext,   \* the DesktopLink kext is loaded
  link,   \* the link object: its properties and its route
  rcs,    \* render engine: PSMI bits, a reset in progress, the value it saved
  call,   \* call[r]: where the call of run r to the gate is
  run,    \* run[r]: where the run is
  video,  \* VideoDiscovery: "none", "loaded" or "published"
  resets

vars == <<fb, accel, probe, rules, gate, kext, link, rcs, call, run, video, resets>>
kernel == <<fb, accel, probe, rules, gate, link>>

Ops == {"SelfTest", "PrepareRuntime", "PrepareDisplay", "CommitDisplay"}
Parked == {"idle", "queued", "returned"}
InRoute == {"create", "attach", "control"}
Over == {"done", "failed", "dead"}

NoCall == [op |-> "none", pc |-> "idle", ok |-> FALSE]

Init ==
  /\ fb = "firmware" /\ accel = "absent" /\ probe = FALSE /\ rules = {}
  /\ gate = [selfTest |-> FALSE, requested |-> FALSE, ready |-> FALSE, committed |-> FALSE]
  /\ kext = FALSE
  /\ link = [exists |-> FALSE, shown |-> FALSE, registered |-> FALSE, linked |-> FALSE]
  /\ rcs \in [psmi : BOOLEAN, resetting : {FALSE}, saved : {FALSE}]
  /\ call = [r \in Runs |-> NoCall]
  /\ run = [r \in Runs |-> "new"]
  /\ video = "none" /\ resets = 0
-----------------------------------------------------------------------------
(* What the registry shows.                                                 *)

Present == accel \in {"starting", "hidden", "publishing", "published"}
LinkReady == link.shown /\ link.registered
HiddenReady == accel = "hidden"  \* unregistered, and the PCI nub is not busy

RuntimeState ==
  CASE ~Present /\ fb = "firmware" -> "cold"
    [] accel = "published" /\ fb = "native" /\ LinkReady -> "published"
    [] HiddenReady /\ fb = "firmware" /\ LinkReady -> "prepared"
    [] OTHER -> "unsupported"
-----------------------------------------------------------------------------
(* The gate.  Its lock is held from the guard of a call to its return.      *)

GateFree == \A r \in Runs : call[r].pc \in Parked

At(r, op, pc) == call[r].op = op /\ call[r].pc = pc
Enter(r, op) == At(r, op, "queued") /\ GateFree
Goto(r, pc) == call' = [call EXCEPT ![r].pc = pc]
Return(r, ok) == call' = [call EXCEPT ![r].pc = "returned", ![r].ok = ok]
Refuse(r) == Return(r, FALSE) /\ UNCHANGED kernel

\* addProfiles may fail: the latch is then taken back.
SelfTest(r) ==
  /\ Enter(r, "SelfTest")
  /\ \/ gate.selfTest /\ Refuse(r)
     \/ /\ ~gate.selfTest
        /\ \E ok \in BOOLEAN :
             /\ gate' = [gate EXCEPT !.selfTest = ok]
             /\ rules' = IF ok THEN rules \cup {"selftest"} ELSE rules
             /\ Return(r, ok)
        /\ UNCHANGED <<fb, accel, probe, link>>

\* Here the latch stays, also when an error is returned: matching may have
\* begun.
PrepareRuntime(r) ==
  /\ Enter(r, "PrepareRuntime")
  /\ \/ (~probe \/ gate.requested \/ Present) /\ Refuse(r)
     \/ /\ probe /\ ~gate.requested /\ ~Present
        /\ gate' = [gate EXCEPT !.requested = TRUE]
        /\ \E ok, began \in BOOLEAN :
             /\ ok => began
             /\ rules' = IF began THEN rules \cup {"runtime"} ELSE rules
             /\ Return(r, ok)
        /\ UNCHANGED <<fb, accel, probe, link>>

\* The first PrepareDisplay creates the link and keeps it, whatever follows.
PrepareLink(r) ==
  /\ Enter(r, "PrepareDisplay")
  /\ \/ (~gate.requested \/ gate.committed \/ ~HiddenReady) /\ Refuse(r)
     \/ ~link.exists /\ Refuse(r)
     \/ /\ gate.requested /\ ~gate.committed /\ HiddenReady
        /\ link.exists \/ kext
        /\ link' = [link EXCEPT !.exists = TRUE]
        /\ Goto(r, "inspect")
        /\ UNCHANGED <<fb, accel, probe, rules, gate>>

\* inspectRCS sets rcsWorkaroundLive, which nobody reads before the next one;
\* the property follows unless memory is short, which fails the request and
\* may leave the property as it was.
Inspected(live, shown) ==
  shown \in {live, link.shown} /\ link' = [link EXCEPT !.shown = shown]

\* PrepareRCSADLP: only on an engine that never ran is the PSMI register added
\* to the native reset list, and then its bits are set.
PrepareRCS(r) ==
  /\ At(r, "PrepareDisplay", "inspect")
  /\ \E listed, set, readable, saved, shown \in BOOLEAN :
       LET live == set /\ readable IN
       /\ set => listed
       /\ listed => ~rcs.resetting
       /\ saved => shown = live
       /\ shown \in {live, link.shown}
       /\ link' = [link EXCEPT !.registered = @ \/ listed, !.shown = shown]
       /\ rcs' = [rcs EXCEPT !.psmi = @ \/ set]
       /\ call' = [call EXCEPT ![r].pc = "confirm", ![r].ok = live /\ saved]
  /\ UNCHANGED <<fb, accel, probe, rules, gate>>

ConfirmPrepared(r) ==
  /\ At(r, "PrepareDisplay", "confirm")
  /\ LET ok == call[r].ok /\ link.shown IN
       gate' = [gate EXCEPT !.ready = ok] /\ Return(r, ok)
  /\ UNCHANGED <<fb, accel, probe, rules, link, rcs>>

\* Mutant: a commit that was made does not refuse the next one.
CommitGuardAgain == link.exists /\ gate.ready /\ accel # "published"

CommitGuard == link.exists /\ ~gate.committed /\ gate.ready /\ accel # "published"

\* Mutant: the accelerator is registered first.
CommitDisplayEarly(r) ==
  /\ Enter(r, "CommitDisplay")
  /\ \/ ~CommitGuard /\ Refuse(r)
     \/ /\ CommitGuard /\ Goto(r, "route") /\ accel' = "publishing"
        /\ UNCHANGED <<fb, probe, rules, gate, link>>

CommitDisplay(r) ==
  /\ Enter(r, "CommitDisplay")
  /\ \/ ~CommitGuard /\ Refuse(r)
     \/ CommitGuard /\ Goto(r, "route") /\ UNCHANGED kernel

\* inspectRCS(false), if the registers can be read now.
SeenLive(readable) == readable /\ rcs.psmi /\ ~rcs.resetting

\* route(false), at the end of a route that failed or is not live any more.
Unroute == link' = [link EXCEPT !.shown = FALSE, !.linked = FALSE]

\* route(), which never relies on an earlier observation.
Route(r) ==
  /\ At(r, "CommitDisplay", "route")
  /\ \E readable, shown \in BOOLEAN :
       LET live == SeenLive(readable) IN
       \/ /\ Inspected(live, shown)
          /\ IF live /\ link.linked THEN Goto(r, "check")
             ELSE IF live /\ fb = "firmware" THEN Goto(r, "create")
             ELSE Return(r, FALSE)
       \/ ~live /\ link.linked /\ Unroute /\ Return(r, FALSE)
  /\ UNCHANGED <<fb, accel, probe, rules, gate, rcs>>

\* ReimsIntelFramebufferCreate: everything that can refuse the handoff does so
\* before the boot framebuffer is terminated ...
RetireBoot(r) ==
  /\ At(r, "CommitDisplay", "create")
  /\ \/ Unroute /\ Return(r, FALSE) /\ UNCHANGED fb
     \/ fb' = "none" /\ Goto(r, "attach") /\ UNCHANGED link
  /\ UNCHANGED <<accel, probe, rules, gate, rcs>>

\* ... but attach and start of the replacement come after it.
AttachNative(r) ==
  /\ At(r, "CommitDisplay", "attach")
  /\ \/ Unroute /\ Return(r, FALSE) /\ UNCHANGED fb
     \/ fb' = "native" /\ Goto(r, "control") /\ UNCHANGED link
  /\ UNCHANGED <<accel, probe, rules, gate, rcs>>

CreateControl(r) ==
  /\ At(r, "CommitDisplay", "control")
  /\ \/ Unroute /\ Return(r, FALSE)
     \/ link' = [link EXCEPT !.linked = TRUE] /\ Goto(r, "check")
  /\ UNCHANGED <<fb, accel, probe, rules, gate, rcs>>

\* Back in the gate: publication is last.
Publish(r) ==
  /\ At(r, "CommitDisplay", "check")
  /\ \/ /\ fb = "native" /\ link.linked /\ link.shown
        /\ gate' = [gate EXCEPT !.committed = TRUE]
        /\ accel' = "publishing"
        /\ Return(r, TRUE)
     \/ ~(fb = "native" /\ link.linked /\ link.shown) /\ Refuse(r)
  /\ UNCHANGED <<fb, probe, rules, link, rcs>>

GateStep(r) ==
  /\ \/ (SelfTest(r) \/ PrepareRuntime(r) \/ PrepareLink(r) \/ CommitDisplay(r))
          /\ UNCHANGED rcs
     \/ PrepareRCS(r) \/ ConfirmPrepared(r) \/ Route(r) \/ RetireBoot(r)
     \/ AttachNative(r) \/ CreateControl(r) \/ Publish(r)
  /\ UNCHANGED <<kext, run, video, resets>>

\* A manual call, or the stop of the gate: active drivers stay.
RemoveRules ==
  /\ GateFree /\ rules # {} /\ rules' = {}
  /\ UNCHANGED <<fb, accel, probe, gate, kext, link, rcs, call, run, video, resets>>

\* The collector's worker asks the link for CaptureRCS every time it looks;
\* the link lock keeps it out of a route.
CaptureRCS ==
  /\ link.exists /\ \A r \in Runs : call[r].pc \notin InRoute
  /\ \E readable, shown \in BOOLEAN : Inspected(SeenLive(readable), shown)
  /\ UNCHANGED <<fb, accel, probe, rules, gate, kext, rcs, call, run, video, resets>>
-----------------------------------------------------------------------------
(* IOKit and the GPU (external): matching follows the catalogue, the native *)
(* driver initialises without registering, a registered driver is           *)
(* published, a reset restores the registers of the reset list.             *)

Match ==
  /\ \/ "selftest" \in rules /\ ~probe /\ probe' = TRUE /\ UNCHANGED accel
     \/ "runtime" \in rules /\ accel = "absent" /\ accel' = "starting" /\ UNCHANGED probe
     \/ accel = "starting" /\ accel' \in {"hidden", "failed"} /\ UNCHANGED probe
     \/ accel = "publishing" /\ accel' = "published" /\ UNCHANGED probe
  /\ UNCHANGED <<fb, rules, gate, kext, link, rcs, call, run, video, resets>>

StartPublisher ==
  /\ video = "loaded" /\ accel = "published" /\ video' = "published"
  /\ UNCHANGED <<kernel, kext, rcs, call, run, resets>>

\* Mutant: the entry is added and the count of the vector left at 32.
RestoredUncounted == FALSE

\* What the native reset saves of the PSMI register, to write it back.
Restored == link.registered /\ rcs.psmi

Reset ==
  /\ \/ /\ accel \in {"hidden", "publishing", "published"} /\ ~rcs.resetting /\ resets < MaxResets
        /\ rcs' = [rcs EXCEPT !.resetting = TRUE, !.saved = Restored]
        /\ resets' = resets + 1
     \/ /\ rcs.resetting
        /\ rcs' = [psmi |-> rcs.saved, resetting |-> FALSE, saved |-> FALSE]
        /\ UNCHANGED resets
  /\ UNCHANGED <<kernel, kext, call, run, video>>
-----------------------------------------------------------------------------
(* A run of igpu-start.                                                     *)

Active(r) == run[r] \notin Over \cup {"new"}
Become(r, pc) == run' = [run EXCEPT ![r] = pc] /\ UNCHANGED call
Fail(r) == Become(r, "failed")

\* action(): the control tool is started and the run waits for it.
Ask(r, op) ==
  /\ call' = [call EXCEPT ![r] = [NoCall EXCEPT !.op = op, !.pc = "queued"]]
  /\ run' = [run EXCEPT ![r] = "asked"]

\* One run at a time holds the lock file.
Begin(r) ==
  /\ run[r] = "new" /\ \A q \in Runs : ~Active(q)
  /\ Become(r, "preflight") /\ UNCHANGED kext

\* Receipts, identities and the approval of the link's kext may all fail.
Preflight(r) ==
  /\ run[r] = "preflight"
  /\ \/ Fail(r) /\ UNCHANGED kext
     \/ (kext \/ RuntimeState = "cold") /\ kext' = TRUE /\ Become(r, "detect")

\* activate(): what is asked first depends on one snapshot.
Detect(r) ==
  /\ run[r] = "detect"
  /\ \/ RuntimeState = "cold" /\ (IF probe THEN Become(r, "await_probe") ELSE Ask(r, "SelfTest"))
     \/ RuntimeState = "prepared" /\ Ask(r, "CommitDisplay")
     \/ RuntimeState = "published" /\ Become(r, "video")
     \/ RuntimeState = "unsupported" /\ Fail(r)
  /\ UNCHANGED kext

Following == [SelfTest |-> "await_probe", PrepareRuntime |-> "await_hidden",
              PrepareDisplay |-> "recheck", CommitDisplay |-> "await_published"]

\* The tool has ended, in time or killed after the timeout: either way the run
\* has waited for its call to leave the kernel.
Answer(r) ==
  /\ run[r] = "asked" /\ call[r].pc = "returned"
  /\ \/ call[r].ok /\ run' = [run EXCEPT ![r] = Following[call[r].op]]
     \/ run' = [run EXCEPT ![r] = "failed"]
  /\ UNCHANGED <<call, kext>>

\* The polling loops: the deadline may pass at any look that finds nothing.
AwaitProbe(r) ==
  /\ run[r] = "await_probe"
  /\ IF probe THEN Ask(r, "PrepareRuntime") ELSE Fail(r)
  /\ UNCHANGED kext

\* Mutant: no deadline.
AwaitHiddenForever(r) ==
  /\ run[r] = "await_hidden"
  /\ IF HiddenReady /\ fb = "firmware" THEN Ask(r, "PrepareDisplay")
     ELSE Become(r, "await_hidden")
  /\ UNCHANGED kext

AwaitHidden(r) ==
  /\ run[r] = "await_hidden"
  /\ IF HiddenReady /\ fb = "firmware" THEN Ask(r, "PrepareDisplay") ELSE Fail(r)
  /\ UNCHANGED kext

Recheck(r) ==
  /\ run[r] = "recheck"
  /\ IF RuntimeState = "prepared" THEN Ask(r, "CommitDisplay") ELSE Fail(r)
  /\ UNCHANGED kext

AwaitPublished(r) ==
  /\ run[r] = "await_published"
  /\ IF RuntimeState = "published" THEN Become(r, "video") ELSE Fail(r)
  /\ UNCHANGED kext

SessionStep(r) ==
  /\ Begin(r) \/ Preflight(r) \/ Detect(r) \/ Answer(r) \/ AwaitProbe(r)
       \/ AwaitHidden(r) \/ Recheck(r) \/ AwaitPublished(r)
  /\ UNCHANGED <<kernel, rcs, video, resets>>

\* ensure_video(): the publisher is only loaded on a published accelerator.
EnsureVideo(r) ==
  /\ run[r] = "video"
  /\ \/ accel = "published" /\ video = "published" /\ Become(r, "done") /\ UNCHANGED video
     \/ /\ accel = "published" /\ video # "published"
        /\ video' = "loaded" /\ Become(r, "await_video")
     \/ ~(accel = "published" /\ video = "published") /\ Fail(r) /\ UNCHANGED video
  /\ UNCHANGED <<kernel, kext, rcs, resets>>

\* Mutant: a publisher that is loaded is taken for a published one.
AwaitVideoLoaded(r) ==
  /\ run[r] = "await_video" /\ Become(r, "done")
  /\ UNCHANGED <<kernel, kext, rcs, video, resets>>

AwaitVideo(r) ==
  /\ run[r] = "await_video"
  /\ IF video = "published" THEN Become(r, "done") ELSE Fail(r)
  /\ UNCHANGED <<kernel, kext, rcs, video, resets>>

\* The run is killed; its control tool stays in the kernel.
Crash(r) ==
  /\ Active(r) /\ Become(r, "dead")
  /\ UNCHANGED <<kernel, kext, rcs, video, resets>>

RunStep(r) == SessionStep(r) \/ EnsureVideo(r) \/ AwaitVideo(r)

Next ==
  \/ \E r \in Runs : RunStep(r) \/ GateStep(r) \/ Crash(r)
  \/ RemoveRules \/ CaptureRCS \/ Match \/ StartPublisher \/ Reset

Spec == Init /\ [][Next]_vars

\* A live run goes on, and what was asked of the gate is answered.  Nothing
\* obliges IOKit to match, the native driver to come up or a user to try again.
Fairness ==
  \A r \in Runs : WF_vars(Active(r) /\ RunStep(r)) /\ WF_vars(GateStep(r))

FairSpec == Spec /\ Fairness
-----------------------------------------------------------------------------
\* Types, and a run that waits for an answer has a call that gives it one.
TypeOK ==
  /\ fb \in {"firmware", "none", "native"}
  /\ accel \in {"absent", "failed", "starting", "hidden", "publishing", "published"}
  /\ probe \in BOOLEAN /\ rules \subseteq {"selftest", "runtime"} /\ kext \in BOOLEAN
  /\ gate \in [selfTest : BOOLEAN, requested : BOOLEAN, ready : BOOLEAN, committed : BOOLEAN]
  /\ link \in [exists : BOOLEAN, shown : BOOLEAN, registered : BOOLEAN, linked : BOOLEAN]
  /\ rcs \in [psmi : BOOLEAN, resetting : BOOLEAN, saved : BOOLEAN]
  /\ call \in [Runs -> [op : Ops \cup {"none"}, ok : BOOLEAN,
                        pc : Parked \cup InRoute \cup {"inspect", "confirm", "route", "check"}]]
  /\ run \in [Runs -> Over \cup {"new", "preflight", "detect", "asked", "await_probe",
       "await_hidden", "recheck", "await_published", "video", "await_video"}]
  /\ \A r \in Runs : run[r] = "asked" => call[r].pc # "idle"
  /\ video \in {"none", "loaded", "published"} /\ resets \in 0 .. MaxResets

\* The framebuffer the firmware left is only given up with the workaround in
\* force, and a GT reset cannot take it away again: the register is in the
\* native reset list before the handoff (ReimsADLDesktopLink.cpp:488-494).
WorkaroundHeld ==
  fb # "firmware" =>
    /\ link.registered
    /\ IF rcs.resetting THEN rcs.saved ELSE rcs.psmi

\* gate.cpp:132 - publication is last: clients only ever match an accelerator
\* that scans out through the native framebuffer and the linked route, and the
\* firmware framebuffer stays until the accelerator has come up hidden.
HandoffOrder ==
  /\ accel \in {"publishing", "published"} => fb = "native" /\ link.linked
  /\ fb # "firmware" => accel \in {"hidden", "publishing", "published"}

\* Of all the commits asked for, those of dead runs included, one succeeds.
CommitsOnce ==
  [][\A r \in Runs :
       call[r].op = "CommitDisplay" /\ call[r].pc # "returned"
         /\ call'[r].pc = "returned" /\ call'[r].ok => ~gate.committed]_vars

\* docs/DEPLOY-SAME-HARDWARE.md:138 - what was published is never prepared or
\* committed again, whatever is still queued at the gate.
PublishedIsFinal ==
  [][accel = "published" =>
       /\ UNCHANGED <<fb, accel, gate>>
       /\ link'.linked = link.linked]_vars

\* A run that reports success leaves a published accelerator with its display
\* and its video properties.
DoneMeansReady ==
  (\E r \in Runs : run[r] = "done") =>
     accel = "published" /\ fb = "native" /\ video = "published"

\* Every run ends, whatever the kernel refuses and whoever else holds the gate.
RunEnds == \A r \in Runs : Active(r) ~> run[r] \in Over

\* docs/DEPLOY-SAME-HARDWARE.md:138 - the entry completes the stages that are
\* not finished, by the state in the registry: a run never stops at its first
\* look while the gate would still accept the display preparation.
StagesResumed ==
  [][\A r \in Runs :
       run[r] = "detect" /\ run'[r] = "failed" =>
         ~(gate.requested /\ ~gate.committed /\ HiddenReady /\ fb = "firmware"
             /\ GateFree)]_vars
=============================================================================
