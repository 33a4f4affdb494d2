-------------------------- MODULE Activation_proofs --------------------------
(* Theorems about bringing the GPU up, for any set of runs, of which any may *)
(* die with its call in the kernel, and any number of GT resets.            *)
EXTENDS Activation, TLAPS

USE DEF vars, kernel

InPrepare == {"inspect", "confirm"}
InCommit == {"route", "create", "attach", "control", "check"}
CallPC == Parked \cup InPrepare \cup InCommit
CallType == [op : Ops \cup {"none"}, ok : BOOLEAN, pc : CallPC]
----------------------------------------------------------------------------
(* How a call moves.                                                        *)

\* The call of r goes to pc with ok; no other call moves.
Moves(r, pc, ok) ==
  /\ call' \in [Runs -> CallType]
  /\ call'[r].op = call[r].op /\ call'[r].pc = pc /\ call'[r].ok = ok
  /\ \A q \in Runs : q # r => call'[q] = call[q]

\* A call that goes on inside the gate keeps its operation and its result.
LEMMA GotoMoves ==
  ASSUME call \in [Runs -> CallType], NEW r \in Runs,
         NEW pc \in CallPC, Goto(r, pc)
  PROVE  Moves(r, pc, call[r].ok)
<1> DEFINE c == [call[r] EXCEPT !.pc = pc]
<1>1. call[r] \in CallType
  OBVIOUS
<1>2. c = [op |-> call[r].op, ok |-> call[r].ok, pc |-> pc]
  BY <1>1 DEF CallType
<1>3. c \in CallType /\ c.op = call[r].op /\ c.pc = pc /\ c.ok = call[r].ok
  BY <1>1, <1>2 DEF CallType
<1>4. call' = [call EXCEPT ![r] = c]
  BY DEF Goto
<1>5. QED
  BY <1>3, <1>4 DEF Moves

\* A step that sets place and result of one call moves that call only.
LEMMA UpdateMoves ==
  ASSUME call \in [Runs -> CallType], NEW r \in Runs, NEW pc \in CallPC,
         NEW ok \in BOOLEAN, call' = [call EXCEPT ![r].pc = pc, ![r].ok = ok]
  PROVE  Moves(r, pc, ok)
<1> DEFINE c == [call[r] EXCEPT !.pc = pc]
           d == [c EXCEPT !.ok = ok]
<1>1. call[r] \in CallType
  OBVIOUS
<1>2. c = [op |-> call[r].op, ok |-> call[r].ok, pc |-> pc]
  BY <1>1 DEF CallType
<1>3. c \in CallType /\ c.op = call[r].op /\ c.pc = pc
  BY <1>1, <1>2 DEF CallType
<1>4. d \in CallType /\ d.op = call[r].op /\ d.pc = pc /\ d.ok = ok
  <2> HIDE DEF c
  <2>1. d = [op |-> c.op, ok |-> ok, pc |-> c.pc]
    BY <1>3 DEF CallType
  <2>2. QED
    BY <1>3, <2>1 DEF CallType
<1>5. call' = [call EXCEPT ![r] = d]
  BY <1>1
<1>6. QED
  BY <1>4, <1>5 DEF Moves

\* A call that returns from the gate is the only one that moves.
LEMMA ReturnMoves ==
  ASSUME call \in [Runs -> CallType], NEW r \in Runs, NEW ok \in BOOLEAN,
         Return(r, ok)
  PROVE  Moves(r, "returned", ok)
<1>1. "returned" \in CallPC
  BY DEF CallPC, Parked
<1>2. QED
  BY <1>1, UpdateMoves DEF Return

\* The control tool of r brings a new call to the gate.
Brings(r, op) ==
  /\ call' \in [Runs -> CallType]
  /\ call'[r].op = op /\ call'[r].pc = "queued" /\ call'[r].ok = FALSE
  /\ \A q \in Runs : q # r => call'[q] = call[q]

\* action() puts a fresh call before the gate, whatever the last one was.
LEMMA AskBrings ==
  ASSUME call \in [Runs -> CallType], NEW r \in Runs, NEW op \in Ops, Ask(r, op)
  PROVE  Brings(r, op)
<1> DEFINE b == [NoCall EXCEPT !.op = op]
           c == [b EXCEPT !.pc = "queued"]
<1>0. NoCall \in CallType /\ NoCall.ok = FALSE
  BY DEF NoCall, CallType, CallPC, Parked
<1>1. b \in CallType /\ b.op = op /\ b.ok = FALSE
  <2>1. b = [op |-> op, ok |-> NoCall.ok, pc |-> NoCall.pc]
    BY <1>0 DEF CallType
  <2>2. QED
    BY <1>0, <2>1 DEF CallType
<1>2. c \in CallType /\ c.op = op /\ c.pc = "queued" /\ c.ok = FALSE
  <2> HIDE DEF b
  <2>1. c = [op |-> b.op, ok |-> b.ok, pc |-> "queued"]
    BY <1>1 DEF CallType
  <2>2. QED
    BY <1>1, <2>1 DEF CallType, CallPC, Parked
<1>3. call' = [call EXCEPT ![r] = c]
  BY DEF Ask
<1>4. QED
  BY <1>2, <1>3 DEF Brings
-----------------------------------------------------------------------------
(* The invariant.                                                           *)

GateType == [selfTest : BOOLEAN, requested : BOOLEAN, ready : BOOLEAN, committed : BOOLEAN]
LinkType == [exists : BOOLEAN, shown : BOOLEAN, registered : BOOLEAN, linked : BOOLEAN]
RcsType == [psmi : BOOLEAN, resetting : BOOLEAN, saved : BOOLEAN]
AccelType == {"absent", "failed", "starting", "hidden", "publishing", "published"}

KernelOK ==
  /\ fb \in {"firmware", "none", "native"} /\ accel \in AccelType
  /\ gate \in GateType /\ link \in LinkType /\ rcs \in RcsType
  /\ call \in [Runs -> CallType]

\* The accelerator has come up, which it stays.
Up == accel \in {"hidden", "publishing", "published"}

\* The workaround is in force, or a reset in progress will write it back.
Held == link.registered /\ IF rcs.resetting THEN rcs.saved ELSE rcs.psmi

\* The gate's lock: one call is inside, and it is where its operation goes.
LockInv ==
  /\ \A q, r \in Runs : q # r => call[q].pc \in Parked \/ call[r].pc \in Parked
  /\ \A r \in Runs : /\ call[r].pc \in InPrepare => call[r].op = "PrepareDisplay"
                     /\ call[r].pc \in InCommit => call[r].op = "CommitDisplay"

\* What a preparation has established, and what readiness stands for.
PrepareInv ==
  /\ \A r \in Runs : call[r].pc \in InPrepare => accel = "hidden"
  /\ \A r \in Runs : call[r].pc = "confirm" /\ call[r].ok => link.registered
  /\ gate.ready => Up /\ link.registered

\* A commit begins on a prepared accelerator and is the only one; inside the
\* route the workaround is in force.
CommitInv ==
  /\ \A r \in Runs : call[r].pc \in InCommit =>
       ~gate.committed /\ Up /\ link.registered
  /\ \A r \in Runs : call[r].pc \in InRoute => Held
  /\ accel \in {"publishing", "published"} =>
       gate.committed /\ fb = "native" /\ link.linked
  /\ fb # "firmware" => Up /\ Held

Inv == KernelOK /\ LockInv /\ PrepareInv /\ CommitInv

\* At boot nothing is prepared, committed or given up.
THEOREM InvInit == Init => Inv
<1> SUFFICES ASSUME Init PROVE Inv
  OBVIOUS
<1>1. NoCall \in CallType /\ NoCall.pc = "idle"
  BY DEF NoCall, CallType, CallPC, Parked
<1>2. gate \in GateType /\ link \in LinkType /\ rcs \in RcsType
  BY DEF Init, GateType, LinkType, RcsType
<1>3. ~gate.ready
  BY DEF Init
<1>4. QED
  BY <1>1, <1>2, <1>3 DEF Init, Inv, KernelOK, AccelType, LockInv, PrepareInv, CommitInv,
     Parked, InPrepare, InCommit, InRoute
-----------------------------------------------------------------------------
(* Steps.                                                                   *)

\* What the lock gives to the call that is inside.
LEMMA Alone ==
  ASSUME LockInv, NEW r \in Runs, call[r].pc \notin Parked
  PROVE  \A q \in Runs : q # r => call[q].pc \in Parked
  BY DEF LockInv

\* What a step leaves as it is, as far as the invariant can tell.
Kept ==
  /\ fb' = fb /\ accel' = accel /\ rcs' = rcs
  /\ gate' \in GateType /\ gate'.ready = gate.ready /\ gate'.committed = gate.committed
  /\ link' \in LinkType /\ link'.registered = link.registered /\ link'.linked = link.linked

\* A step that changes no driver keeps what the invariant says of them.
LEMMA UnchangedKept ==
  ASSUME KernelOK, UNCHANGED <<fb, accel, gate, link, rcs>>
  PROVE  Kept
  BY DEF KernelOK, Kept

\* Where a call of r may be.
Allowed(r, pc, ok) ==
  /\ pc \in InPrepare => call[r].op = "PrepareDisplay" /\ accel = "hidden"
  /\ pc = "confirm" /\ ok => link.registered
  /\ pc \in InCommit => /\ call[r].op = "CommitDisplay" /\ ~gate.committed
                        /\ Up /\ link.registered
  /\ pc \in InRoute => Held

\* A call moves and nothing else changes that the invariant speaks of.
LEMMA CallStep ==
  ASSUME Inv, NEW r \in Runs, NEW pc \in CallPC, NEW ok \in BOOLEAN,
         Moves(r, pc, ok), Kept, Allowed(r, pc, ok),
         \A q \in Runs : q # r => call[q].pc \in Parked
  PROVE  Inv'
<1> USE DEF Inv
<1>1. KernelOK'
  BY DEF Moves, Kept, KernelOK
<1>2. LockInv'
  BY DEF Moves, LockInv, Allowed
<1>3. PrepareInv'
  BY DEF Moves, Kept, PrepareInv, Up, Allowed
<1>4. CommitInv'
  BY DEF Moves, Kept, CommitInv, Up, Held, Allowed
<1>5. QED
  BY <1>1, <1>2, <1>3, <1>4

\* A call that returns is allowed to.
LEMMA ReturnStep ==
  ASSUME Inv, NEW r \in Runs, NEW ok \in BOOLEAN, Return(r, ok), Kept,
         \A q \in Runs : q # r => call[q].pc \in Parked
  PROVE  Inv'
<1>1. Moves(r, "returned", ok) /\ "returned" \in CallPC
  BY ReturnMoves DEF Inv, KernelOK, CallPC, Parked
<1>2. Allowed(r, "returned", ok)
  BY DEF Allowed, InPrepare, InCommit, InRoute
<1>3. QED
  BY <1>1, <1>2, CallStep

\* A call that goes on, to where it is allowed, preserves the invariant.
LEMMA GotoStep ==
  ASSUME Inv, NEW r \in Runs, NEW pc \in CallPC \ {"confirm"}, Goto(r, pc), Kept,
         Allowed(r, pc, call[r].ok),
         \A q \in Runs : q # r => call[q].pc \in Parked
  PROVE  Inv'
<1>1. Moves(r, pc, call[r].ok) /\ call[r].ok \in BOOLEAN
  BY GotoMoves DEF Inv, KernelOK, CallType
<1>2. QED
  BY <1>1, CallStep

\* The first step of each operation.
LEMMA EnterStep ==
  ASSUME Inv, NEW r \in Runs, UNCHANGED rcs,
         SelfTest(r) \/ PrepareRuntime(r) \/ PrepareLink(r) \/ CommitDisplay(r)
  PROVE  Inv'
<1>1. KernelOK /\ GateFree
  BY DEF Inv, SelfTest, PrepareRuntime, PrepareLink, CommitDisplay, Enter
<1>2. \A q \in Runs : q # r => call[q].pc \in Parked
  BY <1>1 DEF GateFree
<1>3. CASE Refuse(r)
  BY <1>1, <1>2, <1>3, UnchangedKept, ReturnStep DEF Refuse
<1>4. CASE SelfTest(r) /\ ~Refuse(r)
  <2>1. PICK ok \in BOOLEAN : Return(r, ok) /\ gate' = [gate EXCEPT !.selfTest = ok]
                               /\ UNCHANGED <<fb, accel, link>>
    BY <1>4 DEF SelfTest
  <2>2. Kept
    BY <1>1, <2>1 DEF Kept, KernelOK, GateType
  <2>3. QED
    BY <1>2, <2>1, <2>2, ReturnStep
<1>5. CASE PrepareRuntime(r) /\ ~Refuse(r)
  <2>1. PICK ok \in BOOLEAN : Return(r, ok) /\ gate' = [gate EXCEPT !.requested = TRUE]
                               /\ UNCHANGED <<fb, accel, link>>
    BY <1>5 DEF PrepareRuntime
  <2>2. Kept
    BY <1>1, <2>1 DEF Kept, KernelOK, GateType
  <2>3. QED
    BY <1>2, <2>1, <2>2, ReturnStep
<1>6. CASE PrepareLink(r) /\ ~Refuse(r)
  <2>1. /\ Goto(r, "inspect") /\ link' = [link EXCEPT !.exists = TRUE] /\ accel = "hidden"
        /\ call[r].op = "PrepareDisplay" /\ UNCHANGED <<fb, accel, gate>>
    BY <1>6 DEF PrepareLink, HiddenReady, Enter, At
  <2>2. Kept
    BY <1>1, <2>1 DEF Kept, KernelOK, LinkType
  <2>3. "inspect" \in CallPC \ {"confirm"} /\ Allowed(r, "inspect", call[r].ok)
    BY <2>1 DEF Allowed, InPrepare, InCommit, InRoute, CallPC
  <2>4. QED
    BY <1>2, <2>1, <2>2, <2>3, GotoStep
<1>7. CASE CommitDisplay(r) /\ ~Refuse(r)
  <2>1. Goto(r, "route") /\ CommitGuard /\ call[r].op = "CommitDisplay" /\ UNCHANGED kernel
    BY <1>7 DEF CommitDisplay, Enter, At
  <2>2. Kept
    BY <1>1, <2>1, UnchangedKept
  <2>3. "route" \in CallPC \ {"confirm"} /\ Allowed(r, "route", call[r].ok)
    BY <2>1 DEF CommitGuard, Allowed, InPrepare, InCommit, InRoute, CallPC, Inv, PrepareInv
  <2>4. QED
    BY <1>2, <2>1, <2>2, <2>3, GotoStep
<1>8. QED
  BY <1>3, <1>4, <1>5, <1>6, <1>7

\* The workaround is prepared and read back.
LEMMA PrepareRCSStep ==
  ASSUME Inv, NEW r \in Runs, PrepareRCS(r)
  PROVE  Inv'
<1> USE DEF Inv
<1>1. PICK listed, set, readable, saved, shown \in BOOLEAN :
        /\ set => listed
        /\ listed => ~rcs.resetting
        /\ saved => shown = (set /\ readable)
        /\ shown \in {set /\ readable, link.shown}
        /\ link' = [link EXCEPT !.registered = @ \/ listed, !.shown = shown]
        /\ rcs' = [rcs EXCEPT !.psmi = @ \/ set]
        /\ call' = [call EXCEPT ![r].pc = "confirm", ![r].ok = (set /\ readable) /\ saved]
  BY Zenon DEF PrepareRCS
<1> DEFINE ok == (set /\ readable) /\ saved
<1>2. /\ call[r].op = "PrepareDisplay" /\ call[r].pc = "inspect"
      /\ accel = "hidden" /\ UNCHANGED <<fb, accel, gate>>
  BY DEF PrepareRCS, At, PrepareInv, InPrepare
<1>3. Moves(r, "confirm", ok) /\ ok \in BOOLEAN
  BY <1>1, UpdateMoves DEF KernelOK, CallPC, InPrepare
<1>4. \A q \in Runs : q # r => call[q].pc \in Parked
  BY <1>2, Alone DEF Parked
<1>5. /\ link' \in LinkType /\ link'.linked = link.linked
      /\ link'.registered = (link.registered \/ listed)
  BY <1>1 DEF KernelOK, LinkType
<1>6. /\ rcs' \in RcsType /\ rcs'.psmi = (rcs.psmi \/ set)
      /\ rcs'.resetting = rcs.resetting /\ rcs'.saved = rcs.saved
  BY <1>1 DEF KernelOK, RcsType
<1>7. Held => Held'
  BY <1>5, <1>6 DEF Held
<1>8. KernelOK'
  BY <1>2, <1>3, <1>5, <1>6 DEF Moves, KernelOK
<1>9. LockInv'
  BY <1>2, <1>3, <1>4 DEF Moves, LockInv, InPrepare, InCommit
<1>10. PrepareInv'
  BY <1>1, <1>2, <1>3, <1>4, <1>5 DEF Moves, PrepareInv, Up, Parked, InPrepare
<1>11. CommitInv'
  BY <1>2, <1>3, <1>4, <1>5, <1>7 DEF Moves, CommitInv, Up, Parked, InCommit, InRoute
<1>12. QED
  BY <1>8, <1>9, <1>10, <1>11

\* Readiness is what the preparation has established.
LEMMA ConfirmStep ==
  ASSUME Inv, NEW r \in Runs, ConfirmPrepared(r)
  PROVE  Inv'
<1> USE DEF Inv
<1> DEFINE ok == call[r].ok /\ link.shown
<1>1. /\ call[r].pc = "confirm" /\ Return(r, ok) /\ gate' = [gate EXCEPT !.ready = ok]
      /\ UNCHANGED <<fb, accel, link, rcs>>
  BY DEF ConfirmPrepared, At
<1>2. accel = "hidden" /\ (ok => link.registered) /\ ok \in BOOLEAN
  BY <1>1 DEF PrepareInv, InPrepare, KernelOK, CallType, LinkType
<1>3. Moves(r, "returned", ok)
  BY <1>1, <1>2, ReturnMoves DEF KernelOK
<1>4. gate' \in GateType /\ gate'.ready = ok /\ gate'.committed = gate.committed
  BY <1>1, <1>2 DEF KernelOK, GateType
<1>5. "returned" \in Parked /\ Parked \cap (InPrepare \cup InCommit \cup InRoute) = {}
  BY DEF Parked, InPrepare, InCommit, InRoute
<1> HIDE DEF ok
<1>6. KernelOK'
  BY <1>1, <1>3, <1>4 DEF Moves, KernelOK
<1>7. LockInv'
  BY <1>3, <1>5 DEF Moves, LockInv
<1>8. PrepareInv'
  BY <1>1, <1>2, <1>3, <1>4, <1>5 DEF Moves, PrepareInv, Up, InPrepare
<1>9. CommitInv'
  BY <1>1, <1>3, <1>4, <1>5 DEF Moves, CommitInv, Up, Held
<1>10. QED
  BY <1>6, <1>7, <1>8, <1>9

\* What a call knows that is inside the commit.
LEMMA InsideCommit ==
  ASSUME Inv, NEW r \in Runs, call[r].pc \in InCommit
  PROVE  /\ \A q \in Runs : q # r => call[q].pc \in Parked
         /\ call[r].op = "CommitDisplay" /\ ~gate.committed /\ Up /\ link.registered
         /\ call[r].pc \in InRoute => Held
         /\ accel \notin {"publishing", "published"}
<1>1. call[r].pc \notin Parked
  BY DEF Parked, InCommit
<1>2. QED
  BY <1>1, Alone DEF Inv, LockInv, CommitInv

\* A step of the route: the call goes on or returns, and of the kernel only the
\* framebuffer and the route change.
LEMMA RouteStep ==
  ASSUME Inv, NEW r \in Runs, call[r].pc \in InCommit,
         NEW pc \in InCommit \cup {"returned"}, NEW ok \in BOOLEAN, Moves(r, pc, ok),
         UNCHANGED <<accel, gate, rcs>>,
         fb' \in {"firmware", "none", "native"},
         link' \in LinkType, link'.registered = link.registered,
         pc \in InRoute => Held, fb' # "firmware" => Held
  PROVE  Inv'
<1> USE DEF Inv
<1>1. /\ \A q \in Runs : q # r => call[q].pc \in Parked
      /\ call[r].op = "CommitDisplay" /\ ~gate.committed /\ Up /\ link.registered
      /\ accel \notin {"publishing", "published"}
  BY InsideCommit
<1>2. Held' = Held /\ Up' = Up
  BY DEF Held, Up
<1>3. /\ Parked \cap (InPrepare \cup InCommit \cup InRoute) = {}
      /\ InPrepare \cap (InCommit \cup {"returned"}) = {} /\ InRoute \subseteq InCommit
      /\ "returned" \in Parked /\ "confirm" \in InPrepare
  BY DEF Parked, InPrepare, InCommit, InRoute
<1>4. KernelOK'
  BY DEF Moves, KernelOK
<1>5. LockInv'
  BY <1>1, <1>3 DEF Moves, LockInv
<1>6. PrepareInv'
  BY <1>1, <1>2, <1>3 DEF Moves, PrepareInv
<1>7. CommitInv'
  BY <1>1, <1>2, <1>3 DEF Moves, CommitInv
<1>8. QED
  BY <1>4, <1>5, <1>6, <1>7

\* A route that is taken back returns.
LEMMA UnrouteStep ==
  ASSUME Inv, NEW r \in Runs, call[r].pc \in InCommit, Unroute, Return(r, FALSE),
         UNCHANGED <<fb, accel, gate, rcs>>
  PROVE  Inv'
<1>1. Moves(r, "returned", FALSE)
  BY ReturnMoves DEF Inv, KernelOK
<1>2. link' \in LinkType /\ link'.registered = link.registered
  BY DEF Unroute, Inv, KernelOK, LinkType
<1>3. fb' \in {"firmware", "none", "native"} /\ (fb' # "firmware" => Held)
  BY DEF Inv, KernelOK, CommitInv
<1>4. "returned" \notin InRoute
  BY DEF InRoute
<1>5. QED
  BY <1>1, <1>2, <1>3, <1>4, RouteStep

\* A commit goes on to pc.
LEMMA AdvanceStep ==
  ASSUME Inv, NEW r \in Runs, call[r].pc \in InCommit, NEW pc \in InCommit, Goto(r, pc),
         UNCHANGED <<accel, gate, rcs>>,
         fb' \in {"firmware", "none", "native"},
         link' \in LinkType, link'.registered = link.registered,
         pc \in InRoute => Held, fb' # "firmware" => Held
  PROVE  Inv'
<1>1. pc \in CallPC
  BY DEF CallPC
<1>2. Moves(r, pc, call[r].ok) /\ call[r].ok \in BOOLEAN
  BY <1>1, GotoMoves DEF Inv, KernelOK, CallType
<1>3. QED
  BY <1>2, RouteStep

\* The four steps of route() preserve the invariant, those that fail too.
LEMMA CommitSteps ==
  ASSUME Inv, NEW r \in Runs,
         Route(r) \/ RetireBoot(r) \/ AttachNative(r) \/ CreateControl(r)
  PROVE  Inv'
<1>1. /\ call[r].pc \in InCommit /\ UNCHANGED <<accel, gate, rcs>>
      /\ call[r].pc \in {"create", "attach", "control"} => Held
      /\ link.registered /\ link \in LinkType
      /\ fb \in {"firmware", "none", "native"} /\ (fb # "firmware" => Held)
  <2>1. /\ call[r].pc \in {"route", "create", "attach", "control"}
        /\ UNCHANGED <<accel, gate, rcs>>
    BY DEF Route, RetireBoot, AttachNative, CreateControl, At
  <2>2. QED
    BY <2>1 DEF Inv, KernelOK, CommitInv, InCommit, InRoute
<1>2. CASE Unroute /\ Return(r, FALSE) /\ UNCHANGED fb
  BY <1>1, <1>2, UnrouteStep
<1>3. CASE Route(r) /\ ~(Unroute /\ Return(r, FALSE) /\ UNCHANGED fb)
  <2>1. PICK readable, shown \in BOOLEAN :
          /\ link' = [link EXCEPT !.shown = shown]
          /\ \/ Goto(r, "check")
             \/ SeenLive(readable) /\ Goto(r, "create")
             \/ Return(r, FALSE)
    BY <1>3 DEF Route, Inspected
  <2>2. UNCHANGED fb
    BY <1>3 DEF Route
  <2>3. link' \in LinkType /\ link'.registered = link.registered
    BY <1>1, <2>1 DEF LinkType
  <2>4. CASE Goto(r, "check")
    BY <1>1, <2>2, <2>3, <2>4, AdvanceStep DEF InCommit, InRoute
  <2>5. CASE SeenLive(readable) /\ Goto(r, "create")
    <3>1. Held
      BY <1>1, <2>5 DEF SeenLive, Held
    <3>2. QED
      BY <1>1, <2>2, <2>3, <2>5, <3>1, AdvanceStep DEF InCommit
  <2>6. CASE Return(r, FALSE)
    <3>1. Moves(r, "returned", FALSE)
      BY <2>6, ReturnMoves DEF Inv, KernelOK
    <3>2. "returned" \notin InRoute
      BY DEF InRoute
    <3>3. QED
      BY <1>1, <2>2, <2>3, <3>1, <3>2, RouteStep
  <2>7. QED
    BY <2>1, <2>4, <2>5, <2>6
<1>4. CASE RetireBoot(r) /\ ~(Unroute /\ Return(r, FALSE) /\ UNCHANGED fb)
  <2>1. fb' = "none" /\ Goto(r, "attach") /\ UNCHANGED link /\ call[r].pc = "create"
    BY <1>4 DEF RetireBoot, At
  <2>2. QED
    BY <1>1, <2>1, AdvanceStep DEF InCommit
<1>5. CASE AttachNative(r) /\ ~(Unroute /\ Return(r, FALSE) /\ UNCHANGED fb)
  <2>1. fb' = "native" /\ Goto(r, "control") /\ UNCHANGED link /\ call[r].pc = "attach"
    BY <1>5 DEF AttachNative, At
  <2>2. QED
    BY <1>1, <2>1, AdvanceStep DEF InCommit
<1>6. CASE CreateControl(r) /\ ~(Unroute /\ Return(r, FALSE) /\ UNCHANGED fb)
  <2>1. link' = [link EXCEPT !.linked = TRUE] /\ Goto(r, "check") /\ UNCHANGED fb
    BY <1>6 DEF CreateControl
  <2>2. link' \in LinkType /\ link'.registered = link.registered
    BY <1>1, <2>1 DEF LinkType
  <2>3. QED
    BY <1>1, <2>1, <2>2, AdvanceStep DEF InCommit, InRoute
<1>7. QED
  BY <1>2, <1>3, <1>4, <1>5, <1>6

\* Publication: the commit is over, and only then the accelerator is shown.
LEMMA PublishStep ==
  ASSUME Inv, NEW r \in Runs, Publish(r)
  PROVE  Inv'
<1> USE DEF Inv
<1>1. call[r].pc = "check" /\ call[r].pc \in InCommit
  BY DEF Publish, At, InCommit
<1>2. /\ \A q \in Runs : q # r => call[q].pc \in Parked
      /\ ~gate.committed /\ Up /\ link.registered
  BY <1>1, InsideCommit
<1>3. CASE Refuse(r)
  <2>1. Return(r, FALSE) /\ Kept
    BY <1>3, UnchangedKept DEF Publish, Refuse
  <2>2. QED
    BY <1>2, <2>1, ReturnStep
<1>4. CASE ~Refuse(r)
  <2>1. /\ fb = "native" /\ link.linked /\ Return(r, TRUE) /\ accel' = "publishing"
        /\ gate' = [gate EXCEPT !.committed = TRUE] /\ UNCHANGED <<fb, link, rcs>>
    BY <1>4 DEF Publish
  <2>2. Moves(r, "returned", TRUE)
    BY <2>1, ReturnMoves DEF KernelOK
  <2>3. gate' \in GateType /\ gate'.ready = gate.ready /\ gate'.committed = TRUE
    BY <2>1 DEF KernelOK, GateType
  <2>4. /\ Parked \cap (InPrepare \cup InCommit \cup InRoute) = {} /\ "confirm" \in InPrepare
        /\ "returned" \in Parked
    BY DEF Parked, InPrepare, InCommit, InRoute
  <2>5. Up' /\ Held' = Held
    BY <2>1 DEF Up, Held
  <2>6. KernelOK'
    BY <2>1, <2>2, <2>3 DEF Moves, KernelOK, AccelType
  <2>7. LockInv'
    BY <2>2, <2>4 DEF Moves, LockInv
  <2>8. PrepareInv'
    BY <1>2, <2>1, <2>2, <2>3, <2>4, <2>5 DEF Moves, PrepareInv
  <2>9. CommitInv'
    BY <1>2, <2>1, <2>2, <2>3, <2>4, <2>5 DEF Moves, CommitInv
  <2>10. QED
    BY <2>6, <2>7, <2>8, <2>9
<1>5. QED
  BY <1>3, <1>4

\* No step of the gate breaks the order of the hand-over.
LEMMA GateStepInv ==
  ASSUME Inv, NEW r \in Runs, GateStep(r)
  PROVE  Inv'
<1>1. CASE PrepareRCS(r)
  BY <1>1, PrepareRCSStep
<1>2. CASE ConfirmPrepared(r)
  BY <1>2, ConfirmStep
<1>3. CASE Route(r) \/ RetireBoot(r) \/ AttachNative(r) \/ CreateControl(r)
  BY <1>3, CommitSteps
<1>4. CASE Publish(r)
  BY <1>4, PublishStep
<1>5. CASE (SelfTest(r) \/ PrepareRuntime(r) \/ PrepareLink(r) \/ CommitDisplay(r))
             /\ UNCHANGED rcs
  BY <1>5, EnterStep
<1>6. QED
  BY <1>1, <1>2, <1>3, <1>4, <1>5 DEF GateStep

\* A run brings at most a new call, and touches nothing else.
LEMMA SessionKeeps ==
  ASSUME Inv, NEW r \in Runs, UNCHANGED <<fb, accel, gate, link, rcs>>,
         UNCHANGED call \/ \E op \in Ops : Ask(r, op)
  PROVE  Inv'
<1> USE DEF Inv
<1>1. Up' = Up /\ Held' = Held
  BY DEF Up, Held
<1>2. CASE UNCHANGED call
  BY <1>1, <1>2 DEF KernelOK, LockInv, PrepareInv, CommitInv
<1>3. CASE \E op \in Ops : Ask(r, op)
  <2>1. PICK op \in Ops : Brings(r, op)
    BY <1>3, AskBrings DEF KernelOK
  <2>2. /\ "queued" \in Parked /\ "queued" # "confirm"
        /\ Parked \cap (InPrepare \cup InCommit \cup InRoute) = {}
    BY DEF Parked, InPrepare, InCommit, InRoute
  <2>3. KernelOK' /\ LockInv'
    BY <2>1, <2>2 DEF Brings, KernelOK, LockInv
  <2>4. PrepareInv' /\ CommitInv'
    BY <1>1, <2>1, <2>2 DEF Brings, PrepareInv, CommitInv
  <2>5. QED
    BY <2>3, <2>4
<1>4. QED
  BY <1>2, <1>3

\* Calls and gate as they were; the accelerator moves with IOKit, the render
\* engine with a reset, and the property with a look at it.
LEMMA OutsideKeeps ==
  ASSUME Inv, UNCHANGED <<fb, gate, call>>,
         link' \in LinkType, link'.registered = link.registered, link'.linked = link.linked,
         rcs' \in RcsType, Held => Held',
         accel' \in AccelType, Up => Up', accel = "hidden" => accel' = "hidden",
         accel' \in {"publishing", "published"} => accel \in {"publishing", "published"}
  PROVE  Inv'
<1> USE DEF Inv
<1>1. KernelOK' /\ LockInv'
  BY DEF KernelOK, LockInv
<1>2. PrepareInv'
  BY DEF PrepareInv
<1>3. CommitInv'
  BY DEF CommitInv
<1>4. QED
  BY <1>1, <1>2, <1>3

\* Nor does what happens without the gate: matching, a reset, a look at the
\* registers, rules that are removed, the publisher.
LEMMA OutsideSteps ==
  ASSUME Inv, RemoveRules \/ CaptureRCS \/ Match \/ StartPublisher \/ Reset
  PROVE  Inv'
<1>1. /\ link \in LinkType /\ rcs \in RcsType /\ accel \in AccelType
  BY DEF Inv, KernelOK
<1>2. CASE RemoveRules \/ StartPublisher
  <2>1. UNCHANGED <<fb, accel, gate, link, rcs, call>>
    BY <1>2 DEF RemoveRules, StartPublisher
  <2>2. (Held => Held') /\ (Up => Up')
    BY <2>1 DEF Held, Up
  <2>3. QED
    BY <1>1, <2>1, <2>2, OutsideKeeps
<1>3. CASE CaptureRCS
  <2>1. UNCHANGED <<fb, accel, gate, rcs, call>>
        /\ \E shown \in BOOLEAN : link' = [link EXCEPT !.shown = shown]
    BY <1>3 DEF CaptureRCS, Inspected
  <2>2. link' \in LinkType /\ link'.registered = link.registered /\ link'.linked = link.linked
    BY <1>1, <2>1 DEF LinkType
  <2>3. (Held => Held') /\ (Up => Up')
    BY <2>1, <2>2 DEF Held, Up
  <2>4. QED
    BY <1>1, <2>1, <2>2, <2>3, OutsideKeeps
<1>4. CASE Match
  <2>1. UNCHANGED <<fb, gate, link, rcs, call>>
    BY <1>4 DEF Match
  <2>2. \/ accel' = accel
        \/ accel = "absent" /\ accel' = "starting"
        \/ accel = "starting" /\ accel' \in {"hidden", "failed"}
        \/ accel = "publishing" /\ accel' = "published"
    BY <1>4 DEF Match
  <2>3. /\ accel' \in AccelType /\ (Up => Up') /\ (accel = "hidden" => accel' = "hidden")
        /\ accel' \in {"publishing", "published"} => accel \in {"publishing", "published"}
    BY <1>1, <2>2 DEF Up, AccelType
  <2>4. Held => Held'
    BY <2>1 DEF Held
  <2>5. QED
    BY <1>1, <2>1, <2>3, <2>4, OutsideKeeps
<1>5. CASE Reset
  <2>1. UNCHANGED <<fb, accel, gate, link, call>>
    BY <1>5 DEF Reset
  <2>2. Up => Up'
    BY <2>1 DEF Up
  <2>3. CASE rcs' = [rcs EXCEPT !.resetting = TRUE, !.saved = Restored] /\ ~rcs.resetting
    <3>1. Restored \in BOOLEAN
      BY <1>1 DEF Restored, LinkType, RcsType
    <3>2. rcs' \in RcsType /\ rcs'.resetting = TRUE /\ rcs'.saved = Restored
      BY <1>1, <2>3, <3>1 DEF RcsType
    <3>3. Held => Held'
      BY <2>1, <2>3, <3>2 DEF Held, Restored
    <3>4. QED
      BY <1>1, <2>1, <2>2, <3>2, <3>3, OutsideKeeps
  <2>4. CASE rcs' = [psmi |-> rcs.saved, resetting |-> FALSE, saved |-> FALSE] /\ rcs.resetting
    <3>1. rcs' \in RcsType /\ rcs'.resetting = FALSE /\ rcs'.psmi = rcs.saved
      BY <1>1, <2>4 DEF RcsType
    <3>2. Held => Held'
      BY <2>1, <2>4, <3>1 DEF Held
    <3>3. QED
      BY <1>1, <2>1, <2>2, <3>1, <3>2, OutsideKeeps
  <2>5. QED
    BY <1>5, <2>3, <2>4 DEF Reset
<1>6. QED
  BY <1>2, <1>3, <1>4, <1>5

\* The script and its death change no driver: a run at most asks the gate.
LEMMA RunStepAsks ==
  ASSUME NEW r \in Runs, RunStep(r) \/ Crash(r)
  PROVE  /\ UNCHANGED <<fb, accel, probe, rules, gate, link, rcs>>
         /\ UNCHANGED call \/ \E op \in Ops : Ask(r, op)
<1>1. CASE Begin(r) \/ Preflight(r) \/ Detect(r) \/ Answer(r)
  BY <1>1 DEF Begin, Preflight, Detect, Answer, RunStep, SessionStep, Crash,
     EnsureVideo, AwaitVideo, Become, Fail, Ops
<1>2. CASE AwaitProbe(r) \/ AwaitHidden(r) \/ Recheck(r) \/ AwaitPublished(r)
  BY <1>2 DEF AwaitProbe, AwaitHidden, Recheck, AwaitPublished, RunStep, SessionStep, Crash,
     EnsureVideo, AwaitVideo, Become, Fail, Ops
<1>3. CASE EnsureVideo(r) \/ AwaitVideo(r) \/ Crash(r)
  BY <1>3 DEF EnsureVideo, AwaitVideo, Crash, Become, Fail
<1>4. QED
  BY <1>1, <1>2, <1>3 DEF RunStep, SessionStep

\* A step of the gate moves the call it serves and no other.
LEMMA GateMoves ==
  ASSUME call \in [Runs -> CallType], NEW r \in Runs, GateStep(r)
  PROVE  \E pc \in CallPC \ {"idle"}, ok \in BOOLEAN : Moves(r, pc, ok)
<1>1. CASE \E ok \in BOOLEAN : Return(r, ok)
  <2>1. "returned" \in CallPC \ {"idle"}
    BY DEF CallPC, Parked
  <2>2. QED
    BY <1>1, <2>1, ReturnMoves
<1>2. CASE \E pc \in CallPC \ {"idle"} : Goto(r, pc)
  <2>1. call[r].ok \in BOOLEAN
    BY DEF CallType
  <2>2. QED
    BY <1>2, <2>1, GotoMoves
<1>3. CASE PrepareRCS(r)
  <2>1. \E ok \in BOOLEAN : call' = [call EXCEPT ![r].pc = "confirm", ![r].ok = ok]
    BY <1>3, Zenon DEF PrepareRCS
  <2>2. "confirm" \in CallPC \ {"idle"}
    BY DEF CallPC, InPrepare
  <2>3. QED
    BY <2>1, <2>2, UpdateMoves
<1>4. CASE ConfirmPrepared(r)
  <2>1. (call[r].ok /\ link.shown) \in BOOLEAN
    OBVIOUS
  <2>2. QED
    BY <1>1, <1>4, <2>1 DEF ConfirmPrepared
<1>5. CASE SelfTest(r) \/ PrepareRuntime(r) \/ PrepareLink(r) \/ CommitDisplay(r)
  BY <1>1, <1>2, <1>5 DEF SelfTest, PrepareRuntime, PrepareLink, CommitDisplay, Refuse,
     CallPC, InPrepare, InCommit
<1>6. CASE Route(r) \/ RetireBoot(r) \/ AttachNative(r)
  BY <1>1, <1>2, <1>6 DEF Route, RetireBoot, AttachNative, CallPC, InCommit
<1>7. CASE CreateControl(r) \/ Publish(r)
  BY <1>1, <1>2, <1>7 DEF CreateControl, Publish, Refuse, CallPC, InCommit
<1>8. QED
  BY <1>3, <1>4, <1>5, <1>6, <1>7 DEF GateStep

\* The invariant of the hand-over is inductive.
THEOREM InvStep == Inv /\ [Next]_vars => Inv'
<1> SUFFICES ASSUME Inv, [Next]_vars PROVE Inv'
  OBVIOUS
<1>1. ASSUME NEW r \in Runs, RunStep(r) \/ Crash(r) PROVE Inv'
  BY <1>1, RunStepAsks, SessionKeeps
<1>2. ASSUME NEW r \in Runs, GateStep(r) PROVE Inv'
  BY <1>2, GateStepInv
<1>3. CASE RemoveRules \/ CaptureRCS \/ Match \/ StartPublisher \/ Reset
  BY <1>3, OutsideSteps
<1>4. CASE UNCHANGED vars
  BY <1>4 DEF Inv, KernelOK, LockInv, PrepareInv, CommitInv, Up, Held
<1>5. QED
  BY <1>1, <1>2, <1>3, <1>4 DEF Next

\* Gate, link and accelerator keep the order of the hand-over.
THEOREM Invariance == Spec => []Inv
  BY InvInit, InvStep, PTL DEF Spec
-----------------------------------------------------------------------------
\* The firmware framebuffer is only given up with the workaround in force, and
\* no reset of the GT takes it away.
THEOREM WorkaroundIsHeld == Spec => []WorkaroundHeld
<1>1. Inv => WorkaroundHeld
  BY DEF Inv, CommitInv, Held, WorkaroundHeld
<1>2. QED
  BY <1>1, Invariance, PTL

\* Publication comes after the display, the display after the preparation.
THEOREM HandoffInOrder == Spec => []HandoffOrder
<1>1. Inv => HandoffOrder
  BY DEF Inv, CommitInv, Up, HandoffOrder
<1>2. QED
  BY <1>1, Invariance, PTL

\* Only one commit ever succeeds.
THEOREM OneCommit == Spec => CommitsOnce
<1>1. Inv /\ [Next]_vars =>
        [\A r \in Runs :
           call[r].op = "CommitDisplay" /\ call[r].pc # "returned"
             /\ call'[r].pc = "returned" /\ call'[r].ok => ~gate.committed]_vars
  <2> SUFFICES ASSUME Inv, Next, NEW r \in Runs,
                      call[r].op = "CommitDisplay", call[r].pc # "returned",
                      call'[r].pc = "returned", call'[r].ok
               PROVE  ~gate.committed
    BY DEF Inv
  <2>1. call \in [Runs -> CallType]
    BY DEF Inv, KernelOK
  <2>2. call'[r] # call[r]
    OBVIOUS
  <2>3. PICK q \in Runs : GateStep(q)
    <3>1. ASSUME NEW q \in Runs, RunStep(q) \/ Crash(q) PROVE FALSE
      <4>1. CASE UNCHANGED call
        BY <2>2, <4>1
      <4>2. ASSUME NEW op \in Ops, Ask(q, op) PROVE FALSE
        <5>1. Brings(q, op)
          BY <2>1, <4>2, AskBrings
        <5>2. QED
          BY <2>2, <5>1 DEF Brings
      <4>3. QED
        BY <3>1, <4>1, <4>2, RunStepAsks
    <3>2. ~(RemoveRules \/ CaptureRCS \/ Match \/ StartPublisher \/ Reset)
      BY <2>2 DEF RemoveRules, CaptureRCS, Match, StartPublisher, Reset
    <3>3. QED
      BY <3>1, <3>2 DEF Next
  <2>4. PICK pc \in CallPC \ {"idle"}, ok \in BOOLEAN : Moves(q, pc, ok)
    BY <2>1, <2>3, GateMoves
  <2>5. q = r
    BY <2>2, <2>4 DEF Moves
  <2>6. CASE call[r].pc \in InCommit
    BY <2>6, InsideCommit
  <2>7. CASE call[r].pc \notin InCommit
    <3>1. ~(PrepareRCS(r) \/ ConfirmPrepared(r) \/ Route(r) \/ RetireBoot(r)
             \/ AttachNative(r) \/ CreateControl(r) \/ Publish(r))
      BY <2>7 DEF PrepareRCS, ConfirmPrepared, Route, RetireBoot, AttachNative, CreateControl,
         Publish, At, InCommit
    <3>2. CommitDisplay(r)
      BY <2>3, <2>5, <3>1 DEF GateStep, SelfTest, PrepareRuntime, PrepareLink, Enter, At
    <3>3. CASE Return(r, FALSE)
      <4>1. Moves(r, "returned", FALSE)
        BY <2>1, <3>3, ReturnMoves
      <4>2. QED
        BY <4>1 DEF Moves
    <3>4. CASE CommitGuard
      BY <3>4 DEF CommitGuard
    <3>5. QED
      BY <3>2, <3>3, <3>4 DEF CommitDisplay, Refuse
  <2>8. QED
    BY <2>6, <2>7
<1>2. QED
  BY <1>1, Invariance, PTL DEF Spec, CommitsOnce
-----------------------------------------------------------------------------
(* The latches of the gate, and what a run has seen.                        *)

\* What was matched was asked for: a latch, once set, stays.
LatchInv ==
  /\ "selftest" \in rules \/ probe \/ gate.requested => gate.selfTest
  /\ "runtime" \in rules \/ accel # "absent" => gate.requested

VideoInv ==
  /\ video = "published" => accel = "published"
  /\ \A r \in Runs : run[r] = "done" => video = "published"

RunPC == Over \cup {"new", "preflight", "detect", "asked", "await_probe",
  "await_hidden", "recheck", "await_published", "video", "await_video"}

\* A run that waits for an answer has a call of its own at the gate.
RunInv ==
  /\ probe \in BOOLEAN /\ rules \subseteq {"selftest", "runtime"} /\ kext \in BOOLEAN
  /\ run \in [Runs -> RunPC]
  /\ \A r \in Runs : run[r] = "asked" => call[r].op \in Ops /\ call[r].pc # "idle"
  /\ video \in {"none", "loaded", "published"} /\ resets \in 0 .. MaxResets

Inv2 == Inv /\ LatchInv /\ VideoInv /\ RunInv

\* At boot no latch is set and no run is done.
THEOREM Inv2Init == Init => Inv2
<1> SUFFICES ASSUME Init PROVE LatchInv /\ VideoInv /\ RunInv
  BY InvInit DEF Inv2
<1>1. LatchInv
  BY DEF Init, LatchInv
<1>2. VideoInv
  BY DEF Init, VideoInv
<1>3. run \in [Runs -> RunPC] /\ \A r \in Runs : run[r] # "asked"
  BY DEF Init, RunPC
<1>4. resets \in 0 .. MaxResets
  BY ActivationAssumption DEF Init
<1>5. QED
  BY <1>1, <1>2, <1>3, <1>4 DEF Init, RunInv

\* What was published is not touched again.
LEMMA FinalStep ==
  ASSUME Inv2, Next, accel = "published"
  PROVE  UNCHANGED <<fb, accel, gate>> /\ link'.linked = link.linked
<1> USE DEF Inv2
<1>1. gate.selfTest /\ link \in LinkType
  BY DEF LatchInv, Inv, KernelOK
<1>2. ASSUME NEW r \in Runs, RunStep(r) \/ Crash(r)
      PROVE  UNCHANGED <<fb, accel, gate>> /\ link'.linked = link.linked
  BY <1>2, RunStepAsks
<1>3. ASSUME NEW r \in Runs, GateStep(r)
      PROVE  UNCHANGED <<fb, accel, gate>> /\ link'.linked = link.linked
  <2>1. call[r].pc \notin InCommit
    BY InsideCommit
  <2>2. call[r].pc \notin InPrepare
    BY DEF Inv, PrepareInv
  <2>3. SelfTest(r) \/ PrepareRuntime(r) \/ PrepareLink(r) \/ CommitDisplay(r)
    BY <1>3, <2>1, <2>2 DEF GateStep, PrepareRCS, ConfirmPrepared, Route, RetireBoot,
       AttachNative, CreateControl, Publish, At, InPrepare, InCommit
  <2>4. Refuse(r)
    BY <1>1, <2>3 DEF SelfTest, PrepareRuntime, PrepareLink, CommitDisplay, CommitGuard,
       HiddenReady, Present
  <2>5. QED
    BY <2>4 DEF Refuse
<1>4. CASE RemoveRules \/ StartPublisher \/ Match \/ Reset
  BY <1>4 DEF RemoveRules, StartPublisher, Match, Reset
<1>5. CASE CaptureRCS
  <2>1. UNCHANGED <<fb, accel, gate>>
        /\ \E shown \in BOOLEAN : link' = [link EXCEPT !.shown = shown]
    BY <1>5 DEF CaptureRCS, Inspected
  <2>2. QED
    BY <1>1, <2>1 DEF LinkType
<1>6. QED
  BY <1>2, <1>3, <1>4, <1>5 DEF Next

\* The gate takes no latch back after something was matched for it.
LEMMA LatchStep ==
  ASSUME Inv2, Next
  PROVE  LatchInv'
<1> USE DEF Inv2
<1>1. gate \in GateType
  BY DEF Inv, KernelOK
<1>2. ASSUME NEW r \in Runs, RunStep(r) \/ Crash(r) PROVE LatchInv'
  BY <1>2, RunStepAsks DEF LatchInv
<1>3. ASSUME NEW r \in Runs, GateStep(r) PROVE LatchInv'
  <2>1. CASE UNCHANGED <<accel, probe, rules, gate>>
    BY <2>1 DEF LatchInv
  <2>2. CASE SelfTest(r) /\ ~Refuse(r)
    <3>1. PICK ok \in BOOLEAN :
            /\ gate' = [gate EXCEPT !.selfTest = ok]
            /\ rules' = IF ok THEN rules \cup {"selftest"} ELSE rules
            /\ ~gate.selfTest /\ UNCHANGED <<accel, probe>>
      BY <2>2 DEF SelfTest
    <3>2. gate'.selfTest = ok /\ gate'.requested = gate.requested
      BY <1>1, <3>1 DEF GateType
    <3>3. QED
      BY <3>1, <3>2 DEF LatchInv
  <2>3. CASE PrepareRuntime(r) /\ ~Refuse(r)
    <3>1. /\ probe /\ gate' = [gate EXCEPT !.requested = TRUE]
          /\ rules' \in {rules, rules \cup {"runtime"}} /\ UNCHANGED <<accel, probe>>
      BY <2>3 DEF PrepareRuntime
    <3>2. gate'.requested = TRUE /\ gate'.selfTest = gate.selfTest
      BY <1>1, <3>1 DEF GateType
    <3>3. QED
      BY <3>1, <3>2 DEF LatchInv
  <2>4. CASE ConfirmPrepared(r)
    <3>1. gate'.requested = gate.requested /\ gate'.selfTest = gate.selfTest
          /\ UNCHANGED <<accel, probe, rules>>
      BY <1>1, <2>4 DEF ConfirmPrepared, GateType
    <3>2. QED
      BY <3>1 DEF LatchInv
  <2>5. CASE Publish(r) /\ ~Refuse(r)
    <3>1. gate' = [gate EXCEPT !.committed = TRUE] /\ UNCHANGED <<probe, rules>>
          /\ call[r].pc \in InCommit
      BY <2>5 DEF Publish, At, InCommit
    <3>2. gate'.requested = gate.requested /\ gate'.selfTest = gate.selfTest
      BY <1>1, <3>1 DEF GateType
    <3>3. accel # "absent"
      BY <3>1, InsideCommit DEF Up
    <3>4. QED
      BY <3>1, <3>2, <3>3 DEF LatchInv
  <2>6. QED
    BY <1>3, <2>1, <2>2, <2>3, <2>4, <2>5 DEF GateStep, SelfTest, PrepareRuntime, PrepareLink,
       CommitDisplay, PrepareRCS, Route, RetireBoot, AttachNative, CreateControl, Publish, Refuse
<1>4. CASE RemoveRules \/ CaptureRCS \/ StartPublisher \/ Reset
  BY <1>4 DEF RemoveRules, CaptureRCS, StartPublisher, Reset, LatchInv
<1>5. CASE Match
  BY <1>5 DEF Match, LatchInv
<1>6. QED
  BY <1>2, <1>3, <1>4, <1>5 DEF Next

\* Where a run goes: it asks the gate, or moves on without a call.
LEMMA RunGoes ==
  ASSUME RunInv, NEW r \in Runs, RunStep(r) \/ Crash(r)
  PROVE  \/ \E op \in Ops : Ask(r, op)
         \/ \E pc \in RunPC \ {"asked"} : Become(r, pc)
<1>1. CASE Begin(r) \/ Preflight(r) \/ Detect(r) \/ Crash(r)
  BY <1>1 DEF Begin, Preflight, Detect, Crash, Fail, RunPC, Over, Ops
<1>2. CASE Answer(r)
  <2>1. UNCHANGED call /\ call[r].op \in Ops
        /\ (run' = [run EXCEPT ![r] = Following[call[r].op]] \/ run' = [run EXCEPT ![r] = "failed"])
    BY <1>2 DEF Answer, RunInv
  <2>2. Following[call[r].op] \in RunPC \ {"asked"} /\ "failed" \in RunPC \ {"asked"}
    BY <2>1 DEF Following, Ops, RunPC, Over
  <2>3. QED
    BY <2>1, <2>2 DEF Become
<1>3. CASE AwaitProbe(r) \/ AwaitHidden(r) \/ Recheck(r) \/ AwaitPublished(r)
  BY <1>3 DEF AwaitProbe, AwaitHidden, Recheck, AwaitPublished, Fail, RunPC, Over, Ops
<1>4. CASE EnsureVideo(r) \/ AwaitVideo(r)
  BY <1>4 DEF EnsureVideo, AwaitVideo, Fail, RunPC, Over
<1>5. QED
  BY <1>1, <1>2, <1>3, <1>4 DEF RunStep, SessionStep

\* Only the end of ensure_video makes a run done.
LEMMA DoneByVideo ==
  ASSUME RunInv, NEW r \in Runs, SessionStep(r) \/ Crash(r)
  PROVE  /\ UNCHANGED video
         /\ \A q \in Runs : run'[q] = "done" => run[q] = "done"
<1>1. UNCHANGED video /\ run \in [Runs -> RunPC]
  BY DEF SessionStep, Crash, RunInv
<1>2. \E pc : pc # "done" /\ run' = [run EXCEPT ![r] = pc]
  <2>1. CASE Begin(r) \/ Preflight(r) \/ Detect(r) \/ Crash(r)
    BY <2>1 DEF Begin, Preflight, Detect, Crash, Become, Fail, Ask
  <2>2. CASE Answer(r)
    <3>1. call[r].op \in Ops
          /\ (run' = [run EXCEPT ![r] = Following[call[r].op]] \/ run' = [run EXCEPT ![r] = "failed"])
      BY <2>2 DEF Answer, RunInv
    <3>2. Following[call[r].op] # "done"
      BY <3>1 DEF Following, Ops
    <3>3. QED
      BY <3>1, <3>2
  <2>3. CASE AwaitProbe(r) \/ AwaitHidden(r) \/ Recheck(r) \/ AwaitPublished(r)
    BY <2>3 DEF AwaitProbe, AwaitHidden, Recheck, AwaitPublished, Become, Fail, Ask
  <2>4. QED
    BY <2>1, <2>2, <2>3 DEF SessionStep
<1>3. QED
  BY <1>1, <1>2

\* A run is only done when the publisher has published on a published
\* accelerator.
LEMMA VideoStep ==
  ASSUME Inv2, Next
  PROVE  VideoInv'
<1> USE DEF Inv2
<1>1. accel = "published" => accel' = "published"
  BY FinalStep
<1>2. run \in [Runs -> RunPC]
  BY DEF RunInv
<1>3. ASSUME NEW r \in Runs, SessionStep(r) \/ Crash(r) PROVE VideoInv'
  BY <1>1, <1>3, DoneByVideo DEF VideoInv
<1>4. ASSUME NEW r \in Runs, EnsureVideo(r) PROVE VideoInv'
  BY <1>1, <1>2, <1>4 DEF EnsureVideo, Become, Fail, VideoInv
<1>5. ASSUME NEW r \in Runs, AwaitVideo(r) PROVE VideoInv'
  BY <1>1, <1>2, <1>5 DEF AwaitVideo, Become, Fail, VideoInv
<1>6. ASSUME NEW r \in Runs, GateStep(r) PROVE VideoInv'
  BY <1>1, <1>6 DEF GateStep, VideoInv
<1>7. CASE RemoveRules \/ CaptureRCS \/ Match \/ Reset
  BY <1>1, <1>7 DEF RemoveRules, CaptureRCS, Match, Reset, VideoInv
<1>8. CASE StartPublisher
  BY <1>1, <1>8 DEF StartPublisher, VideoInv
<1>9. QED
  BY <1>3, <1>4, <1>5, <1>6, <1>7, <1>8 DEF Next, RunStep

\* The bookkeeping of runs and calls is preserved by each step.
LEMMA RunInvStep ==
  ASSUME Inv2, Next
  PROVE  RunInv'
<1> USE DEF Inv2
<1>1. call \in [Runs -> CallType] /\ run \in [Runs -> RunPC]
  BY DEF Inv, KernelOK, RunInv
<1>2. /\ probe' \in BOOLEAN /\ rules' \subseteq {"selftest", "runtime"}
      /\ kext' \in BOOLEAN /\ video' \in {"none", "loaded", "published"}
      /\ resets' \in 0 .. MaxResets
  <2>1. CASE \E r \in Runs : RunStep(r) \/ Crash(r)
    <3>1. UNCHANGED <<probe, rules, resets>>
      BY <2>1 DEF RunStep, SessionStep, EnsureVideo, AwaitVideo, Crash
    <3>2. kext' \in {kext, TRUE} /\ video' \in {video, "loaded"}
      BY <2>1 DEF RunStep, SessionStep, EnsureVideo, AwaitVideo, Crash, Begin, Preflight,
         Detect, Answer, AwaitProbe, AwaitHidden, Recheck, AwaitPublished
    <3>3. QED
      BY <3>1, <3>2 DEF RunInv
  <2>2. CASE \E r \in Runs : GateStep(r)
    <3>1. UNCHANGED <<probe, kext, video, resets>>
      BY <2>2 DEF GateStep, SelfTest, PrepareRuntime, PrepareLink, CommitDisplay, PrepareRCS,
         ConfirmPrepared, Route, RetireBoot, AttachNative, CreateControl, Publish, Refuse
    <3>2. rules' \in {rules, rules \cup {"selftest"}, rules \cup {"runtime"}}
      BY <2>2 DEF GateStep, SelfTest, PrepareRuntime, PrepareLink, CommitDisplay, PrepareRCS,
         ConfirmPrepared, Route, RetireBoot, AttachNative, CreateControl, Publish, Refuse
    <3>3. QED
      BY <3>1, <3>2 DEF RunInv
  <2>3. CASE RemoveRules \/ CaptureRCS \/ Match \/ StartPublisher
    BY <2>3 DEF RemoveRules, CaptureRCS, Match, StartPublisher, RunInv
  <2>4. CASE Reset
    <3>1. UNCHANGED <<kernel, kext, video>>
      BY <2>4 DEF Reset
    <3>2. UNCHANGED <<probe, rules>>
      BY <3>1
    <3>3. resets' = resets \/ (resets < MaxResets /\ resets' = resets + 1)
      BY <2>4 DEF Reset
    <3>4. QED
      BY <3>1, <3>2, <3>3, ActivationAssumption DEF RunInv
  <2>5. QED
    BY <2>1, <2>2, <2>3, <2>4 DEF Next
<1>3. /\ run' \in [Runs -> RunPC]
      /\ \A q \in Runs : run'[q] = "asked" => call'[q].op \in Ops /\ call'[q].pc # "idle"
  <2>1. ASSUME NEW r \in Runs, NEW op \in Ops, Ask(r, op)
        PROVE  /\ run' \in [Runs -> RunPC]
               /\ \A q \in Runs : run'[q] = "asked" => call'[q].op \in Ops /\ call'[q].pc # "idle"
    <3>1. Brings(r, op) /\ run' = [run EXCEPT ![r] = "asked"] /\ "asked" \in RunPC
      BY <1>1, <2>1, AskBrings DEF Ask, RunPC
    <3>2. QED
      BY <1>1, <3>1 DEF Brings, RunInv
  <2>2. ASSUME NEW r \in Runs, NEW pc \in RunPC \ {"asked"}, Become(r, pc)
        PROVE  /\ run' \in [Runs -> RunPC]
               /\ \A q \in Runs : run'[q] = "asked" => call'[q].op \in Ops /\ call'[q].pc # "idle"
    BY <1>1, <2>2 DEF Become, RunInv
  <2>3. ASSUME NEW r \in Runs, GateStep(r)
        PROVE  /\ run' \in [Runs -> RunPC]
               /\ \A q \in Runs : run'[q] = "asked" => call'[q].op \in Ops /\ call'[q].pc # "idle"
    <3>1. PICK pc \in CallPC \ {"idle"}, ok \in BOOLEAN : Moves(r, pc, ok)
      BY <1>1, <2>3, GateMoves
    <3>2. UNCHANGED run
      BY <2>3 DEF GateStep
    <3>3. QED
      BY <1>1, <3>1, <3>2 DEF Moves, RunInv
  <2>4. CASE RemoveRules \/ CaptureRCS \/ Match \/ StartPublisher \/ Reset
    BY <2>4 DEF RemoveRules, CaptureRCS, Match, StartPublisher, Reset, RunInv
  <2>5. QED
    BY <2>1, <2>2, <2>3, <2>4, RunGoes DEF Next
<1>4. QED
  BY <1>2, <1>3 DEF RunInv

\* The invariant with latches, runs and publisher is inductive.
THEOREM Inv2Step == Inv2 /\ [Next]_vars => Inv2'
<1> SUFFICES ASSUME Inv2, [Next]_vars PROVE Inv2'
  OBVIOUS
<1>1. Inv'
  BY InvStep DEF Inv2
<1>2. CASE Next
  BY <1>1, <1>2, LatchStep, VideoStep, RunInvStep DEF Inv2
<1>3. CASE UNCHANGED vars
  BY <1>1, <1>3 DEF Inv2, LatchInv, VideoInv, RunInv
<1>4. QED
  BY <1>2, <1>3

\* Latches, runs and publisher keep what the invariant says of them.
THEOREM Invariance2 == Spec => []Inv2
  BY Inv2Init, Inv2Step, PTL DEF Spec
-----------------------------------------------------------------------------
\* Types, and a run that waits for an answer has a call that gives it one.
THEOREM TypeCorrect == Spec => []TypeOK
<1>1. Inv2 => TypeOK
  <2> SUFFICES ASSUME Inv2 PROVE TypeOK
    OBVIOUS
  <2>1. CallPC = Parked \cup InRoute \cup {"inspect", "confirm", "route", "check"}
    BY DEF CallPC, InPrepare, InCommit, InRoute
  <2>2. call \in [Runs -> [op : Ops \cup {"none"}, ok : BOOLEAN,
                           pc : Parked \cup InRoute \cup {"inspect", "confirm", "route", "check"}]]
    BY <2>1 DEF Inv2, Inv, KernelOK, CallType
  <2>3. QED
    BY <2>2 DEF Inv2, Inv, KernelOK, RunInv, RunPC, TypeOK, AccelType, GateType, LinkType, RcsType
<1>2. QED
  BY <1>1, Invariance2, PTL

\* What was published is never prepared or committed again, whatever is still
\* queued at the gate.
THEOREM PublicationIsFinal == Spec => PublishedIsFinal
<1>1. Inv2 /\ [Next]_vars =>
        [accel = "published" =>
           /\ UNCHANGED <<fb, accel, gate>>
           /\ link'.linked = link.linked]_vars
  BY FinalStep
<1>2. QED
  BY <1>1, Invariance2, PTL DEF Spec, PublishedIsFinal

\* A run that reports success leaves a published accelerator with its display
\* and its video properties.
THEOREM DoneIsReady == Spec => []DoneMeansReady
<1>1. Inv2 => DoneMeansReady
  BY DEF Inv2, Inv, CommitInv, VideoInv, DoneMeansReady
<1>2. QED
  BY <1>1, Invariance2, PTL
=============================================================================
