---------------------------- MODULE Handoff_proofs ----------------------------
(* Theorems about the end of the old desktop, for any number of boots, runs,  *)
(* desktops and flips.                                                        *)
EXTENDS Handoff, SequenceTheorems, TLAPS

USE DEF worldVars, sampleVars, controlVars, runVars, vars

PCs == Watching \cup {"idle", "save", "term", "force-save", "kill"}
Outcomes == {"none", "progressing", "refused", "timeout", "crashed", "verified"}
-----------------------------------------------------------------------------
(* Types.                                                                   *)

\* The empty samples and markers, as values.
LEMMA Blank ==
  /\ Dark \in Frames /\ NoSample.pid = 0 /\ NoSample.frame = Dark /\ Dark.completed = 0
  /\ NoMarker.boot = 0 /\ NoMarker.phase = "none" /\ NoMarker.before = 0
  BY HandoffAssumption DEF Dark, Frames, NoSample, NoMarker

\* A snapshot of a desktop is a sample.
LEMMA ObservedType ==
  ASSUME TypeOK, NEW at, Sees(at)
  PROVE  Observed \in Samples /\ Observed.pid = server /\ Observed.frame = registry
  BY HandoffAssumption DEF TypeOK, Sees, Observing, Observed, Samples

\* The desktop's own steps keep the counters in range.
LEMMA DisplayType ==
  ASSUME TypeOK, ServerDisplays \/ ServerExits
  PROVE  frame' \in Frames
<1>1. frame \in Frames /\ MaxFlips \in Nat
  BY HandoffAssumption DEF TypeOK
<1>2. [frame EXCEPT !.power = 2] \in Frames /\ [frame EXCEPT !.power = 0] \in Frames
  BY <1>1 DEF Frames
<1>3. frame.submitted < MaxFlips => [frame EXCEPT !.submitted = @ + 1] \in Frames
  BY <1>1 DEF Frames
<1>4. frame.completed < frame.submitted => [frame EXCEPT !.completed = @ + 1] \in Frames
  BY <1>1 DEF Frames
<1>5. QED
  BY <1>1, <1>2, <1>3, <1>4 DEF ServerDisplays, ServerExits
-----------------------------------------------------------------------------
(* The invariant.                                                           *)

Asked(p) == <<<<"TERM", p>>>>
Killed(p) == Append(Asked(p), <<"KILL", p>>)

\* The marker is of this boot or of an earlier one.  The previous version wrote
\* its marker after its signal.
MarkerInv ==
  /\ marker.boot <= boot
  /\ marker.boot = boot /\ marker.phase = "legacy" => signals # <<>>

\* What was sent in this boot is what the marker on disk says.
SignalInv ==
  /\ signals \in {<<>>, Asked(marker.before), Killed(marker.before)}
  /\ signals # <<>> => marker.boot = boot
  /\ signals = Killed(marker.before) => marker.phase \in {"force-intent", "verified"}

Escalates == {"stuck", "stuck2", "force-save", "kill"}

\* Where a run is tells what the marker allows it.
RunInv ==
  /\ pc # "idle" => result = "none"
  /\ pc \in Escalates \cup {"watch", "save", "term"} => current \in Samples
  /\ pc = "current" => /\ resume <=> marker.boot = boot
                       /\ resume => marker.phase = "legacy" /\ marker.before = second.pid
  /\ pc = "save" => marker.boot # boot
  /\ pc = "term" => /\ signals = <<>> /\ marker.boot = boot
                    /\ marker.before = current.pid /\ marker.phase = "term-intent"
  /\ pc \in Escalates \cup {"watch"} => /\ signals # <<>> /\ marker.boot = boot
                                        /\ marker.before = current.pid
  /\ pc \in Escalates => forced
  /\ pc \in Escalates \/ (pc = "watch" /\ ~forced) => signals = Asked(marker.before)
  /\ pc \in {"stuck2", "force-save", "kill"} => stalled.pid = marker.before
  /\ pc = "kill" => marker.phase = "force-intent"

Inv == TypeOK /\ MarkerInv /\ SignalInv /\ RunInv /\ VerifiedIsNew

\* What the two histories of a boot look like, and what a kill makes of them.
LEMMA Histories ==
  ASSUME NEW p
  PROVE  /\ Asked(p) # <<>> /\ Killed(p) # <<>> /\ Asked(p) # Killed(p)
         /\ Append(<<>>, <<"TERM", p>>) = Asked(p)
         /\ Append(Asked(p), <<"KILL", p>>) = Killed(p)
<1>1. Len(Asked(p)) = 1 /\ Len(Killed(p)) = 2 /\ Len(<<>>) = 0
  <2> DEFINE kinds == {"TERM", "KILL"} \X {p}
             x == <<"KILL", p>>
  <2>1. x \in kinds
    OBVIOUS
  <2>2. Asked(p) \in Seq(kinds) /\ Len(Asked(p)) = 1
    BY DEF Asked
  <2> HIDE DEF kinds, x
  <2>3. Len(Append(Asked(p), x)) = Len(Asked(p)) + 1
    BY <2>1, <2>2, AppendProperties
  <2>4. QED
    BY <2>2, <2>3 DEF Killed, x
<1>2. Asked(p) # <<>> /\ Killed(p) # <<>> /\ Asked(p) # Killed(p)
  BY <1>1
<1>3. Append(<<>>, <<"TERM", p>>) = Asked(p)
  BY DEF Asked
<1>4. Append(Asked(p), <<"KILL", p>>) = Killed(p)
  BY DEF Killed
<1>5. QED
  BY <1>2, <1>3, <1>4

\* At start only the previous version may have sent a signal, and marked it.
THEOREM InvInit == Init => Inv
<1> SUFFICES ASSUME Init PROVE Inv
  OBVIOUS
<1>1. /\ {MaxProcesses, MaxBoots} \subseteq Nat \ {0} /\ {MaxFlips, MaxRuns} \subseteq Nat
  BY HandoffAssumption
<1>2. \/ marker = NoMarker /\ signals = <<>>
      \/ /\ marker \in [boot : {1}, before : {1}, phase : {"legacy"}, timeout : BOOLEAN]
         /\ signals = Asked(1)
  BY DEF Init, NoMarker, Asked
<1>3. TypeOK
  <2>1. marker \in Markers \cup {NoMarker}
    BY <1>1, <1>2 DEF Markers, Phases
  <2>2. Dark \in Frames
    BY Blank
  <2>3. /\ boot \in 1 .. MaxBoots /\ {server, started} \subseteq 0 .. MaxProcesses
        /\ runs \in 0 .. MaxRuns
    BY <1>1 DEF Init
  <2>4. /\ frame \in Frames /\ registry \in Frames \cup {NoFrame}
        /\ {first, second, current, previous, stalled} \subseteq Samples \cup {NoSample}
    BY <2>2 DEF Init
  <2>5. /\ {resume, forced} \subseteq BOOLEAN /\ clock \in {"early", "force", "over"}
        /\ pc = "idle" /\ result = "none"
    BY DEF Init
  <2>6. QED
    BY <2>1, <2>3, <2>4, <2>5 DEF TypeOK
<1>4. MarkerInv
  BY <1>2, Blank, Histories DEF Init, MarkerInv
<1>5. SignalInv
  BY <1>2, Histories DEF Init, SignalInv
<1>6. RunInv /\ VerifiedIsNew
  BY DEF Init, RunInv, VerifiedIsNew, Escalates
<1>7. QED
  BY <1>3, <1>4, <1>5, <1>6 DEF Inv
-----------------------------------------------------------------------------
(* Types are preserved.                                                     *)

\* Each step keeps the types.
THEOREM TypeStep == Inv /\ [Next]_vars => TypeOK'
<1> SUFFICES ASSUME Inv, [Next]_vars PROVE TypeOK'
  OBVIOUS
<1>0. TypeOK
  BY DEF Inv
<1>1. CASE Desktop
  <2>1. CASE ServerExits \/ ServerDisplays
    <3>1. frame' \in Frames
      BY <1>0, <2>1, DisplayType
    <3>2. server' \in {0, server}
      BY <2>1 DEF ServerExits, ServerDisplays
    <3>3. UNCHANGED <<boot, started, marker, pc, registry, runVars>>
      BY <2>1 DEF ServerExits, ServerDisplays
    <3>4. QED
      BY <1>0, <3>1, <3>2, <3>3, HandoffAssumption DEF TypeOK
  <2>2. CASE ServerStarts
    BY <1>0, <2>2, HandoffAssumption DEF ServerStarts, TypeOK
  <2>3. QED
    BY <1>1, <2>1, <2>2 DEF Desktop
<1>2. CASE Start
  <2>1. runs' \in 0 .. MaxRuns
    BY <1>0, <1>2, HandoffAssumption DEF Start, TypeOK
  <2>2. /\ pc' = "first" /\ registry' = NoFrame /\ result' = "none" /\ clock' = "early"
        /\ UNCHANGED <<boot, server, started, frame, marker>>
    BY <1>2 DEF Start
  <2>3. {first, second, current, previous, stalled}' \subseteq Samples \cup {NoSample}
    BY <1>2 DEF Start
  <2>4. {resume, forced}' \subseteq BOOLEAN
    BY <1>2 DEF Start
  <2>5. QED
    BY <1>0, <2>1, <2>2, <2>3, <2>4 DEF TypeOK, Watching
<1>3. CASE ReadRegistry \/ TimePasses \/ WatchFails \/ Deadline \/ Blinded \/ Crash
  <2>1. CASE ReadRegistry
    BY <1>0, <2>1 DEF ReadRegistry, TypeOK
  <2>2. CASE TimePasses
    BY <1>0, <2>2 DEF TimePasses, TypeOK
  <2>3. CASE WatchFails
    BY <1>0, <2>3 DEF WatchFails, Blind, Observing, TypeOK
  <2>4. CASE Deadline \/ Crash
    BY <1>0, <2>4 DEF Deadline, Crash, Ends, TypeOK
  <2>5. CASE Blinded
    <3>1. registry' = NoFrame /\ pc' = "idle" /\ result' = "refused"
          /\ UNCHANGED <<worldVars, marker, runs, sampleVars, resume, forced, clock>>
      BY <2>5 DEF Blinded, Blind, Observing, Refuse, Ends
    <3>2. QED
      BY <1>0, <3>1 DEF TypeOK
  <2>6. QED
    BY <1>3, <2>1, <2>2, <2>3, <2>4, <2>5
<1>4. CASE First \/ Second
  <2>1. Observed \in Samples /\ registry' = NoFrame
    BY <1>0, <1>4, ObservedType DEF First, Second, Sees, Observing
  <2>2. (Attempted(marker)) \in BOOLEAN
    BY DEF Attempted
  <2>3. QED
    BY <1>0, <1>4, <2>1, <2>2 DEF First, Second, Ends, TypeOK, Watching
<1>5. CASE Current \/ Stuck \/ Stuck2
  <2>1. Observed \in Samples /\ registry' = NoFrame
    BY <1>0, <1>5, ObservedType DEF Current, Stuck, Stuck2, Sees, Observing
  <2>2. QED
    BY <1>0, <1>5, <2>1 DEF Current, Stuck, Stuck2, Refuse, Ends, TypeOK, Watching
<1>6. CASE Watch
  <2>1. Observed \in Samples /\ registry' = NoFrame
    BY <1>0, <1>6, ObservedType DEF Watch, Sees, Observing
  <2>2. marker' \in Markers \cup {NoMarker}
    <3>1. marker \in Markers
      BY <1>0, <1>6, Blank DEF Inv, RunInv, Watch, Sees, Observing, TypeOK
    <3>2. [marker EXCEPT !.phase = "verified"] \in Markers
      BY <3>1 DEF Markers, Phases
    <3>3. QED
      BY <3>1, <3>2, <1>6 DEF Watch
  <2>3. QED
    BY <1>0, <1>6, <2>1, <2>2 DEF Watch, Ends, TypeOK, Watching
<1>7. CASE SaveTermIntent
  <2>1. current.pid \in 1 .. MaxProcesses
    BY <1>7 DEF Inv, RunInv, SaveTermIntent, Samples
  <2>2. QED
    BY <1>0, <1>7, <2>1 DEF SaveTermIntent, TypeOK, Markers, Phases
<1>8. CASE SaveForceIntent
  <2>1. marker \in Markers
    BY <1>0, <1>8, Blank DEF Inv, RunInv, Escalates, SaveForceIntent, TypeOK
  <2>2. [marker EXCEPT !.phase = "force-intent"] \in Markers
    BY <2>1 DEF Markers, Phases
  <2>3. QED
    BY <1>0, <1>8, <2>2 DEF SaveForceIntent, TypeOK
<1>9. CASE Term \/ ForceKill
  BY <1>0, <1>9 DEF Term, ForceKill, Refuse, Ends, TypeOK, Watching
<1>10. CASE Reboot
  <2>1. Dark \in Frames
    BY Blank
  <2>2. QED
    BY <1>0, <1>10, <2>1, HandoffAssumption DEF Reboot, Ends, TypeOK
<1>11. CASE UNCHANGED vars
  BY <1>0, <1>11 DEF TypeOK
<1>12. QED
  BY <1>1, <1>2, <1>3, <1>4, <1>5, <1>6, <1>7, <1>8, <1>9, <1>10, <1>11
     DEF Next, Step
-----------------------------------------------------------------------------
(* The order of looking, writing and signalling is preserved.               *)

Order == MarkerInv /\ SignalInv /\ RunInv

\* A run that ends, and whatever the desktop does, leave marker and signals.
LEMMA Ended ==
  ASSUME Inv, UNCHANGED <<boot, marker, signals>>, pc' = "idle"
  PROVE  Order'
<1>1. MarkerInv' /\ SignalInv'
  BY DEF Inv, MarkerInv, SignalInv
<1>2. RunInv'
  BY DEF RunInv, Escalates
<1>3. QED
  BY <1>1, <1>2 DEF Order

\* A step of the run to pc that writes nothing and sends nothing.
LEMMA Moved ==
  ASSUME Inv, UNCHANGED <<boot, marker, signals>>, RunInv'
  PROVE  Order'
  BY DEF Inv, MarkerInv, SignalInv, Order

\* Looking three times: only a marker of another boot, or the recorded timeout
\* of the previous version, lets the run go on.
LEMMA LookStep ==
  ASSUME Inv, First \/ Second \/ Current \/ Start
  PROVE  Order'
<1>1. RunInv
  BY DEF Inv
<1>2. CASE First \/ Start
  <2>1. pc' \in {"first", "second"} /\ result' = "none" /\ UNCHANGED <<boot, marker, signals>>
    BY <1>1, <1>2 DEF First, Start, Sees, Observing, RunInv
  <2>2. RunInv'
    BY <2>1 DEF RunInv, Escalates
  <2>3. QED
    BY <2>1, <2>2, Moved
<1>3. CASE Second
  <2>1. CASE pc' = "idle"
    BY <1>3, <2>1, Ended DEF Second
  <2>2. CASE pc' # "idle"
    <3>1. /\ pc' = "current" /\ result' = "none" /\ resume' = (marker.boot = boot)
          /\ marker.boot = boot => marker.phase = "legacy" /\ marker.before = second'.pid
          /\ UNCHANGED <<boot, marker, signals>>
      BY <1>1, <1>3, <2>2 DEF Second, Sees, Observing, Ends, RunInv, Attempted, Resumes
    <3>2. RunInv'
      BY <3>1 DEF RunInv, Escalates
    <3>3. QED
      BY <3>1, <3>2, Moved
  <2>3. QED
    BY <2>1, <2>2
<1>4. CASE Current
  <2>1. CASE pc' = "idle"
    BY <1>4, <2>1, Ended DEF Current
  <2>2. CASE pc' # "idle"
    <3>1. /\ pc = "current" /\ current' = second /\ forced' = resume /\ current' \in Samples
          /\ UNCHANGED <<boot, marker, signals, result>>
          /\ pc' = IF resume THEN "stuck" ELSE "save"
      BY <1>4, <2>2, ObservedType DEF Inv, Current, Sees, Observing, Refuse, Ends
    <3>2. CASE resume
      <4>1. marker.boot = boot /\ marker.phase = "legacy" /\ marker.before = second.pid
        BY <1>1, <3>1, <3>2 DEF RunInv
      <4>2. signals = Asked(marker.before)
        BY <4>1 DEF Inv, MarkerInv, SignalInv
      <4>3. signals # <<>>
        BY <4>2, Histories
      <4>4. RunInv'
        BY <1>1, <3>1, <3>2, <4>1, <4>2, <4>3 DEF RunInv, Escalates
      <4>5. QED
        BY <3>1, <4>4, Moved
    <3>3. CASE ~resume
      <4>1. marker.boot # boot
        BY <1>1, <3>1, <3>3 DEF RunInv
      <4>2. RunInv'
        BY <1>1, <3>1, <3>3, <4>1 DEF RunInv, Escalates
      <4>3. QED
        BY <3>1, <4>2, Moved
    <3>4. QED
      BY <3>2, <3>3
  <2>3. QED
    BY <2>1, <2>2
<1>5. QED
  BY <1>2, <1>3, <1>4

\* The intent is saved when nothing was sent in this boot, and only then TERM.
LEMMA TermStep ==
  ASSUME Inv, SaveTermIntent \/ Term
  PROVE  Order'
<1>1. RunInv /\ SignalInv /\ MarkerInv /\ TypeOK
  BY DEF Inv
<1>2. CASE SaveTermIntent
  <2>1. /\ pc' = "term" /\ marker'.boot = boot /\ marker'.before = current.pid
        /\ marker'.phase = "term-intent"
        /\ UNCHANGED <<boot, signals, current, result>>
    BY <1>2 DEF SaveTermIntent
  <2>2. signals = <<>> /\ result = "none" /\ current \in Samples
    BY <1>1, <1>2 DEF SaveTermIntent, RunInv, SignalInv
  <2>3. MarkerInv' /\ SignalInv'
    BY <1>1, <2>1, <2>2, Histories DEF MarkerInv, SignalInv, TypeOK
  <2>4. RunInv'
    BY <2>1, <2>2 DEF RunInv, Escalates
  <2>5. QED
    BY <2>3, <2>4 DEF Order
<1>3. CASE Term
  <2>1. CASE Refuse /\ UNCHANGED signals
    BY <1>3, <2>1, Ended DEF Term, Refuse, Ends
  <2>2. CASE ~(Refuse /\ UNCHANGED signals)
    <3>1. /\ pc = "term" /\ server = current.pid /\ pc' = "watch"
          /\ signals' = Append(signals, <<"TERM", server>>)
          /\ UNCHANGED <<boot, marker, current, result, forced>>
      BY <1>3, <2>2 DEF Term, Kill
    <3>2. /\ signals = <<>> /\ marker.boot = boot /\ marker.before = current.pid
          /\ result = "none" /\ current \in Samples /\ marker.phase = "term-intent"
      BY <1>1, <3>1 DEF RunInv
    <3>3. signals' = Asked(marker'.before) /\ signals' # <<>> /\ signals' # Killed(marker'.before)
      BY <3>1, <3>2, Histories
    <3>4. MarkerInv' /\ SignalInv'
      BY <1>1, <3>1, <3>2, <3>3 DEF MarkerInv, SignalInv
    <3>5. RunInv'
      BY <3>1, <3>2, <3>3 DEF RunInv, Escalates
    <3>6. QED
      BY <3>4, <3>5 DEF Order
  <2>3. QED
    BY <2>1, <2>2
<1>4. QED
  BY <1>2, <1>3

\* A turn of the loop: it ends, escalates once, or goes on.
LEMMA WatchStep ==
  ASSUME Inv, Watch
  PROVE  Order'
<1>1. RunInv /\ SignalInv /\ MarkerInv /\ TypeOK /\ pc = "watch"
  BY DEF Inv, Watch, Sees, Observing
<1>2. /\ signals # <<>> /\ marker.boot = boot /\ marker.before = current.pid
      /\ current \in Samples /\ result = "none"
      /\ ~forced => signals = Asked(marker.before)
  BY <1>1 DEF RunInv
<1>3. UNCHANGED <<boot, signals, current>>
  BY DEF Watch
<1>4. CASE /\ marker' = [marker EXCEPT !.phase = "verified"]
           /\ Ends("verified")
  <2>1. marker \in Markers
    BY <1>1, <1>2, Blank DEF TypeOK
  <2>2. /\ marker'.boot = marker.boot /\ marker'.before = marker.before
        /\ marker'.phase = "verified" /\ pc' = "idle"
    BY <1>4, <2>1 DEF Markers, Ends
  <2>3. MarkerInv' /\ SignalInv'
    BY <1>1, <1>2, <1>3, <2>2 DEF MarkerInv, SignalInv
  <2>4. RunInv'
    BY <2>2 DEF RunInv, Escalates
  <2>5. QED
    BY <2>3, <2>4 DEF Order
<1>5. CASE /\ UNCHANGED <<marker, result>>
           /\ \/ ~forced /\ pc' = "stuck" /\ forced' = TRUE
              \/ UNCHANGED <<pc, forced>>
  <2>1. RunInv'
    BY <1>1, <1>2, <1>3, <1>5 DEF RunInv, Escalates
  <2>2. QED
    BY <1>3, <1>5, <2>1, Moved
<1>6. QED
  BY <1>4, <1>5 DEF Watch

\* The escalation: what was found stuck is what the marker names.
LEMMA EscalationStep ==
  ASSUME Inv, Stuck \/ Stuck2 \/ SaveForceIntent \/ ForceKill
  PROVE  Order'
<1>1. RunInv /\ SignalInv /\ MarkerInv /\ TypeOK
  BY DEF Inv
<1>2. pc \in Escalates
  BY DEF Stuck, Stuck2, SaveForceIntent, ForceKill, Sees, Observing, Escalates
<1>3. /\ signals = Asked(marker.before) /\ signals # <<>> /\ marker.boot = boot
      /\ marker.before = current.pid /\ current \in Samples /\ result = "none" /\ forced
  BY <1>1, <1>2 DEF RunInv, Escalates
<1>4. CASE Refuse /\ UNCHANGED signals
  <2>1. UNCHANGED <<boot, marker, signals>> /\ pc' = "idle"
    BY <1>4 DEF Stuck, Stuck2, SaveForceIntent, ForceKill, Refuse, Ends
  <2>2. QED
    BY <2>1, Ended
<1>5. CASE Stuck /\ ~(Refuse /\ UNCHANGED signals)
  <2>1. /\ pc' = "stuck2" /\ stalled'.pid = marker.before
        /\ UNCHANGED <<boot, marker, signals, current, result, forced>>
    BY <1>5 DEF Stuck
  <2>2. RunInv'
    BY <1>3, <2>1 DEF RunInv, Escalates
  <2>3. QED
    BY <2>1, <2>2, Moved
<1>6. CASE Stuck2 /\ ~(Refuse /\ UNCHANGED signals)
  <2>1. /\ pc = "stuck2" /\ pc' = "force-save"
        /\ UNCHANGED <<boot, marker, signals, current, result, forced, stalled>>
    BY <1>6 DEF Stuck2, Sees, Observing
  <2>2. RunInv'
    BY <1>1, <1>3, <2>1 DEF RunInv, Escalates
  <2>3. QED
    BY <2>1, <2>2, Moved
<1>7. CASE SaveForceIntent
  <2>1. marker \in Markers
    BY <1>1, <1>3, Blank DEF TypeOK
  <2>2. /\ pc = "force-save" /\ pc' = "kill"
        /\ marker' = [marker EXCEPT !.phase = "force-intent"]
        /\ UNCHANGED <<boot, signals, current, result, forced, stalled>>
    BY <1>7 DEF SaveForceIntent
  <2>3. /\ marker'.boot = marker.boot /\ marker'.before = marker.before
        /\ marker'.phase = "force-intent"
    BY <2>1, <2>2 DEF Markers
  <2>4. MarkerInv' /\ SignalInv'
    BY <1>1, <1>3, <2>2, <2>3 DEF MarkerInv, SignalInv
  <2>5. RunInv'
    BY <1>1, <1>3, <2>2, <2>3 DEF RunInv, Escalates
  <2>6. QED
    BY <2>4, <2>5 DEF Order
<1>8. CASE ForceKill /\ ~(Refuse /\ UNCHANGED signals)
  <2>1. /\ pc = "kill" /\ server = stalled.pid /\ pc' = "watch"
        /\ signals' = Append(signals, <<"KILL", server>>)
        /\ UNCHANGED <<boot, marker, current, result, forced>>
    BY <1>8 DEF ForceKill, Kill
  <2>2. stalled.pid = marker.before /\ marker.phase = "force-intent"
    BY <1>1, <2>1 DEF RunInv
  <2>3. signals' = Killed(marker'.before) /\ signals' # <<>>
    BY <1>3, <2>1, <2>2, Histories
  <2>4. MarkerInv' /\ SignalInv'
    BY <1>1, <1>3, <2>1, <2>2, <2>3 DEF MarkerInv, SignalInv
  <2>5. RunInv'
    BY <1>3, <2>1, <2>3 DEF RunInv, Escalates
  <2>6. QED
    BY <2>4, <2>5 DEF Order
<1>9. QED
  BY <1>4, <1>5, <1>6, <1>7, <1>8

\* Steps that neither look, write nor signal.
LEMMA IdleStep ==
  ASSUME Inv, Desktop \/ ReadRegistry \/ TimePasses \/ WatchFails \/ UNCHANGED vars
  PROVE  Order'
<1>1. UNCHANGED <<boot, marker, signals, pc, result, resume, second, current, forced, stalled>>
  BY DEF Desktop, ServerExits, ServerStarts, ServerDisplays, ReadRegistry, TimePasses, WatchFails
<1>2. RunInv'
  BY <1>1 DEF Inv, RunInv
<1>3. QED
  BY <1>1, <1>2, Moved

\* After a reboot nothing was sent and no marker is of this boot.
LEMMA RebootStep ==
  ASSUME Inv, Reboot
  PROVE  Order'
<1>1. /\ boot' = boot + 1 /\ signals' = <<>> /\ pc' = "idle" /\ marker' \in {marker, NoMarker}
  BY DEF Reboot, Ends
<1>2. boot \in Nat /\ marker.boot <= boot /\ marker.boot \in Nat
  BY HandoffAssumption, Blank DEF Inv, TypeOK, MarkerInv, Markers
<1>3. marker'.boot <= boot' /\ marker'.boot # boot'
  BY <1>1, <1>2, Blank
<1>4. MarkerInv' /\ SignalInv'
  BY <1>1, <1>3, Histories DEF MarkerInv, SignalInv
<1>5. RunInv'
  BY <1>1 DEF RunInv, Escalates
<1>6. QED
  BY <1>4, <1>5 DEF Order

\* No order of looks, crashes and reboots lets a run write or signal twice.
THEOREM OrderStep == Inv /\ [Next]_vars => Order'
<1> SUFFICES ASSUME Inv, [Next]_vars PROVE Order'
  OBVIOUS
<1>1. CASE Blinded \/ Deadline \/ Crash
  <2>1. UNCHANGED <<boot, marker, signals>> /\ pc' = "idle"
    BY <1>1 DEF Blinded, Deadline, Crash, Refuse, Ends
  <2>2. QED
    BY <2>1, Ended
<1>2. QED
  BY <1>1, LookStep, TermStep, WatchStep, EscalationStep, IdleStep, RebootStep DEF Next, Step
-----------------------------------------------------------------------------
(* The properties.                                                          *)

\* All that was sent went to the desktop the marker names, TERM before KILL.
LEMMA Targets ==
  ASSUME SignalInv
  PROVE  \A i \in DOMAIN signals :
           /\ signals[i][2] = marker.before
           /\ \/ i = 1 /\ signals[i][1] = "TERM"
              \/ i = 2 /\ signals[i][1] = "KILL" /\ signals = Killed(marker.before)
<1> DEFINE p == marker.before
<1>1. Asked(p) \in Seq({"TERM", "KILL"} \X {p}) /\ Len(Asked(p)) = 1
      /\ Asked(p)[1] = <<"TERM", p>>
  BY DEF Asked
<1>2. /\ Killed(p) \in Seq({"TERM", "KILL"} \X {p}) /\ Len(Killed(p)) = 2
      /\ Killed(p)[1] = <<"TERM", p>> /\ Killed(p)[2] = <<"KILL", p>>
  BY <1>1, AppendProperties DEF Killed
<1>3. DOMAIN Asked(p) = {1} /\ DOMAIN Killed(p) = {1, 2}
  BY <1>1, <1>2
<1>4. CASE signals = <<>>
  BY <1>4
<1>5. CASE signals = Asked(p)
  BY <1>1, <1>3, <1>5
<1>6. CASE signals = Killed(p)
  BY <1>2, <1>3, <1>6
<1>7. QED
  BY <1>4, <1>5, <1>6 DEF SignalInv

\* Success is only reported on another desktop that completed flips since.
LEMMA VerifiedStep ==
  ASSUME Inv, [Next]_vars
  PROVE  VerifiedIsNew'
<1>1. TypeOK /\ RunInv /\ SignalInv /\ VerifiedIsNew
  BY DEF Inv
<1>2. CASE Watch /\ result' = "verified"
  <2>1. /\ pc = "watch" /\ result = "none" /\ marker.before = current.pid /\ signals # <<>>
    BY <1>1, <1>2 DEF Watch, Sees, Observing, RunInv
  <2>2. /\ Observed.pid # current.pid /\ previous # NoSample /\ progressing(previous, Observed)
        /\ previous' = Observed /\ UNCHANGED signals
    BY <1>2, <2>1 DEF Watch
  <2>3. Observed \in Samples /\ previous \in Samples
    BY <1>1, <1>2, <2>2, ObservedType DEF Watch, TypeOK
  <2>4. previous'.frame.completed > 0
    BY <2>2, <2>3, HandoffAssumption DEF progressing, Samples, Frames
  <2>5. \A i \in DOMAIN signals : signals[i][2] # previous'.pid
    BY <1>1, <2>1, <2>2, Targets
  <2>6. QED
    BY <2>1, <2>2, <2>4, <2>5 DEF VerifiedIsNew
<1>3. CASE Start \/ Reboot
  BY <1>3 DEF Start, Reboot, Ends, VerifiedIsNew
<1>4. CASE Desktop \/ UNCHANGED vars
  BY <1>1, <1>4 DEF Desktop, ServerExits, ServerStarts, ServerDisplays, VerifiedIsNew
<1>5. CASE (Step \/ Crash) /\ ~(Watch /\ result' = "verified")
  <2>1. pc # "idle"
    BY <1>5 DEF Step, Crash, ReadRegistry, First, Second, Current, Blinded, Blind, SaveTermIntent,
       Term, TimePasses, Waits, Watch, WatchFails, Deadline, Stuck, Stuck2, SaveForceIntent,
       ForceKill, Sees, Observing, Watching
  <2>2. result = "none"
    BY <1>1, <2>1 DEF RunInv
  <2>3. result' # "verified"
    <3>1. CASE ReadRegistry \/ First \/ Second \/ Current \/ Blinded \/ Crash \/ Deadline
      BY <2>2, <3>1 DEF ReadRegistry, First, Second, Current, Blinded, Crash, Deadline, Refuse, Ends
    <3>2. CASE SaveTermIntent \/ Term \/ TimePasses \/ WatchFails \/ SaveForceIntent \/ ForceKill
      BY <2>2, <3>2 DEF SaveTermIntent, Term, TimePasses, WatchFails, SaveForceIntent, ForceKill,
         Refuse, Ends
    <3>3. CASE Stuck \/ Stuck2
      BY <2>2, <3>3 DEF Stuck, Stuck2, Refuse, Ends
    <3>4. QED
      BY <1>5, <3>1, <3>2, <3>3 DEF Step
  <2>4. QED
    BY <2>3 DEF VerifiedIsNew
<1>6. QED
  BY <1>2, <1>3, <1>4, <1>5 DEF Next

\* The invariant of the script, its marker and its signals is inductive.
THEOREM InvStep == Inv /\ [Next]_vars => Inv'
  BY TypeStep, OrderStep, VerifiedStep DEF Inv, Order

\* Crashes, reruns and reboots keep the invariant.
THEOREM Invariance == Spec => []Inv
  BY InvInit, InvStep, PTL DEF Spec

\* The variables of script, marker and desktop keep their types.
THEOREM TypeCorrect == Spec => []TypeOK
<1>1. Inv => TypeOK
  BY DEF Inv
<1>2. QED
  BY <1>1, Invariance, PTL

\* "Never restart twice in the same boot", over every run, crash and rerun.
THEOREM NeverTwice == Spec => []OneDesktopEnded
<1>1. Inv => OneDesktopEnded
  BY Targets DEF Inv, OneDesktopEnded
<1>2. QED
  BY <1>1, Invariance, PTL

\* What was signalled in this boot is covered by the marker on disk.
THEOREM IntentComesFirst == Spec => []IntentOnDisk
<1>1. Inv => IntentOnDisk
  <2> SUFFICES ASSUME Inv, NEW i \in DOMAIN signals
               PROVE  /\ marker.boot = boot
                      /\ marker.before = signals[i][2]
                      /\ signals[i][1] = "KILL" => marker.phase \in {"force-intent", "verified"}
    BY DEF IntentOnDisk
  <2>1. signals # <<>>
    OBVIOUS
  <2>2. QED
    BY <2>1, Targets DEF Inv, SignalInv
<1>2. QED
  BY <1>1, Invariance, PTL

\* A verified handoff has brought another desktop that completes flips.
THEOREM VerifiedIsAnother == Spec => []VerifiedIsNew
<1>1. Inv => VerifiedIsNew
  BY DEF Inv
<1>2. QED
  BY <1>1, Invariance, PTL
=============================================================================
