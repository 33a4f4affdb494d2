------------------------------- MODULE Handoff -------------------------------
(* desktop_handoff.py: one run of igpu-start ends the WindowServer that is   *)
(* not bound to the native framebuffer, at most once per boot, and waits for *)
(* a new one that completes flips.  Runs may crash between any two steps and *)
(* be started again, and the machine may reboot; WindowServer exits, ignores *)
(* the request, is replaced, is bound and flips at any moment.              *)
(*                                                                          *)
(* A WindowServer process (pid and start time) is a number, never reused.    *)
EXTENDS Naturals, Sequences

CONSTANTS
    MaxProcesses, MaxFlips, MaxBoots, MaxRuns,   \* bounds
    LegacyMarkers                                \* a previous version's markers

ASSUME HandoffAssumption ==
    /\ {MaxProcesses, MaxBoots} \subseteq Nat \ {0}   \* a first of each
    /\ {MaxFlips, MaxRuns} \subseteq Nat

VARIABLES
    boot,
    server,       \* running WindowServer, 0 if there is not exactly one
    started,      \* processes started so far
    frame,        \* power and flip counters of the native framebuffer
    marker,       \* MARKER on disk
    \* the run
    pc, runs,
    registry,     \* registry read of an unfinished snapshot
    first, second, current, previous, stalled,
    resume, forced,
    clock,        \* "early", "force" (15 s passed), "over" (120 s passed)
    result,
    \* history of this boot
    signals       \* signal and target of each kill

worldVars == <<boot, server, started, frame>>
sampleVars == <<first, second, current, previous, stalled>>
controlVars == <<resume, forced, clock, result>>
runVars == <<runs, sampleVars, controlVars>>
vars == <<worldVars, marker, pc, registry, runVars, signals>>

Dark == [power |-> 0, submitted |-> 0, completed |-> 0]
Frames == [power : {0, 2}, submitted : 0..MaxFlips, completed : 0..MaxFlips]
NoFrame == [power |-> 1, submitted |-> 0, completed |-> 0]
Samples == [pid : 1..MaxProcesses, frame : Frames]
NoSample == [pid |-> 0, frame |-> Dark]

Phases == {"legacy", "term-intent", "force-intent", "verified"}
\* `timeout`: the evidence directory holds the previous version's timeout.
Markers == [boot : 0..MaxBoots, before : 1..MaxProcesses, phase : Phases,
            timeout : BOOLEAN]
NoMarker == [boot |-> 0, before |-> 0, phase |-> "none", timeout |-> FALSE]

----------------------------------------------------------------------------
(* The desktop.                                                              *)

ServerExits ==
    /\ server # 0
    /\ server' = 0
    /\ frame' \in {frame, [frame EXCEPT !.power = 0]}
    /\ UNCHANGED <<boot, started, marker, pc, registry, runVars, signals>>

ServerStarts ==
    /\ server = 0
    /\ started < MaxProcesses
    /\ started' = started + 1
    /\ server' = started'
    /\ UNCHANGED <<boot, frame, marker, pc, registry, runVars, signals>>

\* Binding, submitting and completing flips.
ServerDisplays ==
    /\ server # 0
    /\ \/ frame' = [frame EXCEPT !.power = 2]
       \/ /\ frame.power = 2
          /\ frame.submitted < MaxFlips
          /\ frame' = [frame EXCEPT !.submitted = @ + 1]
       \/ /\ frame.completed < frame.submitted
          /\ frame' = [frame EXCEPT !.completed = @ + 1]
    /\ UNCHANGED <<boot, server, started, marker, pc, registry, runVars, signals>>

----------------------------------------------------------------------------
(* snapshot: the registry is read first, then the process list.              *)

Watching == {"first", "second", "current", "watch", "stuck", "stuck2"}

ReadRegistry ==
    /\ pc \in Watching
    /\ registry = NoFrame
    /\ pc = "watch" => clock # "over"
    /\ registry' = frame
    /\ UNCHANGED <<worldVars, marker, pc, runVars, signals>>

\* What a snapshot finished now yields; it fails without exactly one server.
Observed == [pid |-> server, frame |-> registry]

Observing(at) == pc = at /\ registry # NoFrame /\ registry' = NoFrame
Sees(at) == Observing(at) /\ server # 0
Blind(at) == Observing(at) /\ server = 0

progressing(a, b) ==
    /\ a.pid = b.pid
    /\ a.frame.power = 2
    /\ b.frame.power = 2
    /\ b.frame.completed > a.frame.completed
    /\ b.frame.submitted >= b.frame.completed
    /\ a.frame.submitted >= a.frame.completed

Unbound(s) == s.frame.power = 0 /\ s.frame.completed = 0

Ends(outcome) == pc' = "idle" /\ result' = outcome

\* Any exception ends the run; what it wrote stays.
Refuse == Ends("refused") /\ UNCHANGED <<resume, forced, clock>>

Kill(signal, target) ==
    signals' = Append(signals, <<signal, target>>)

----------------------------------------------------------------------------
(* ensure_desktop.                                                           *)

Start ==
    /\ pc = "idle"
    /\ runs < MaxRuns
    /\ runs' = runs + 1
    /\ pc' = "first"
    /\ registry' = NoFrame
    /\ first' = NoSample /\ second' = NoSample /\ current' = NoSample
    /\ previous' = NoSample /\ stalled' = NoSample
    /\ resume' = FALSE /\ forced' = FALSE /\ clock' = "early"
    /\ result' = "none"
    /\ UNCHANGED <<worldVars, marker, signals>>

First ==
    /\ Sees("first")
    /\ first' = Observed
    /\ pc' = "second"
    /\ UNCHANGED <<worldVars, marker, runs, second, current, previous, stalled,
                   controlVars, signals>>

\* The marker of this boot allows only the escalation of a recorded timeout.
Attempted(m) == m.boot = boot

\* Mutant: every intent of this boot is taken up again.
ResumesIntent(m) == m.before = second'.pid

Resumes(m) == m.phase = "legacy" /\ m.timeout /\ m.before = second'.pid

Second ==
    /\ Sees("second")
    /\ second' = Observed
    /\ resume' = Attempted(marker)
    /\ IF progressing(first, second')
       THEN Ends("progressing")
       ELSE IF /\ Unbound(second')
               /\ first.pid = second'.pid
               /\ Attempted(marker) => Resumes(marker)
       THEN pc' = "current" /\ UNCHANGED result
       ELSE Ends("refused")
    /\ UNCHANGED <<worldVars, marker, runs, first, current, previous, stalled,
                   forced, clock, signals>>

\* The third look must equal the second; then the intent is written, and only
\* then the signal is sent.
Current ==
    /\ Sees("current")
    /\ current' = Observed
    /\ IF current' = second
       THEN /\ pc' = IF resume THEN "stuck" ELSE "save"
            /\ forced' = resume
            /\ UNCHANGED <<resume, clock, result>>
       ELSE Refuse
    /\ UNCHANGED <<worldVars, marker, runs, first, second, previous, stalled,
                   signals>>

Blinded ==
    /\ \E at \in Watching \ {"watch"} : Blind(at)
    /\ Refuse
    /\ UNCHANGED <<worldVars, marker, runs, sampleVars, signals>>

\* Mutant: the marker of an earlier boot is kept.
SaveKeepsMarker ==
    /\ pc = "save"
    /\ marker' = IF marker = NoMarker
                 THEN [boot |-> boot, before |-> current.pid,
                       phase |-> "term-intent", timeout |-> FALSE]
                 ELSE marker
    /\ pc' = "term"
    /\ UNCHANGED <<worldVars, registry, runVars, signals>>

\* save_marker is atomic: a temporary file, synced, takes the place.
SaveTermIntent ==
    /\ pc = "save"
    /\ marker' = [boot |-> boot, before |-> current.pid, phase |-> "term-intent",
                  timeout |-> FALSE]
    /\ pc' = "term"
    /\ UNCHANGED <<worldVars, registry, runVars, signals>>

\* os.kill fails if the process is gone, which ends the run.
Term ==
    /\ pc = "term"
    /\ IF server = current.pid
       THEN /\ Kill("TERM", server)
            /\ pc' = "watch"
            /\ UNCHANGED controlVars
       ELSE Refuse /\ UNCHANGED signals
    /\ UNCHANGED <<worldVars, marker, registry, runs, sampleVars>>

\* The loop and the escalation take time.
Waits == pc \in {"watch", "stuck", "stuck2", "force-save", "kill"}

TimePasses ==
    /\ Waits
    /\ clock # "over"
    /\ clock' = IF clock = "early" THEN "force" ELSE "over"
    /\ UNCHANGED <<worldVars, marker, pc, registry, runs, sampleVars, resume,
                   forced, result, signals>>

\* One iteration of the loop that saw a desktop.
Watch ==
    /\ Sees("watch")
    /\ IF Observed.pid # current.pid /\ previous # NoSample
          /\ progressing(previous, Observed)
       THEN /\ marker' = [marker EXCEPT !.phase = "verified"]
            /\ Ends("verified")
            /\ UNCHANGED forced
       ELSE /\ IF ~forced /\ clock # "early" /\ Observed.pid = current.pid
               THEN pc' = "stuck" /\ forced' = TRUE
               ELSE UNCHANGED <<pc, forced>>
            /\ UNCHANGED <<marker, result>>
    /\ previous' = Observed
    /\ UNCHANGED <<worldVars, runs, first, second, current, stalled, resume,
                   clock, signals>>

\* An iteration that saw none: the error is noted, and the loop goes on.
WatchFails ==
    /\ Blind("watch")
    /\ UNCHANGED <<worldVars, marker, pc, runVars, signals>>

\* Mutant: the deadline is looked at after a desktop was seen.
DeadlineSeen ==
    /\ pc = "watch"
    /\ clock = "over"
    /\ server # 0
    /\ registry = NoFrame
    /\ Ends("timeout")
    /\ UNCHANGED <<worldVars, marker, registry, runs, sampleVars, resume, forced,
                   clock, signals>>

Deadline ==
    /\ pc = "watch"
    /\ clock = "over"
    /\ registry = NoFrame
    /\ Ends("timeout")
    /\ UNCHANGED <<worldVars, marker, registry, runs, sampleVars, resume, forced,
                   clock, signals>>

----------------------------------------------------------------------------
(* force_stuck_exit.                                                         *)

Stuck ==
    /\ Sees("stuck")
    /\ stalled' = Observed
    /\ IF Observed.pid = marker.before /\ Unbound(Observed)
       THEN pc' = "stuck2" /\ UNCHANGED controlVars
       ELSE Refuse
    /\ UNCHANGED <<worldVars, marker, runs, first, second, current, previous,
                   signals>>

\* After the stack was sampled nothing may have changed.
StillStalled == Observed = stalled

Stuck2 ==
    /\ Sees("stuck2")
    /\ IF StillStalled THEN pc' = "force-save" /\ UNCHANGED controlVars
                       ELSE Refuse
    /\ UNCHANGED <<worldVars, marker, runs, sampleVars, signals>>

SaveForceIntent ==
    /\ pc = "force-save"
    /\ marker' = [marker EXCEPT !.phase = "force-intent"]
    /\ pc' = "kill"
    /\ UNCHANGED <<worldVars, registry, runVars, signals>>

ForceKill ==
    /\ pc = "kill"
    /\ IF server = stalled.pid
       THEN /\ Kill("KILL", server)
            /\ pc' = "watch"
            /\ UNCHANGED controlVars
       ELSE Refuse /\ UNCHANGED signals
    /\ UNCHANGED <<worldVars, marker, registry, runs, sampleVars>>

----------------------------------------------------------------------------
(* The run is killed, or the machine reboots.                                *)

Crash ==
    /\ pc # "idle"
    /\ Ends("crashed")
    /\ UNCHANGED <<worldVars, marker, registry, runs, sampleVars, resume, forced,
                   clock, signals>>

Reboot ==
    /\ boot < MaxBoots
    /\ boot' = boot + 1
    /\ server' = 0
    /\ frame' = Dark
    /\ marker' \in {marker, NoMarker}   \* /private/var/run may be emptied
    /\ Ends("crashed")
    /\ signals' = <<>>
    /\ UNCHANGED <<started, registry, runs, sampleVars, resume, forced, clock>>

----------------------------------------------------------------------------
Init ==
    /\ boot = 1
    /\ started = 1
    /\ server = 1
    /\ frame = Dark
    /\ marker \in {NoMarker} \cup
          (IF LegacyMarkers
           THEN [boot : {1}, before : {1}, phase : {"legacy"}, timeout : BOOLEAN]
           ELSE {})
    /\ pc = "idle"
    /\ runs = 0
    /\ registry = NoFrame
    /\ first = NoSample /\ second = NoSample /\ current = NoSample
    /\ previous = NoSample /\ stalled = NoSample
    /\ resume = FALSE /\ forced = FALSE /\ clock = "early"
    /\ result = "none"
    \* the previous version sent its TERM before it wrote the timeout
    /\ signals = IF marker = NoMarker THEN <<>> ELSE <<(<<"TERM", 1>>)>>

Desktop == ServerExits \/ ServerStarts \/ ServerDisplays

Step ==
    \/ ReadRegistry \/ First \/ Second \/ Current \/ Blinded
    \/ SaveTermIntent \/ Term \/ TimePasses \/ Watch \/ WatchFails \/ Deadline
    \/ Stuck \/ Stuck2 \/ SaveForceIntent \/ ForceKill

Next == Desktop \/ Start \/ Step \/ Crash \/ Reboot

Spec == Init /\ [][Next]_vars

\* A run goes on until it ends, and the clock does not stand still.
FairSpec == Spec /\ WF_vars(Step) /\ WF_vars(TimePasses)

----------------------------------------------------------------------------
TypeOK ==
    /\ boot \in 1..MaxBoots
    /\ {server, started} \subseteq 0..MaxProcesses
    /\ frame \in Frames
    /\ marker \in Markers \cup {NoMarker}
    /\ registry \in Frames \cup {NoFrame}
    /\ {first, second, current, previous, stalled} \subseteq Samples \cup {NoSample}
    /\ {resume, forced} \subseteq BOOLEAN
    /\ clock \in {"early", "force", "over"}
    /\ pc \in Watching \cup {"idle", "save", "term", "force-save", "kill"}
    /\ result \in {"none", "progressing", "refused", "timeout", "crashed", "verified"}
    /\ runs \in 0..MaxRuns

\* "Never restart twice in the same boot": over every run, crash and rerun of
\* a boot at most one WindowServer is asked to end, once, and at most that one
\* is killed, once (desktop_handoff.py 1, 103-110, 125-127).
OneDesktopEnded ==
    \A i, j \in DOMAIN signals :
        /\ signals[i][2] = signals[j][2]
        /\ signals[i][1] = signals[j][1] => i = j

\* A signal sent in this boot is covered by what the disk says, whenever the
\* run dies (103-106, 40-43).
IntentOnDisk ==
    \A i \in DOMAIN signals :
        /\ marker.boot = boot
        /\ marker.before = signals[i][2]
        /\ signals[i][1] = "KILL" => marker.phase \in {"force-intent", "verified"}

\* Success after a handoff means another WindowServer, and flips completed
\* after the signal (121-124).
VerifiedIsNew ==
    result = "verified" =>
        /\ signals # <<>>
        /\ \A i \in DOMAIN signals : signals[i][2] # previous.pid
        /\ previous.frame.completed > 0

\* A run ends, also when no WindowServer ever returns (111-129).
RunEnds == pc # "idle" ~> pc = "idle"
=============================================================================
