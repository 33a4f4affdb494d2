-------------------------- MODULE RecorderCapture --------------------------
(***************************************************************************)
(* The flight recorder's two processes: the daemon (CaptureGate and the    *)
(* child handling of main() in collector-v5/recorder.py) and the sampling  *)
(* worker (worker.m) it starts, reads through a pipe and asks for a        *)
(* capture with SIGUSR1.  Either may end at any point; a call of the       *)
(* worker into the driver may never return, and such a worker cannot be    *)
(* killed.  A worker outlives the daemon that started it.                  *)
(*                                                                         *)
(* A slot stands for a process identifier that is not used again while     *)
(* anybody remembers it.  The two limits of 60 s and the 10 s delay run    *)
(* out at any time; sample lines and the log child are left out.           *)
(***************************************************************************)
EXTENDS Naturals, Sequences, FiniteSets, FiniteSetsExt, Functions

CONSTANTS
    Slots,         \* process identifiers a worker may have
    Nobody,
    PipeLines,     \* lines the pipe holds before a write waits
    MaxExits,      \* bound: exits of workers on an error
    MaxCrashes     \* bound: ends of the daemon

ASSUME SlotsAssumption == Nobody \notin Slots /\ PipeLines \in Nat \ {0}

VARIABLES
    \* daemon
    up,            \* it runs
    child,         \* children['worker']
    ready,         \* gate.ready_pid
    open,          \* 60 s have passed since gate.last
    delayed,       \* next_start['worker'] is in the future
    sending,       \* between the checks of request and its kill
    \* worker processes
    pc,
    requested,     \* the flag of the handler
    cooled,        \* 60 s have passed since lastCapture
    lock,          \* holder of reims-gpu-recorder-worker.lock
    file,          \* the capture file a worker wrote last
    pipe,          \* lines of the child the daemon has not read
    \* capture files
    scratch,       \* those in the scratch directory: no incident holds them
    orphans,       \* history: those whose line is lost
    killed,        \* history: a worker died of SIGUSR1
    owed,          \* history: signalled and no capture begun since
    exits, crashes \* counters of the bounds

daemonVars == <<up, child, ready, open, delayed, sending>>
workerVars == <<pc, requested, cooled, lock, file>>
fileVars == <<scratch, orphans>>
vars == <<daemonVars, workerVars, pipe, fileVars, killed, owed, exits, crashes>>

Free == "free"
Dead == "dead"      \* exited, not yet reaped by poll()
Stuck == "stuck"    \* in a call into the driver that does not return
Holding == {"locked", "armed", "loop", "clear", "endpoint", "save", "line", Stuck}
Handling == Holding \ {"locked"}
Stages == Holding \cup {Free, Dead, "start"}

\* A line is the name of a capture, a number from 1, or the pid line.
ReadyLine == 0
Reported == Range(pipe) \ {ReadyLine}

Init ==
    /\ up = TRUE /\ child = Nobody /\ ready = Nobody
    /\ open = TRUE /\ delayed = FALSE /\ sending = FALSE
    /\ pc = [w \in Slots |-> Free] /\ requested = [w \in Slots |-> FALSE]
    /\ cooled = [w \in Slots |-> TRUE] /\ lock = Nobody /\ pipe = <<>>
    /\ scratch = {} /\ orphans = {} /\ file = [w \in Slots |-> 0]
    /\ killed = FALSE /\ owed = [w \in Slots |-> FALSE]
    /\ exits = 0 /\ crashes = 0

---------------------------------------------------------------------------
(* The daemon; it has one thread. *)

Running == up /\ ~sending

Spawn(w) ==
    /\ Running /\ child = Nobody /\ ~delayed /\ pc[w] = Free
    /\ child' = w /\ pipe' = <<>>
    /\ ready' = IF ready = w THEN Nobody ELSE ready
    /\ pc' = [pc EXCEPT ![w] = "start"]
    /\ requested' = [requested EXCEPT ![w] = FALSE]
    /\ cooled' = [cooled EXCEPT ![w] = TRUE]
    /\ owed' = [owed EXCEPT ![w] = FALSE]
    /\ UNCHANGED <<up, open, delayed, sending, lock, file, fileVars, killed, exits, crashes>>

\* Mutant: a line is read and the file left where it is.
ReadOnly ==
    /\ Running /\ child # Nobody /\ pipe # <<>>
    /\ pipe' = Tail(pipe)
    /\ ready' = IF Head(pipe) = ReadyLine THEN child ELSE ready
    /\ UNCHANGED <<up, child, open, delayed, sending, workerVars, fileVars,
                   killed, owed, exits, crashes>>

\* One line of the child: its pid, or the name of a capture to file.
Read ==
    /\ Running /\ child # Nobody /\ pipe # <<>>
    /\ pipe' = Tail(pipe)
    /\ ready' = IF Head(pipe) = ReadyLine THEN child ELSE ready
    /\ scratch' = scratch \ {Head(pipe)}
    /\ UNCHANGED <<up, child, open, delayed, sending, workerVars, orphans,
                   killed, owed, exits, crashes>>

\* Mutant: the child of an ended process is not forgotten.
ReapForgets ==
    /\ Running /\ child # Nobody /\ pc[child] = Dead
    /\ pc' = [pc EXCEPT ![child] = Free]
    /\ delayed' = TRUE
    /\ pipe' = <<>> /\ orphans' = orphans \cup Reported
    /\ UNCHANGED <<up, child, ready, open, sending, requested, cooled, lock, file, scratch,
                   killed, owed, exits, crashes>>

\* poll() has seen the child's end: the pipe is closed, read or not.
Reap ==
    /\ Running /\ child # Nobody /\ pc[child] = Dead
    /\ pc' = [pc EXCEPT ![child] = Free]
    /\ child' = Nobody /\ delayed' = TRUE
    /\ pipe' = <<>> /\ orphans' = orphans \cup Reported
    /\ UNCHANGED <<up, ready, open, sending, requested, cooled, lock, file, scratch,
                   killed, owed, exits, crashes>>

\* Mutant: the pid line is not waited for.
MayRequestEarly == child # Nobody /\ pc[child] # Dead /\ open

\* CaptureGate.request up to its send.
MayRequest == child # Nobody /\ pc[child] # Dead /\ ready = child /\ open
Request ==
    /\ Running /\ MayRequest
    /\ sending' = TRUE
    /\ UNCHANGED <<up, child, ready, open, delayed, workerVars, pipe, fileVars,
                   killed, owed, exits, crashes>>

\* SIGUSR1 ends a worker that has no handler yet; a zombie takes it silently.
Send ==
    LET w == child
    IN  /\ up /\ sending
        /\ sending' = FALSE /\ open' = FALSE
        /\ requested' = [requested EXCEPT ![w] = @ \/ pc[w] \in Handling]
        /\ owed' = [owed EXCEPT ![w] = @ \/ pc[w] \in Handling]
        /\ killed' = (killed \/ pc[w] \in {"start", "locked"})
        /\ pc' = IF pc[w] \in {"start", "locked"} THEN [pc EXCEPT ![w] = Dead] ELSE pc
        /\ lock' = IF pc[w] = "locked" THEN Nobody ELSE lock
        /\ UNCHANGED <<up, child, ready, delayed, cooled, file, pipe, fileVars, exits, crashes>>

\* The limits run out.
Opens == up /\ ~open /\ open' = TRUE /\ UNCHANGED <<up, child, ready, delayed, sending,
             workerVars, pipe, fileVars, killed, owed, exits, crashes>>
Due == up /\ delayed /\ delayed' = FALSE /\ UNCHANGED <<up, child, ready, open, sending,
             workerVars, pipe, fileVars, killed, owed, exits, crashes>>

\* The daemon ends: a crash, or stop and close() with a SIGTERM for the child,
\* which a worker inside the driver does not take.
EndDaemon(term) ==
    /\ up /\ crashes < MaxCrashes /\ crashes' = crashes + 1
    /\ up' = FALSE /\ child' = Nobody /\ ready' = Nobody
    /\ open' = TRUE /\ delayed' = FALSE /\ sending' = FALSE
    /\ pipe' = <<>>
    /\ LET ends == {w \in Slots : w = child /\ (pc[w] = Dead \/ (term /\ pc[w] # Stuck))}
       IN  /\ pc' = [w \in Slots |-> IF w \in ends THEN Free ELSE pc[w]]
           /\ lock' = IF lock \in ends THEN Nobody ELSE lock
           /\ orphans' = orphans \cup Reported
                           \cup {file[w] : w \in {v \in ends : pc[v] = "line"}}
    /\ UNCHANGED <<requested, cooled, file, scratch, killed, owed, exits>>
StartDaemon ==
    /\ ~up /\ up' = TRUE
    /\ UNCHANGED <<child, ready, open, delayed, sending, workerVars, pipe, fileVars,
                   killed, owed, exits, crashes>>

---------------------------------------------------------------------------
(* The worker. *)

Piped(w) == up /\ child = w
Full == Len(pipe) >= PipeLines
Goes(w, from, to) == pc[w] = from /\ pc' = [pc EXCEPT ![w] = to]
Others == <<daemonVars, killed, exits, crashes>>

Ends(w) ==
    /\ pc' = [pc EXCEPT ![w] = IF Piped(w) THEN Dead ELSE Free]
    /\ lock' = IF lock = w THEN Nobody ELSE lock
    /\ orphans' = IF pc[w] = "line" THEN orphans \cup {file[w]} ELSE orphans
    /\ UNCHANGED <<daemonVars, requested, cooled, file, pipe, scratch, killed, owed, crashes>>

\* open and flock: the second worker exits with 7.
Lock(w) ==
    /\ pc[w] = "start"
    /\ \/ /\ lock = Nobody /\ lock' = w /\ Goes(w, "start", "locked")
          /\ UNCHANGED <<Others, requested, cooled, file, pipe, fileVars, owed>>
       \/ lock # Nobody /\ Ends(w) /\ UNCHANGED exits

\* sigaction, then the pid line.
Arm(w) == Goes(w, "locked", "armed")
          /\ UNCHANGED <<Others, requested, cooled, lock, file, pipe, fileVars, owed>>
Announce(w) ==
    /\ Goes(w, "armed", "loop") /\ Piped(w) /\ ~Full
    /\ pipe' = Append(pipe, ReadyLine)
    /\ UNCHANGED <<Others, requested, cooled, lock, file, fileVars, owed>>

\* One turn of the loop that decides on a capture, because of what it has
\* sampled or because it finds the flag set.
Decide(w) == Goes(w, "loop", "clear") /\ Piped(w) /\ cooled[w]
             /\ UNCHANGED <<Others, requested, cooled, lock, file, pipe, fileVars, owed>>
Find(w) == requested[w] /\ Decide(w)
Clear(w) ==
    /\ Goes(w, "clear", "endpoint") /\ Piped(w)
    /\ requested' = [requested EXCEPT ![w] = FALSE]
    /\ cooled' = [cooled EXCEPT ![w] = FALSE]
    /\ owed' = [owed EXCEPT ![w] = FALSE]
    /\ UNCHANGED <<Others, lock, file, pipe, fileVars>>
\* Mutant: the flag is cleared once more behind the snapshot.
EndpointClears(w) == Goes(w, "endpoint", "save")
                     /\ requested' = [requested EXCEPT ![w] = FALSE]
                     /\ UNCHANGED <<Others, cooled, lock, file, pipe, fileVars, owed>>
Endpoint(w) == Goes(w, "endpoint", "save")
               /\ UNCHANGED <<Others, requested, cooled, lock, file, pipe, fileVars, owed>>
\* The file is complete before its line is written.
Save(w) ==
    /\ Goes(w, "save", "line")
    /\ LET f == CHOOSE n \in 1..(Cardinality(scratch) + 1) : n \notin scratch
       IN  file' = [file EXCEPT ![w] = f] /\ scratch' = scratch \cup {f}
    /\ UNCHANGED <<Others, requested, cooled, lock, pipe, orphans, owed>>
Tell(w) ==
    /\ Goes(w, "line", "loop") /\ Piped(w) /\ ~Full
    /\ pipe' = Append(pipe, file[w])
    /\ UNCHANGED <<Others, requested, cooled, lock, file, fileVars, owed>>
Cool(w) ==
    /\ ~cooled[w] /\ pc[w] \in Holding /\ cooled' = [cooled EXCEPT ![w] = TRUE]
    /\ UNCHANGED <<Others, pc, requested, lock, file, pipe, fileVars, owed>>

\* The driver does not return.
Stick(w) == pc[w] \in {"loop", "endpoint"} /\ pc' = [pc EXCEPT ![w] = Stuck]
            /\ UNCHANGED <<Others, requested, cooled, lock, file, pipe, fileVars, owed>>
\* An error: no service, a property that cannot be read, a failed write.
Exit(w) == pc[w] \in Holding \ {Stuck} /\ exits < MaxExits /\ exits' = exits + 1 /\ Ends(w)
\* A write after the daemon is gone.
Broken(w) == pc[w] \in {"armed", "loop", "clear", "line"} /\ ~Piped(w) /\ Ends(w) /\ UNCHANGED exits

DaemonStep == (\E w \in Slots : Spawn(w)) \/ Read \/ Reap \/ Send \/ Opens \/ Due
WorkerStep(w) ==
    \/ Lock(w) \/ Arm(w) \/ Announce(w) \/ Find(w) \/ Clear(w) \/ Endpoint(w)
    \/ Save(w) \/ Tell(w) \/ Broken(w)
Next ==
    \/ DaemonStep \/ Request \/ (\E term \in BOOLEAN : EndDaemon(term)) \/ StartDaemon
    \/ \E w \in Slots : WorkerStep(w) \/ Decide(w) \/ Cool(w) \/ Stick(w) \/ Exit(w)

\* Every turn of the daemon's loop comes to each of its parts, whatever requests
\* the turn makes, a worker outside the driver is scheduled, and time passes.  Nothing says that a
\* request is made, an anomaly is sampled or that the daemon is started again.
Fairness ==
    /\ SF_vars(\E w \in Slots : Spawn(w)) /\ SF_vars(Read) /\ SF_vars(Reap)
    /\ WF_vars(Send) /\ WF_vars(Opens) /\ WF_vars(Due)
    /\ \A w \in Slots : WF_vars(WorkerStep(w)) /\ WF_vars(Cool(w))
Spec == Init /\ [][Next]_vars /\ Fairness

---------------------------------------------------------------------------
\* Every variable keeps its range.
TypeOK ==
    /\ up \in BOOLEAN /\ open \in BOOLEAN /\ delayed \in BOOLEAN /\ sending \in BOOLEAN
    /\ child \in Slots \cup {Nobody} /\ ready \in Slots \cup {Nobody}
    /\ pc \in [Slots -> Stages] /\ lock \in Slots \cup {Nobody}
    /\ requested \in [Slots -> BOOLEAN] /\ cooled \in [Slots -> BOOLEAN]
    /\ file \in [Slots -> Nat] /\ pipe \in Seq(Nat)
    /\ scratch \in SUBSET Nat /\ orphans \in SUBSET Nat
    /\ killed \in BOOLEAN /\ owed \in [Slots -> BOOLEAN]

\* SIGUSR1 never ends a worker: the daemon sends it only to the child whose pid
\* line it has read, and the handler is installed before that line is written
\* (recorder.py:43, worker.m:25-26).
SignalsHandled == ~killed

\* At most one worker talks to the driver, a stuck one of an earlier daemon
\* included: a kernel-blocked sampler is not replaced (recorder.py:154, 211).
OneSampler ==
    \A v, w \in Slots : (pc[v] \in Holding /\ pc[w] \in Holding) => v = w

\* Every capture file in the scratch directory is on its way to an incident,
\* its line unwritten or unread, unless the worker or the daemon ended with
\* that line (worker.m:64-65, recorder.py:143, 181-184).
FilesAccounted ==
    /\ scratch \ orphans = Reported \cup {file[w] : w \in {v \in Slots : pc[v] = "line"}}
    /\ orphans \subseteq scratch

\* A request that reached a worker is followed by a capture that begins after
\* it, however the worker's own captures and the two limits interleave, unless
\* the worker ends or the driver holds it (worker.m:49-53).
Answered ==
    \A w \in Slots : owed[w] ~> (~owed[w] \/ pc[w] \in {Dead, Free, Stuck})

\* While the daemon runs it always comes to have a worker that takes requests,
\* unless a worker is stuck in the driver (recorder.py:139-147, 153-156).
SamplerReturns ==
    []<>(\/ ~up \/ \E w \in Slots : pc[w] = Stuck
         \/ child # Nobody /\ ready = child /\ pc[child] \in Handling)
============================================================================
