----------------------- MODULE RecorderCapture_proofs -----------------------
(* Theorems about the flight recorder's daemon and its sampling workers, for  *)
(* any number of process identifiers, any pipe and any number of crashes.     *)
EXTENDS RecorderCapture, FiniteSetTheorems, SequenceTheorems, TLAPS

USE DEF daemonVars, workerVars, fileVars, vars

-----------------------------------------------------------------------------
(* The parts of the state that the properties relate.                         *)

\* The daemon has a child only while it runs, and reads from nobody else.
Parent == (child # Nobody => up) /\ (child = Nobody => pipe = <<>>)

\* A request is on its way to the child whose pid line was read.
Sends == sending => child # Nobody /\ ready = child

\* Whoever is past the lock holds it.
Locked == \A w \in Slots : pc[w] \in Holding => lock = w

\* A child that has written anything, or whose pid line was read, has its
\* handler or has ended.
Armed ==
    (child # Nobody /\ (pipe # <<>> \/ ready = child)) => pc[child] \in Handling \cup {Dead}

CaptureInv == TypeOK /\ Parent /\ Sends /\ Locked /\ Armed /\ ~killed

\* A move of a worker past the lock that touches no file and no pipe.
Moves(w, to) ==
    /\ pc[w] \in Holding /\ to \in Handling /\ to # "line" /\ pc[w] # "line"
    /\ pc' = [pc EXCEPT ![w] = to]
    /\ UNCHANGED <<daemonVars, lock, file, pipe, scratch, orphans, killed>>

\* A step that moves no worker and leaves files and pipe alone.
Still ==
    /\ pc' = pc /\ UNCHANGED <<lock, file, pipe, scratch, orphans, killed>>

-----------------------------------------------------------------------------
(* Type correctness.                                                          *)

\* The ranges of the parts hold at the start.
LEMMA InitTypes == Init => TypeOK
<1> SUFFICES ASSUME Init PROVE TypeOK
  OBVIOUS
<1>1. /\ up \in BOOLEAN /\ open \in BOOLEAN /\ delayed \in BOOLEAN /\ sending \in BOOLEAN
      /\ killed \in BOOLEAN
  BY DEF Init
<1>4. /\ child \in Slots \cup {Nobody} /\ ready \in Slots \cup {Nobody}
      /\ lock \in Slots \cup {Nobody}
  BY DEF Init
<1>5. pipe \in Seq(Nat) /\ scratch \in SUBSET Nat /\ orphans \in SUBSET Nat
  BY DEF Init
<1>2. pc \in [Slots -> Stages]
  BY DEF Init, Stages
<1>3. /\ requested \in [Slots -> BOOLEAN] /\ cooled \in [Slots -> BOOLEAN]
      /\ owed \in [Slots -> BOOLEAN] /\ file \in [Slots -> Nat]
  BY DEF Init
<1>6. QED
  BY <1>1, <1>2, <1>3, <1>4, <1>5 DEF TypeOK

\* The steps of the daemon keep them.
LEMMA DaemonTypes ==
    ASSUME TypeOK,
           \/ DaemonStep \/ Request \/ (\E term \in BOOLEAN : EndDaemon(term)) \/ StartDaemon
    PROVE  TypeOK'
<1>1. ASSUME NEW w \in Slots, Spawn(w) PROVE TypeOK'
  BY <1>1 DEF Spawn, TypeOK, Stages
<1>2. ASSUME pipe # <<>> PROVE Tail(pipe) \in Seq(Nat) /\ Head(pipe) \in Nat
  BY <1>2 DEF TypeOK
<1>3. CASE Read
  BY <1>2, <1>3 DEF Read, TypeOK
<1>4. CASE Reap
  <2>1. Reported \in SUBSET Nat
    BY DEF Reported, Range, TypeOK
  <2>2. child \in Slots
    BY <1>4 DEF Reap, TypeOK
  <2>3. QED
    BY <1>4, <2>1, <2>2 DEF Reap, TypeOK, Stages
<1>5. CASE Send
  <2>1. requested' \in [Slots -> BOOLEAN] /\ owed' \in [Slots -> BOOLEAN]
    BY <1>5 DEF Send, TypeOK
  <2>2. pc' \in [Slots -> Stages] /\ lock' \in Slots \cup {Nobody} /\ killed' \in BOOLEAN
    BY <1>5 DEF Send, TypeOK, Stages
  <2>3. QED
    BY <1>5, <2>1, <2>2 DEF Send, TypeOK
<1>6. CASE Opens \/ Due \/ Request \/ StartDaemon
  BY <1>6 DEF Opens, Due, Request, StartDaemon, TypeOK
<1>7. ASSUME NEW term \in BOOLEAN, EndDaemon(term) PROVE TypeOK'
  <2> DEFINE ends == {w \in Slots : w = child /\ (pc[w] = Dead \/ (term /\ pc[w] # Stuck))}
  <2>1. Reported \in SUBSET Nat /\ {file[w] : w \in {v \in ends : pc[v] = "line"}} \in SUBSET Nat
    BY DEF Reported, Range, TypeOK
  <2>2. /\ pc' = [w \in Slots |-> IF w \in ends THEN Free ELSE pc[w]]
        /\ lock' = IF lock \in ends THEN Nobody ELSE lock
        /\ orphans' = orphans \cup Reported
                        \cup {file[w] : w \in {v \in ends : pc[v] = "line"}}
    BY <1>7 DEF EndDaemon
  <2> HIDE DEF ends
  <2>3. pc' \in [Slots -> Stages] /\ lock' \in Slots \cup {Nobody} /\ orphans' \in SUBSET Nat
    BY <2>1, <2>2 DEF TypeOK, Stages
  <2>4. /\ up' = FALSE /\ child' = Nobody /\ ready' = Nobody
        /\ open' = TRUE /\ delayed' = FALSE /\ sending' = FALSE /\ pipe' = <<>>
        /\ requested' = requested /\ cooled' = cooled /\ file' = file /\ scratch' = scratch
        /\ killed' = killed /\ owed' = owed
    BY <1>7 DEF EndDaemon
  <2>5. /\ up' \in BOOLEAN /\ open' \in BOOLEAN /\ delayed' \in BOOLEAN
        /\ sending' \in BOOLEAN
    BY <2>4
  <2>6. /\ child' \in Slots \cup {Nobody} /\ ready' \in Slots \cup {Nobody}
        /\ pipe' \in Seq(Nat)
    BY <2>4
  <2>7. /\ requested' \in [Slots -> BOOLEAN] /\ cooled' \in [Slots -> BOOLEAN]
        /\ file' \in [Slots -> Nat] /\ scratch' \in SUBSET Nat
        /\ killed' \in BOOLEAN /\ owed' \in [Slots -> BOOLEAN]
    BY <2>4 DEF TypeOK
  <2>8. QED
    BY <2>3, <2>5, <2>6, <2>7 DEF TypeOK
<1>8. QED
  BY <1>1, <1>3, <1>4, <1>5, <1>6, <1>7 DEF DaemonStep

\* The name of a new capture file is not in use.
LEMMA FreshFile ==
    ASSUME IsFiniteSet(scratch)
    PROVE  LET f == CHOOSE n \in 1..(Cardinality(scratch) + 1) : n \notin scratch
           IN  f \in Nat \ {0} /\ f \notin scratch
<1> DEFINE c == Cardinality(scratch)
           N == 1..(c + 1)
<1>1. c \in Nat
  BY FS_CardinalityType
<1>2. IsFiniteSet(N) /\ Cardinality(N) = c + 1
  <2>1. 1 \in Int /\ c + 1 \in Int /\ 1 <= c + 1 /\ (c + 1) - 1 + 1 = c + 1
    BY <1>1
  <2> HIDE DEF c
  <2>2. QED
    BY <2>1, FS_Interval
<1>3. \E n \in N : n \notin scratch
  <2>1. SUFFICES ASSUME N \in SUBSET scratch PROVE FALSE
    OBVIOUS
  <2>2. Cardinality(N) <= Cardinality(scratch)
    BY <2>1, FS_Subset
  <2>3. QED
    BY <1>1, <1>2, <2>2
<1>4. QED
  BY <1>1, <1>3

\* A worker that ends keeps them.
LEMMA EndsTypes ==
    ASSUME TypeOK, NEW w \in Slots, Ends(w)
    PROVE  TypeOK'
<1>1. pc' \in [Slots -> Stages] /\ lock' \in Slots \cup {Nobody}
  BY DEF Ends, TypeOK, Stages
<1>2. orphans' \in SUBSET Nat
  BY DEF Ends, TypeOK
<1>3. QED
  BY <1>1, <1>2 DEF Ends, TypeOK

\* The steps of a worker keep them.
LEMMA WorkerTypes ==
    ASSUME TypeOK, IsFiniteSet(scratch), NEW w \in Slots,
           WorkerStep(w) \/ Decide(w) \/ Cool(w) \/ Stick(w) \/ Exit(w)
    PROVE  TypeOK'
<1> USE DEF Goes, Others
<1>1. CASE Lock(w)
  <2>1. CASE Ends(w)
    BY <2>1, EndsTypes
  <2>2. CASE lock' = w /\ Goes(w, "start", "locked")
             /\ UNCHANGED <<Others, requested, cooled, file, pipe, fileVars, owed>>
    BY <2>2 DEF TypeOK, Stages, Holding
  <2>3. QED
    BY <1>1, <2>1, <2>2 DEF Lock
<1>2. CASE Arm(w) \/ Endpoint(w)
  BY <1>2 DEF Arm, Endpoint, TypeOK, Stages, Holding
<1>3. CASE Announce(w)
  <2>1. pipe' \in Seq(Nat)
    BY <1>3 DEF Announce, TypeOK, ReadyLine
  <2>2. QED
    BY <1>3, <2>1 DEF Announce, TypeOK, Stages, Holding
<1>4. CASE Find(w) \/ Decide(w)
  BY <1>4 DEF Find, Decide, TypeOK, Stages, Holding
<1>5. CASE Clear(w)
  BY <1>5 DEF Clear, TypeOK, Stages, Holding
<1>6. CASE Tell(w)
  <2>1. pipe' \in Seq(Nat)
    BY <1>6 DEF Tell, TypeOK
  <2>2. QED
    BY <1>6, <2>1 DEF Tell, TypeOK, Stages, Holding
<1>7. CASE Cool(w) \/ Stick(w)
  BY <1>7 DEF Cool, Stick, TypeOK, Stages, Holding
<1>8. CASE Broken(w) \/ Exit(w)
  BY <1>8, EndsTypes DEF Broken, Exit
<1>9. CASE Save(w)
  <2> DEFINE f == CHOOSE n \in 1..(Cardinality(scratch) + 1) : n \notin scratch
  <2>1. f \in Nat
    BY FreshFile
  <2>2. file' = [file EXCEPT ![w] = f] /\ scratch' = scratch \cup {f}
    BY <1>9 DEF Save
  <2> HIDE DEF f
  <2>3. file' \in [Slots -> Nat] /\ scratch' \in SUBSET Nat
    BY <2>1, <2>2 DEF TypeOK
  <2>4. QED
    BY <1>9, <2>3 DEF Save, TypeOK, Stages, Holding
<1>10. QED
  BY <1>1, <1>2, <1>3, <1>4, <1>5, <1>6, <1>7, <1>8, <1>9 DEF WorkerStep

\* There are finitely many capture files.
LEMMA StepFinite ==
    ASSUME TypeOK, IsFiniteSet(scratch), [Next]_vars
    PROVE  IsFiniteSet(scratch')
<1>1. \/ scratch' = scratch
      \/ \E x : scratch' = scratch \ {x}
      \/ \E x : scratch' = scratch \cup {x}
  <2>1. CASE DaemonStep
    BY <2>1 DEF DaemonStep, Spawn, Read, Reap, Send, Opens, Due
  <2>2. CASE Request \/ (\E term \in BOOLEAN : EndDaemon(term)) \/ StartDaemon
    BY <2>2 DEF Request, EndDaemon, StartDaemon
  <2>3. ASSUME NEW w \in Slots, Save(w) PROVE \E x : scratch' = scratch \cup {x}
    BY <2>3 DEF Save
  <2>4. ASSUME NEW w \in Slots,
               WorkerStep(w) \/ Decide(w) \/ Cool(w) \/ Stick(w) \/ Exit(w)
        PROVE  scratch' = scratch \/ Save(w)
    BY <2>4 DEF WorkerStep, Lock, Arm, Announce, Find, Decide, Clear, Endpoint, Tell, Cool,
                Stick, Exit, Broken, Ends
  <2>5. QED
    BY <2>1, <2>2, <2>3, <2>4 DEF Next
<1>2. QED
  BY <1>1, FS_AddElement, FS_RemoveElement

\* Every step keeps the ranges.
LEMMA StepTypes == TypeOK /\ IsFiniteSet(scratch) /\ [Next]_vars => TypeOK'
<1> SUFFICES ASSUME TypeOK, IsFiniteSet(scratch), [Next]_vars PROVE TypeOK'
  OBVIOUS
<1>1. CASE UNCHANGED vars
  BY <1>1 DEF TypeOK
<1>2. CASE Next
  BY <1>2, DaemonTypes, WorkerTypes DEF Next
<1>3. QED
  BY <1>1, <1>2

\* Every variable keeps its range.
THEOREM TypeCorrect == Spec => []TypeOK
<1>1. Init => TypeOK /\ IsFiniteSet(scratch)
  BY InitTypes, FS_EmptySet DEF Init
<1>2. TypeOK /\ IsFiniteSet(scratch) /\ [Next]_vars => (TypeOK /\ IsFiniteSet(scratch))'
  BY StepTypes, StepFinite
<1>3. QED
  BY <1>1, <1>2, PTL DEF Spec

-----------------------------------------------------------------------------
(* What a worker does, in the terms of the invariants.                        *)

\* A worker gets the lock.
Takes(w) ==
    /\ pc[w] = "start" /\ lock = Nobody /\ lock' = w
    /\ pc' = [pc EXCEPT ![w] = "locked"]
    /\ UNCHANGED <<file, pipe, scratch, orphans>>

\* Every step of a worker is one of these, and leaves the daemon alone.
LEMMA WorkerKinds ==
    ASSUME NEW w \in Slots,
           WorkerStep(w) \/ Decide(w) \/ Cool(w) \/ Stick(w) \/ Exit(w)
    PROVE  /\ UNCHANGED <<up, child, ready, sending, killed>>
           /\ \/ Still \/ Takes(w) \/ (\E to \in Handling : Moves(w, to))
              \/ Announce(w) \/ Save(w) \/ Tell(w) \/ Ends(w)
<1> USE DEF Goes, Others, Handling, Holding
<1>1. CASE Lock(w)
  BY <1>1 DEF Lock, Takes, Ends
<1>2. CASE Arm(w)
  <2>1. Moves(w, "armed")
    BY <1>2 DEF Arm, Moves, Stuck
  <2>2. QED
    BY <1>2, <2>1 DEF Arm
<1>3. CASE Announce(w)
  BY <1>3 DEF Announce
<1>4. CASE Find(w) \/ Decide(w)
  <2>1. Moves(w, "clear")
    BY <1>4 DEF Find, Decide, Moves, Stuck
  <2>2. QED
    BY <1>4, <2>1 DEF Find, Decide
<1>5. CASE Clear(w)
  <2>1. Moves(w, "endpoint")
    BY <1>5 DEF Clear, Moves, Stuck
  <2>2. QED
    BY <1>5, <2>1 DEF Clear
<1>6. CASE Endpoint(w)
  <2>1. Moves(w, "save")
    BY <1>6 DEF Endpoint, Moves, Stuck
  <2>2. QED
    BY <1>6, <2>1 DEF Endpoint
<1>7. CASE Save(w)
  BY <1>7 DEF Save
<1>8. CASE Tell(w)
  BY <1>8 DEF Tell
<1>9. CASE Cool(w)
  BY <1>9 DEF Cool, Still
<1>10. CASE Stick(w)
  <2>1. Moves(w, Stuck)
    BY <1>10 DEF Stick, Moves, Stuck
  <2>2. Stuck \in Handling
    BY DEF Stuck
  <2>3. QED
    BY <1>10, <2>1, <2>2 DEF Stick
<1>11. CASE Broken(w) \/ Exit(w)
  BY <1>11 DEF Broken, Exit, Ends
<1>12. QED
  BY <1>1, <1>2, <1>3, <1>4, <1>5, <1>6, <1>7, <1>8, <1>9, <1>10, <1>11 DEF WorkerStep

\* The stages are told apart.
LEMMA StageNames ==
    /\ Free \notin Holding /\ Dead \notin Holding /\ "start" \notin Holding
    /\ Handling \subseteq Holding /\ "locked" \in Holding \ Handling
    /\ {"armed", "loop", "save", "line"} \subseteq Handling
    /\ Dead \notin Handling /\ Dead # "locked" /\ Dead # "start" /\ Free # "start"
    /\ Free # Dead /\ "line" \in Holding /\ Stuck # "line" /\ Stuck # "start"
  BY DEF Free, Dead, Stuck, Holding, Handling

-----------------------------------------------------------------------------
(* Locks and signals.                                                         *)

\* A worker keeps what relates it to the daemon.
LEMMA WorkerCapture ==
    ASSUME CaptureInv, NEW w \in Slots,
           WorkerStep(w) \/ Decide(w) \/ Cool(w) \/ Stick(w) \/ Exit(w)
    PROVE  Parent' /\ Sends' /\ Locked' /\ Armed' /\ ~killed'
<1> USE StageNames, SlotsAssumption
<1>0. /\ UNCHANGED <<up, child, ready, sending, killed>>
      /\ pc \in [Slots -> Stages]
      /\ Parent /\ Sends /\ Locked /\ Armed /\ ~killed
  BY WorkerKinds DEF CaptureInv, TypeOK
<1>1. Sends' /\ ~killed'
  BY <1>0 DEF Sends
<1>2. CASE Still
  BY <1>0, <1>1, <1>2 DEF Still, Parent, Locked, Armed
<1>3. CASE Takes(w)
  BY <1>0, <1>1, <1>3 DEF Takes, Parent, Locked, Armed
<1>4. ASSUME NEW to \in Handling, Moves(w, to) PROVE Parent' /\ Locked' /\ Armed'
  BY <1>0, <1>4 DEF Moves, Parent, Locked, Armed
<1>5. CASE Announce(w)
  <2>1. /\ pc[w] = "armed" /\ pc' = [pc EXCEPT ![w] = "loop"] /\ up /\ child = w
        /\ lock' = lock
    BY <1>5 DEF Announce, Goes, Piped
  <2>2. QED
    BY <1>0, <1>1, <2>1 DEF Parent, Locked, Armed
<1>6. CASE Save(w)
  <2>1. /\ pc[w] = "save" /\ pc' = [pc EXCEPT ![w] = "line"] /\ lock' = lock /\ pipe' = pipe
    BY <1>6 DEF Save, Goes
  <2>2. QED
    BY <1>0, <1>1, <2>1 DEF Parent, Locked, Armed
<1>7. CASE Tell(w)
  <2>1. /\ pc[w] = "line" /\ pc' = [pc EXCEPT ![w] = "loop"] /\ up /\ child = w
        /\ lock' = lock
    BY <1>7 DEF Tell, Goes, Piped
  <2>2. QED
    BY <1>0, <1>1, <2>1 DEF Parent, Locked, Armed
<1>8. CASE Ends(w)
  <2>1. /\ pc' = [pc EXCEPT ![w] = IF up /\ child = w THEN Dead ELSE Free]
        /\ lock' = IF lock = w THEN Nobody ELSE lock
        /\ pipe' = pipe
    BY <1>8 DEF Ends, Piped
  <2>2. Locked'
    BY <1>0, <2>1 DEF Locked
  <2>3. Armed' /\ Parent'
    BY <1>0, <2>1 DEF Armed, Parent
  <2>4. QED
    BY <1>1, <2>2, <2>3
<1>9. QED
  BY <1>1, <1>2, <1>3, <1>4, <1>5, <1>6, <1>7, <1>8, WorkerKinds

\* So does the daemon: it signals no one who has no handler.
LEMMA DaemonCapture ==
    ASSUME CaptureInv,
           \/ DaemonStep \/ Request \/ (\E term \in BOOLEAN : EndDaemon(term)) \/ StartDaemon
    PROVE  Parent' /\ Sends' /\ Locked' /\ Armed' /\ ~killed'
<1> USE StageNames, SlotsAssumption
<1>0. /\ pc \in [Slots -> Stages] /\ child \in Slots \cup {Nobody} /\ lock \in Slots \cup {Nobody}
      /\ Parent /\ Sends /\ Locked /\ Armed /\ ~killed
  BY DEF CaptureInv, TypeOK
<1>1. ASSUME NEW w \in Slots, Spawn(w)
      PROVE  Parent' /\ Sends' /\ Locked' /\ Armed' /\ ~killed'
  <2>1. /\ up' = up /\ up /\ sending' = sending /\ ~sending /\ child' = w /\ pipe' = <<>>
        /\ ready' = (IF ready = w THEN Nobody ELSE ready) /\ killed' = killed /\ lock' = lock
        /\ pc[w] = Free /\ pc' = [pc EXCEPT ![w] = "start"]
    BY <1>1 DEF Spawn, Running
  <2>2. QED
    BY <1>0, <2>1 DEF Parent, Sends, Locked, Armed
<1>2. CASE Read
  <2>1. /\ up' = up /\ up /\ sending' = sending /\ ~sending /\ child' = child /\ child # Nobody
        /\ pipe # <<>> /\ killed' = killed /\ lock' = lock /\ pc' = pc
    BY <1>2 DEF Read, Running
  <2>2. QED
    BY <1>0, <2>1 DEF Parent, Sends, Locked, Armed
<1>3. CASE Reap
  <2>1. /\ up' = up /\ sending' = sending /\ ~sending /\ child' = Nobody /\ child \in Slots
        /\ pipe' = <<>> /\ killed' = killed /\ lock' = lock
        /\ pc' = [pc EXCEPT ![child] = Free]
    BY <1>0, <1>3 DEF Reap, Running
  <2>2. QED
    BY <1>0, <2>1 DEF Parent, Sends, Locked, Armed
<1>4. CASE Send
  <2>1. child \in Slots /\ pc[child] \in Handling \cup {Dead}
    BY <1>0, <1>4 DEF Send, Sends, Armed
  <2>2. pc[child] # "start" /\ pc[child] # "locked"
    BY <2>1
  <2>3. up' = up /\ sending' = FALSE /\ child' = child /\ ready' = ready /\ pipe' = pipe
    BY <1>4 DEF Send
  <2>4. lock' = lock /\ pc' = pc
    BY <1>4, <2>2 DEF Send
  <2>5. ~killed'
    <3>1. killed' = (killed \/ pc[child] \in {"start", "locked"})
      BY <1>4 DEF Send
    <3>2. pc[child] \notin {"start", "locked"}
      BY <2>2
    <3>3. QED
      BY <1>0, <3>1, <3>2
  <2>6. QED
    BY <1>0, <2>3, <2>4, <2>5 DEF Parent, Sends, Locked, Armed
<1>5. CASE Opens \/ Due
  BY <1>0, <1>5 DEF Opens, Due, Parent, Sends, Locked, Armed
<1>6. CASE Request
  BY <1>0, <1>6 DEF Request, MayRequest, Parent, Sends, Locked, Armed
<1>7. CASE StartDaemon
  BY <1>0, <1>7 DEF StartDaemon, Parent, Sends, Locked, Armed
<1>8. ASSUME NEW term \in BOOLEAN, EndDaemon(term)
      PROVE  Parent' /\ Sends' /\ Locked' /\ Armed' /\ ~killed'
  <2> DEFINE ends == {w \in Slots : w = child /\ (pc[w] = Dead \/ (term /\ pc[w] # Stuck))}
  <2>1. /\ child' = Nobody /\ sending' = FALSE /\ pipe' = <<>> /\ killed' = killed
        /\ pc' = [w \in Slots |-> IF w \in ends THEN Free ELSE pc[w]]
        /\ lock' = IF lock \in ends THEN Nobody ELSE lock
    BY <1>8 DEF EndDaemon
  <2> HIDE DEF ends
  <2>2. QED
    BY <1>0, <2>1 DEF Parent, Sends, Locked, Armed
<1>9. QED
  BY <1>1, <1>2, <1>3, <1>4, <1>5, <1>6, <1>7, <1>8 DEF DaemonStep

\* The invariant behind the signals and the lock holds throughout.
LEMMA CaptureInvariant == Spec => []CaptureInv
<1>1. Init => CaptureInv
  <2> SUFFICES ASSUME Init PROVE CaptureInv
    OBVIOUS
  <2>1. TypeOK
    BY InitTypes
  <2>2. Locked
    BY StageNames DEF Init, Locked
  <2>3. Parent /\ Sends /\ Armed /\ ~killed
    BY DEF Init, Parent, Sends, Armed
  <2>4. QED
    BY <2>1, <2>2, <2>3 DEF CaptureInv
<1>2. CaptureInv /\ TypeOK' /\ [Next]_vars => CaptureInv'
  <2> SUFFICES ASSUME CaptureInv, TypeOK', [Next]_vars
               PROVE  Parent' /\ Sends' /\ Locked' /\ Armed' /\ ~killed'
    BY DEF CaptureInv
  <2>1. CASE UNCHANGED vars
    BY <2>1 DEF CaptureInv, Parent, Sends, Locked, Armed
  <2>2. CASE Next
    BY <2>2, DaemonCapture, WorkerCapture DEF Next
  <2>3. QED
    BY <2>1, <2>2
<1>3. QED
  BY <1>1, <1>2, TypeCorrect, PTL DEF Spec

\* SIGUSR1 never ends a worker: it goes to a child whose pid line was read,
\* and the handler is installed before that line (recorder.py:43, worker.m:25-26).
THEOREM SignalsAreHandled == Spec => []SignalsHandled
<1>1. CaptureInv => SignalsHandled
  BY DEF CaptureInv, SignalsHandled
<1>2. QED
  BY <1>1, CaptureInvariant, PTL

\* At most one worker talks to the driver, whatever daemon started it and
\* whether or not the driver ever returns (worker.m:22-24, recorder.py:154, 211).
THEOREM OneSamplerOnly == Spec => []OneSampler
<1>1. CaptureInv => OneSampler
  BY DEF CaptureInv, Locked, OneSampler
<1>2. QED
  BY <1>1, CaptureInvariant, PTL

-----------------------------------------------------------------------------
(* Capture files.                                                             *)

\* Files whose line is still to be written.
Unwritten == {file[w] : w \in {v \in Slots : pc[v] = "line"}}

\* No capture is reported twice, and none both reported and unwritten.
Once ==
    /\ \A i, j \in 1..Len(pipe) : (pipe[i] = pipe[j] /\ pipe[i] # ReadyLine) => i = j
    /\ \A w \in Slots : pc[w] = "line" => file[w] # ReadyLine /\ file[w] \notin Range(pipe)

FilesInv == IsFiniteSet(scratch) /\ ReadyLine \notin scratch /\ Once /\ FilesAccounted

\* A line more in the pipe.
LEMMA ReportedMore ==
    ASSUME TypeOK, NEW x \in Nat, pipe' = Append(pipe, x)
    PROVE  /\ Range(pipe') = Range(pipe) \cup {x}
           /\ Len(pipe') = Len(pipe) + 1 /\ pipe'[Len(pipe) + 1] = x
           /\ \A i \in 1..Len(pipe) : pipe'[i] = pipe[i]
<1>1. pipe \in Seq(Nat) /\ DOMAIN pipe = 1..Len(pipe) /\ Len(pipe) \in Nat
  BY DEF TypeOK
<1>2. /\ Append(pipe, x) \in Seq(Nat) /\ Len(pipe') = Len(pipe) + 1
      /\ pipe'[Len(pipe) + 1] = x
      /\ \A i \in 1..Len(pipe) : pipe'[i] = pipe[i]
  BY <1>1, AppendProperties
<1>3. DOMAIN pipe' = 1..(Len(pipe) + 1)
  BY <1>2
<1>4. Range(pipe') = Range(pipe) \cup {x}
  <2>1. \A y : y \in Range(pipe') <=> \E i \in 1..(Len(pipe) + 1) : y = pipe'[i]
    BY <1>3 DEF Range
  <2>2. \A y : y \in Range(pipe) <=> \E i \in 1..Len(pipe) : y = pipe[i]
    BY <1>1 DEF Range
  <2>3. \A i \in 1..(Len(pipe) + 1) : i \in 1..Len(pipe) \/ i = Len(pipe) + 1
    BY <1>1
  <2>4. \A i \in 1..Len(pipe) : i \in 1..(Len(pipe) + 1)
    BY <1>1
  <2>5. Len(pipe) + 1 \in 1..(Len(pipe) + 1)
    BY <1>1
  <2>6. \A y : y \in Range(pipe') <=> y \in Range(pipe) \/ y = x
    BY <1>2, <2>1, <2>2, <2>3, <2>4, <2>5
  <2>7. QED
    BY <2>6
<1>5. QED
  BY <1>2, <1>4

\* A line less: what was read is reported no more.
LEMMA ReportedLess ==
    ASSUME TypeOK, Once, pipe # <<>>, pipe' = Tail(pipe)
    PROVE  /\ Range(pipe') \ {ReadyLine} = Reported \ {Head(pipe)}
           /\ Range(pipe') \subseteq Range(pipe)
           /\ Head(pipe) \in Range(pipe)
           /\ \A i, j \in 1..Len(pipe') :
                (pipe'[i] = pipe'[j] /\ pipe'[i] # ReadyLine) => i = j
<1>1. pipe \in Seq(Nat) /\ DOMAIN pipe = 1..Len(pipe) /\ Len(pipe) \in Nat /\ Len(pipe) > 0
  BY DEF TypeOK
<1>2. /\ Len(pipe') = Len(pipe) - 1 /\ DOMAIN pipe' = 1..(Len(pipe) - 1)
      /\ \A i \in 1..(Len(pipe) - 1) : pipe'[i] = pipe[i + 1]
      /\ Head(pipe) = pipe[1]
  BY <1>1
<1>3. \A y : y \in Range(pipe') <=> \E i \in 1..(Len(pipe) - 1) : y = pipe'[i]
  BY <1>2 DEF Range
<1>4. \A y : y \in Range(pipe) <=> \E i \in 1..Len(pipe) : y = pipe[i]
  BY <1>1 DEF Range
<1>5. Range(pipe') \subseteq Range(pipe) /\ Head(pipe) \in Range(pipe)
  <2>1. ASSUME NEW y \in Range(pipe') PROVE y \in Range(pipe)
    <3>1. PICK i \in 1..(Len(pipe) - 1) : y = pipe'[i]
      BY <1>3
    <3>2. i + 1 \in 1..Len(pipe) /\ y = pipe[i + 1]
      BY <1>1, <1>2, <3>1
    <3>3. QED
      BY <1>4, <3>2
  <2>2. 1 \in 1..Len(pipe)
    BY <1>1
  <2>3. QED
    BY <1>2, <1>4, <2>1, <2>2
<1>6. ASSUME NEW y \in Range(pipe), y # ReadyLine, y # Head(pipe) PROVE y \in Range(pipe')
  <2>1. PICK i \in 1..Len(pipe) : y = pipe[i]
    BY <1>4
  <2>2. i - 1 \in 1..(Len(pipe) - 1) /\ (i - 1) + 1 = i
    BY <1>1, <1>2, <1>6, <2>1
  <2>3. QED
    BY <1>2, <1>3, <2>1, <2>2
<1>7. ASSUME NEW y \in Range(pipe'), y # ReadyLine PROVE y # Head(pipe)
  <2>1. PICK i \in 1..(Len(pipe) - 1) : y = pipe'[i]
    BY <1>3
  <2>2. i + 1 \in 1..Len(pipe) /\ 1 \in 1..Len(pipe) /\ i + 1 # 1 /\ y = pipe[i + 1]
    BY <1>1, <1>2, <2>1
  <2>3. QED
    BY <1>2, <1>7, <2>2 DEF Once
<1>8. ASSUME NEW i \in 1..Len(pipe'), NEW j \in 1..Len(pipe'),
             pipe'[i] = pipe'[j], pipe'[i] # ReadyLine
      PROVE  i = j
  <2>1. i + 1 \in 1..Len(pipe) /\ j + 1 \in 1..Len(pipe)
        /\ pipe'[i] = pipe[i + 1] /\ pipe'[j] = pipe[j + 1]
    BY <1>1, <1>2
  <2>2. i + 1 = j + 1
    BY <1>8, <2>1 DEF Once
  <2>3. QED
    BY <1>1, <1>2, <2>2
<1>9. Range(pipe') \ {ReadyLine} = Reported \ {Head(pipe)}
  BY <1>5, <1>6, <1>7 DEF Reported
<1>10. QED
  BY <1>5, <1>8, <1>9

\* At most one worker has a line to write.
LEMMA OneUnwritten ==
    ASSUME CaptureInv, NEW w \in Slots, pc[w] = "line"
    PROVE  \A v \in Slots : pc[v] = "line" => v = w
  BY StageNames DEF CaptureInv, Locked

\* Who is about to write has a file on the way that nobody reported.
LEMMA UnwrittenFile ==
    ASSUME FilesInv, NEW w \in Slots, pc[w] = "line"
    PROVE  file[w] \in scratch \ orphans /\ file[w] \notin Reported
  BY DEF FilesInv, FilesAccounted, Once, Reported

\* Steps that neither write nor read a line keep the account.
LEMMA SameAccount ==
    ASSUME FilesInv, UNCHANGED <<file, pipe, scratch, orphans>>,
           \A w \in Slots : pc'[w] = "line" <=> pc[w] = "line"
    PROVE  FilesInv'
<1>1. {v \in Slots : pc'[v] = "line"} = {v \in Slots : pc[v] = "line"}
  OBVIOUS
<1>2. FilesAccounted'
  BY <1>1 DEF FilesInv, FilesAccounted, Reported
<1>3. Once'
  BY DEF FilesInv, Once
<1>4. QED
  BY <1>2, <1>3 DEF FilesInv

\* The account where every part of it is known.
LEMMA FilesIntro ==
    ASSUME IsFiniteSet(scratch'), ReadyLine \notin scratch', Once',
           scratch' \ orphans' = Reported' \cup Unwritten', orphans' \subseteq scratch'
    PROVE  FilesInv'
  BY DEF FilesInv, FilesAccounted, Unwritten

\* A worker accounts for the file it writes until its line is in the pipe.
LEMMA WorkerFiles ==
    ASSUME CaptureInv, FilesInv, NEW w \in Slots,
           WorkerStep(w) \/ Decide(w) \/ Cool(w) \/ Stick(w) \/ Exit(w)
    PROVE  FilesInv'
<1> USE StageNames
<1>0. /\ TypeOK /\ pc \in [Slots -> Stages] /\ file \in [Slots -> Nat] /\ Len(pipe) \in Nat
      /\ IsFiniteSet(scratch) /\ ReadyLine \notin scratch /\ Once /\ orphans \subseteq scratch
      /\ scratch \ orphans = Reported \cup Unwritten
  BY DEF CaptureInv, TypeOK, FilesInv, FilesAccounted, Unwritten
<1>1. CASE Still
  BY <1>1, SameAccount DEF Still
<1>2. CASE Takes(w)
  <2>1. \A v \in Slots : pc'[v] = "line" <=> pc[v] = "line"
    BY <1>0, <1>2 DEF Takes
  <2>2. QED
    BY <1>2, <2>1, SameAccount DEF Takes
<1>3. ASSUME NEW to \in Handling, Moves(w, to) PROVE FilesInv'
  <2>1. \A v \in Slots : pc'[v] = "line" <=> pc[v] = "line"
    BY <1>0, <1>3 DEF Moves
  <2>2. QED
    BY <1>3, <2>1, SameAccount DEF Moves
<1>4. CASE Announce(w)
  <2>1. /\ pc[w] = "armed" /\ pc' = [pc EXCEPT ![w] = "loop"]
        /\ pipe' = Append(pipe, ReadyLine)
        /\ UNCHANGED <<file, scratch, orphans>>
    BY <1>4 DEF Announce, Goes
  <2>2. \A v \in Slots : pc'[v] = "line" <=> pc[v] = "line"
    BY <1>0, <2>1
  <2>3. /\ Range(pipe') = Range(pipe) \cup {ReadyLine}
        /\ Len(pipe') = Len(pipe) + 1 /\ pipe'[Len(pipe) + 1] = ReadyLine
        /\ \A i \in 1..Len(pipe) : pipe'[i] = pipe[i]
    BY <1>0, <2>1, ReportedMore DEF ReadyLine
  <2>4. Reported' = Reported /\ Unwritten' = Unwritten
    BY <2>1, <2>2, <2>3 DEF Reported, Unwritten
  <2>5. Once'
    <3>1. ASSUME NEW v \in Slots, pc'[v] = "line"
          PROVE  file'[v] # ReadyLine /\ file'[v] \notin Range(pipe')
      BY <1>0, <2>1, <2>2, <2>3, <3>1 DEF Once
    <3>2. ASSUME NEW i \in 1..Len(pipe'), NEW j \in 1..Len(pipe'),
                 pipe'[i] = pipe'[j], pipe'[i] # ReadyLine
          PROVE  i = j
      BY <1>0, <2>3, <3>2 DEF Once
    <3>3. QED
      BY <3>1, <3>2 DEF Once
  <2>6. QED
    BY <1>0, <2>1, <2>4, <2>5, FilesIntro
<1>5. CASE Save(w)
  <2> DEFINE f == CHOOSE n \in 1..(Cardinality(scratch) + 1) : n \notin scratch
  <2>1. f \in Nat \ {0} /\ f \notin scratch
    BY <1>0, FreshFile
  <2>2. /\ pc[w] = "save" /\ pc' = [pc EXCEPT ![w] = "line"]
        /\ file' = [file EXCEPT ![w] = f] /\ scratch' = scratch \cup {f}
        /\ UNCHANGED <<pipe, orphans>>
    BY <1>5 DEF Save, Goes
  <2> HIDE DEF f
  <2>3. \A v \in Slots : pc[v] # "line"
    BY <2>2, StageNames DEF CaptureInv, Locked
  <2>4. pc'[w] = "line" /\ file'[w] = f /\ \A v \in Slots : pc'[v] = "line" => v = w
    BY <1>0, <2>2, <2>3
  <2>5. Unwritten = {} /\ Unwritten' = {f} /\ Reported' = Reported
    BY <2>2, <2>3, <2>4 DEF Unwritten, Reported
  <2>6. f \notin Range(pipe) /\ f # ReadyLine
    BY <1>0, <2>1 DEF Reported, ReadyLine
  <2>7. Once'
    BY <1>0, <2>2, <2>4, <2>6 DEF Once
  <2>8. IsFiniteSet(scratch')
    BY <1>0, <2>2, FS_AddElement
  <2>9. ReadyLine \notin scratch' /\ orphans' \subseteq scratch'
    BY <1>0, <2>2, <2>6
  <2>10. scratch' \ orphans' = Reported' \cup Unwritten'
    BY <1>0, <2>1, <2>2, <2>5
  <2>11. QED
    BY <2>7, <2>8, <2>9, <2>10, FilesIntro
<1>6. CASE Tell(w)
  <2>1. /\ pc[w] = "line" /\ pc' = [pc EXCEPT ![w] = "loop"]
        /\ pipe' = Append(pipe, file[w])
        /\ UNCHANGED <<file, scratch, orphans>>
    BY <1>6 DEF Tell, Goes
  <2>2. file[w] \in Nat /\ file[w] # ReadyLine /\ file[w] \notin Range(pipe)
    BY <1>0, <2>1 DEF Once
  <2>3. /\ Range(pipe') = Range(pipe) \cup {file[w]}
        /\ Len(pipe') = Len(pipe) + 1 /\ pipe'[Len(pipe) + 1] = file[w]
        /\ \A i \in 1..Len(pipe) : pipe'[i] = pipe[i]
    BY <1>0, <2>1, <2>2, ReportedMore
  <2>4. \A v \in Slots : pc[v] = "line" => v = w
    BY <2>1, OneUnwritten
  <2>5. \A v \in Slots : pc'[v] # "line"
    BY <1>0, <2>1, <2>4
  <2>6. Unwritten = {file[w]} /\ Unwritten' = {} /\ Reported' = Reported \cup {file[w]}
    <3>1. Unwritten = {file[w]}
      BY <2>1, <2>4 DEF Unwritten
    <3>2. Unwritten' = {}
      BY <2>5 DEF Unwritten
    <3>3. Reported' = Reported \cup {file[w]}
      BY <2>2, <2>3 DEF Reported
    <3>4. QED
      BY <3>1, <3>2, <3>3
  <2>7. Once'
    <3>1. ASSUME NEW i \in 1..Len(pipe'), NEW j \in 1..Len(pipe'),
                 pipe'[i] = pipe'[j], pipe'[i] # ReadyLine
          PROVE  i = j
      <4>1. \A k \in 1..Len(pipe) : pipe[k] \in Range(pipe)
        BY <1>0 DEF Range, TypeOK
      <4>2. i \in 1..Len(pipe) \/ i = Len(pipe) + 1
        BY <1>0, <2>3
      <4>3. j \in 1..Len(pipe) \/ j = Len(pipe) + 1
        BY <1>0, <2>3
      <4>4. \A k \in 1..Len(pipe) : pipe'[k] # file[w]
        BY <2>2, <2>3, <4>1
      <4>5. CASE i \in 1..Len(pipe) /\ j \in 1..Len(pipe)
        BY <1>0, <2>3, <3>1, <4>5 DEF Once
      <4>6. QED
        BY <2>3, <3>1, <4>2, <4>3, <4>4, <4>5
    <3>2. QED
      BY <2>5, <3>1 DEF Once
  <2>8. QED
    BY <1>0, <2>1, <2>6, <2>7, FilesIntro
<1>7. CASE Ends(w)
  <2>1. /\ pc' = [pc EXCEPT ![w] = IF Piped(w) THEN Dead ELSE Free]
        /\ orphans' = (IF pc[w] = "line" THEN orphans \cup {file[w]} ELSE orphans)
        /\ UNCHANGED <<file, pipe, scratch>>
    BY <1>7 DEF Ends
  <2>2. pc'[w] # "line" /\ \A v \in Slots \ {w} : pc'[v] = pc[v]
    BY <1>0, <2>1
  <2>3. CASE pc[w] = "line"
    <3>1. \A v \in Slots : pc[v] = "line" => v = w
      BY <2>3, OneUnwritten
    <3>2. \A v \in Slots : pc'[v] # "line"
      BY <2>2, <3>1
    <3>3. Unwritten = {file[w]} /\ Unwritten' = {} /\ Reported' = Reported
      BY <2>1, <2>3, <3>1, <3>2 DEF Unwritten, Reported
    <3>4. file[w] \in scratch \ orphans /\ file[w] \notin Reported
      BY <2>3, UnwrittenFile
    <3>5. scratch' \ orphans' = Reported' \cup Unwritten' /\ orphans' \subseteq scratch'
      BY <1>0, <2>1, <2>3, <3>3, <3>4
    <3>6. Once'
      BY <1>0, <2>1, <3>2 DEF Once
    <3>7. QED
      BY <1>0, <2>1, <3>5, <3>6, FilesIntro
  <2>4. CASE pc[w] # "line"
    <3>1. \A v \in Slots : pc'[v] = "line" <=> pc[v] = "line"
      BY <2>2, <2>4
    <3>2. QED
      BY <2>1, <2>4, <3>1, SameAccount
  <2>5. QED
    BY <2>3, <2>4
<1>8. QED
  BY <1>1, <1>2, <1>3, <1>4, <1>5, <1>6, <1>7, WorkerKinds

\* The daemon files what it reads and loses the rest with the pipe.
LEMMA DaemonFiles ==
    ASSUME CaptureInv, FilesInv,
           \/ DaemonStep \/ Request \/ (\E term \in BOOLEAN : EndDaemon(term)) \/ StartDaemon
    PROVE  FilesInv'
<1> USE StageNames, SlotsAssumption
<1>0. /\ TypeOK /\ pc \in [Slots -> Stages] /\ child \in Slots \cup {Nobody} /\ Parent
      /\ IsFiniteSet(scratch) /\ ReadyLine \notin scratch /\ Once /\ orphans \subseteq scratch
      /\ scratch \ orphans = Reported \cup Unwritten
      /\ \A x \in Unwritten : x \notin Reported
  <2>1. \A x \in Unwritten : x \notin Reported
    BY UnwrittenFile DEF Unwritten
  <2>2. QED
    BY <2>1 DEF CaptureInv, TypeOK, FilesInv, FilesAccounted, Unwritten
<1>1. ASSUME NEW w \in Slots, Spawn(w) PROVE FilesInv'
  <2>1. /\ pc[w] = Free /\ pc' = [pc EXCEPT ![w] = "start"] /\ pipe = <<>>
        /\ UNCHANGED <<file, pipe, scratch, orphans>>
    BY <1>0, <1>1 DEF Spawn, Parent
  <2>2. \A v \in Slots : pc'[v] = "line" <=> pc[v] = "line"
    BY <1>0, <2>1
  <2>3. QED
    BY <2>1, <2>2, SameAccount
<1>2. CASE Read
  <2> DEFINE h == Head(pipe)
  <2>1. /\ pipe # <<>> /\ pipe' = Tail(pipe) /\ scratch' = scratch \ {h} /\ pc' = pc
        /\ UNCHANGED <<file, orphans>>
    BY <1>2 DEF Read
  <2>2. /\ Range(pipe') \ {ReadyLine} = Reported \ {h}
        /\ Range(pipe') \subseteq Range(pipe)
        /\ h \in Range(pipe)
        /\ \A i, j \in 1..Len(pipe') :
             (pipe'[i] = pipe'[j] /\ pipe'[i] # ReadyLine) => i = j
    BY <1>0, <2>1, ReportedLess
  <2> HIDE DEF h
  <2>3. Reported' = Reported \ {h} /\ Unwritten' = Unwritten
    BY <2>1, <2>2 DEF Reported, Unwritten
  <2>4. h = ReadyLine \/ h \in Reported
    BY <2>2 DEF Reported
  <2>5. Once'
    BY <1>0, <2>1, <2>2 DEF Once
  <2>6. IsFiniteSet(scratch')
    BY <1>0, <2>1, FS_RemoveElement
  <2>7. h \notin Unwritten /\ h \notin orphans
    <3>1. CASE h = ReadyLine
      BY <1>0, <3>1
    <3>2. CASE h \in Reported
      BY <1>0, <3>2
    <3>3. QED
      BY <2>4, <3>1, <3>2
  <2>8. scratch' \ orphans' = Reported' \cup Unwritten' /\ orphans' \subseteq scratch'
        /\ ReadyLine \notin scratch'
    BY <1>0, <2>1, <2>3, <2>7
  <2>9. QED
    BY <2>5, <2>6, <2>8, FilesIntro
<1>3. ASSUME pipe' = <<>> PROVE Reported' = {} /\ Range(pipe') = {}
  BY <1>3 DEF Reported, Range
<1>4. CASE Reap
  <2>1. /\ pipe' = <<>> /\ orphans' = orphans \cup Reported /\ child \in Slots
        /\ pc[child] = Dead /\ pc' = [pc EXCEPT ![child] = Free]
        /\ UNCHANGED <<file, scratch>>
    BY <1>0, <1>4 DEF Reap
  <2>2. \A v \in Slots : pc'[v] = "line" <=> pc[v] = "line"
    BY <1>0, <2>1
  <2>3. Unwritten' = Unwritten
    BY <2>1, <2>2 DEF Unwritten
  <2>4. Once'
    BY <1>0, <1>3, <2>1, <2>2 DEF Once
  <2>5. scratch' \ orphans' = Reported' \cup Unwritten' /\ orphans' \subseteq scratch'
    BY <1>0, <1>3, <2>1, <2>3
  <2>6. QED
    BY <1>0, <2>1, <2>4, <2>5, FilesIntro
<1>5. CASE Send
  <2>1. child \in Slots /\ pc[child] \in Handling \cup {Dead}
    BY <1>0, <1>5 DEF Send, Sends, Armed, CaptureInv
  <2>2. pc' = pc /\ UNCHANGED <<file, pipe, scratch, orphans>>
    BY <1>5, <2>1 DEF Send
  <2>3. QED
    BY <2>2, SameAccount
<1>6. CASE Opens \/ Due \/ Request \/ StartDaemon
  BY <1>6, SameAccount DEF Opens, Due, Request, StartDaemon
<1>7. ASSUME NEW term \in BOOLEAN, EndDaemon(term) PROVE FilesInv'
  <2> DEFINE ends == {w \in Slots : w = child /\ (pc[w] = Dead \/ (term /\ pc[w] # Stuck))}
             gone == {file[w] : w \in {v \in ends : pc[v] = "line"}}
  <2>1. /\ pipe' = <<>> /\ orphans' = orphans \cup Reported \cup gone
        /\ pc' = [w \in Slots |-> IF w \in ends THEN Free ELSE pc[w]]
        /\ UNCHANGED <<file, scratch>>
    BY <1>7 DEF EndDaemon
  <2>2. ends \subseteq Slots
    OBVIOUS
  <2> HIDE DEF ends
  <2>3. \A v \in Slots : pc'[v] = "line" <=> (pc[v] = "line" /\ v \notin ends)
    BY <2>1
  <2>4. gone \subseteq Unwritten /\ Unwritten = gone \cup Unwritten'
    BY <2>1, <2>2, <2>3 DEF Unwritten
  <2>5. gone \cap Unwritten' = {}
    <3>1. SUFFICES ASSUME NEW v \in ends, pc[v] = "line", NEW w \in Slots, pc'[w] = "line"
                   PROVE  FALSE
      BY <2>1 DEF Unwritten
    <3>2. w = v
      BY <2>2, <2>3, <3>1, OneUnwritten
    <3>3. QED
      BY <2>3, <3>1, <3>2
  <2> HIDE DEF gone
  <2>6. Once'
    BY <1>0, <1>3, <2>1, <2>3 DEF Once
  <2>7. scratch' \ orphans' = Reported' \cup Unwritten' /\ orphans' \subseteq scratch'
    BY <1>0, <1>3, <2>1, <2>4, <2>5
  <2>8. QED
    BY <1>0, <2>1, <2>6, <2>7, FilesIntro
<1>8. QED
  BY <1>1, <1>2, <1>4, <1>5, <1>6, <1>7 DEF DaemonStep

\* Every capture file is on its way to an incident unless its line went with
\* the worker or the daemon (worker.m:64-65, recorder.py:143, 181-184).
THEOREM FilesAreAccounted == Spec => []FilesAccounted
<1>1. Init => FilesInv
  <2> SUFFICES ASSUME Init PROVE FilesInv
    OBVIOUS
  <2>1. \A w \in Slots : pc[w] # "line"
    BY StageNames DEF Init
  <2>2. scratch = {} /\ orphans = {} /\ pipe = <<>>
    BY DEF Init
  <2>3. Once
    BY <2>1, <2>2 DEF Once
  <2>4. FilesAccounted
    BY <2>1, <2>2 DEF FilesAccounted, Reported, Range
  <2>5. QED
    BY <2>2, <2>3, <2>4, FS_EmptySet DEF FilesInv
<1>2. CaptureInv /\ FilesInv /\ [Next]_vars => FilesInv'
  <2> SUFFICES ASSUME CaptureInv, FilesInv, [Next]_vars PROVE FilesInv'
    OBVIOUS
  <2>1. CASE UNCHANGED vars
    BY <2>1, SameAccount
  <2>2. CASE Next
    BY <2>2, DaemonFiles, WorkerFiles DEF Next
  <2>3. QED
    BY <2>1, <2>2
<1>3. FilesInv => FilesAccounted
  BY DEF FilesInv
<1>4. QED
  BY <1>1, <1>2, <1>3, CaptureInvariant, PTL DEF Spec
=============================================================================
