--------------------------- MODULE RecorderStore ---------------------------
(***************************************************************************)
(* The on-disk flight recorder of collector-v5/recorder.py: class Store    *)
(* and the way main() of the daemon uses it.  Lines go to rolling segment  *)
(* files, one open file per kind; a trigger copies the rolling directory   *)
(* into an incident directory, which then also receives what is written    *)
(* until its post-window ends; a tick syncs, deletes old segments, ends    *)
(* the open incident and trims the incidents to a count and a size.        *)
(* The daemon may be killed at any point: between two operations, between  *)
(* the two writes of one line, and in the middle of a trigger, a tick, a   *)
(* trim or a start.  The power may fail, which loses what was never synced.*)
(*                                                                         *)
(* A line is its index in log, the history of every line handed to append  *)
(* (kept says whether its segment had room).  A file is the set of its     *)
(* lines and sizes count lines.  An incident is its number, in the order   *)
(* they were made, and has a name: the place of its directory among all    *)
(* names in the order trim_incidents sorts them, as strings.  A name is    *)
(* the local time in seconds and the last digits of a clock, not padded,   *)
(* so Names gives each second a set of them, in any order; and local time  *)
(* may go back.  The wall clock, time.time(), does not.                    *)
(***************************************************************************)
EXTENDS Integers, Sequences, FiniteSets, FiniteSetsExt

CONSTANTS
    Kinds,         \* kinds of line: detail, summary, event, queues
    Event,         \* the kind a repeated trigger is noted under
    Keep,          \* seconds each kind stays in the rolling directory
    Segment,       \* seconds of one rolling file
    Post,          \* seconds an incident stays open
    SegmentCap,    \* lines of one rolling file
    AfterCap,      \* lines of after.jsonl
    MaxIncidents,  \* incident directories
    Names,         \* the names an incident made at a time may get
    Budget,        \* lines on disk, rolling files and incidents together
    MaxTime, MaxLines, MaxTriggers, MaxCrashes  \* bounds of the model

ASSUME StoreAssumption ==
    /\ Event \in Kinds
    /\ Keep \in [Kinds -> Nat]
    /\ Segment \in Nat \ {0}
    /\ {Post, SegmentCap, AfterCap, MaxIncidents, Budget} \subseteq Nat \ {0}
    /\ Names \in [0..MaxTime -> SUBSET Nat]
    /\ {MaxTime, MaxLines, MaxTriggers, MaxCrashes} \subseteq Nat

VARIABLES
    now,        \* time.time(), in seconds
    up,         \* the daemon runs
    run,        \* number of the daemon's run
    log,        \* every line handed to append
    rolling,    \* lines in the rolling directory
    handles,    \* segment start of the open file of each kind
    safe,       \* lines an fsync has put on the disk
    lost,       \* lines a power failure took from the rolling directory
    incidents,  \* every incident directory made, removed ones too
    active,     \* Store.active, 0 for None; its end is Store.until
    ticked      \* last_tick: the tick of this second is done

disk == <<log, rolling, safe, lost, incidents>>
vars == <<now, up, run, disk, handles, active, ticked>>

Closed == -1
Bucket(t) == t - (t % Segment)
Lines == DOMAIN log
SameFile(l, kind, t) == log[l].kind = kind /\ Bucket(log[l].at) = Bucket(t)
IsOpen(l) == handles[log[l].kind] = Bucket(log[l].at)

Incident == [name : Nat, at : Nat, until : Nat, run : Nat, mark : Nat, pre : SUBSET Nat,
             after : SUBSET Nat, sealed : BOOLEAN, complete : BOOLEAN,
             present : BOOLEAN, torn : BOOLEAN, restart : BOOLEAN]

(***************************************************************************)
(* trim_incidents, on incidents I with a the active one and R the rolling  *)
(* lines: of the directories other than the least in name and the active   *)
(* one the least in name goes, until count and size are met.               *)
(***************************************************************************)
OnDisk(I) == {i \in DOMAIN I : I[i].present}
Size(I, D, R) ==
    Cardinality(R)
      + MapThenSumSet(LAMBDA i : Cardinality(I[i].pre) + Cardinality(I[i].after), D)
Before(I, c, d) == I[c].name < I[d].name
\* Mutant: the least name is not spared.
VictimsAny(I, a) == {d \in OnDisk(I) : d # a}
Victims(I, a) == {d \in OnDisk(I) : d # a /\ \E e \in OnDisk(I) : Before(I, e, d)}
\* What is left after k removals.
Without(I, a, k) ==
    {d \in OnDisk(I) : d \in Victims(I, a) =>
                          Cardinality({c \in Victims(I, a) : Before(I, c, d)}) >= k}
Fits(I, D, R) == Cardinality(D) <= MaxIncidents /\ Size(I, D, R) <= Budget
\* The removals the loop comes to make: one while nothing before it fitted.
Removals(I, a, R) ==
    Cardinality({k \in 0..(Cardinality(Victims(I, a)) - 1) :
                    \A j \in 0..k : ~Fits(I, Without(I, a, j), R)})
Keeping(I, D) == [i \in DOMAIN I |-> [I[i] EXCEPT !.present = i \in D]]
Trim(I, a, R) == Keeping(I, Without(I, a, Removals(I, a, R)))
\* The copies of the incidents T are gone, their directories are not.
Emptied(I, T) ==
    [i \in DOMAIN I |-> IF i \in T
                           THEN [I[i] EXCEPT !.pre = {}, !.after = {}, !.torn = TRUE]
                           ELSE I[i]]
\* The loop is cut short after k removals: in the next one, or before it.
TrimCut(I, a, R) ==
    \E k, m \in 0..Removals(I, a, R) :
        /\ m \in {k, k + 1}
        /\ incidents' = Emptied(Keeping(I, Without(I, a, k)),
                                Without(I, a, k) \ Without(I, a, m))

\* Store.sync: the open files only.
Synced == safe \cup {l \in rolling : IsOpen(l)}

---------------------------------------------------------------------------
Init ==
    /\ now = 0 /\ up = TRUE /\ run = 1
    /\ log = <<>> /\ rolling = {} /\ safe = {} /\ lost = {} /\ incidents = <<>>
    /\ handles = [k \in Kinds |-> Closed]
    /\ active = 0 /\ ticked = FALSE

\* The two writes of Store.append: the segment, then the open incident.
Room(kind) == Cardinality({l \in rolling : SameFile(l, kind, now)}) < SegmentCap
\* Mutant: the window lasts until a tick closes it.
InWindowUntilTick == active # 0
InWindow == active # 0 /\ now <= incidents[active].until
Receives(i) ==
    i = active /\ InWindow /\ Cardinality(incidents[i].after) < AfterCap

Written(kind) ==
    /\ up /\ Len(log) < MaxLines
    /\ log' = Append(log, [kind |-> kind, at |-> now, run |-> run, kept |-> Room(kind)])
    /\ rolling' = IF Room(kind) THEN rolling \cup {Len(log) + 1} ELSE rolling
    /\ UNCHANGED <<now, run, safe, lost>>

AppendLine(kind) ==
    /\ Written(kind)
    /\ handles' = [handles EXCEPT ![kind] = Bucket(now)]
    /\ incidents' = [i \in DOMAIN incidents |->
          IF Receives(i) THEN [incidents[i] EXCEPT !.after = @ \cup {Len(log) + 1}]
                         ELSE incidents[i]]
    /\ UNCHANGED <<up, active, ticked>>

\* The directory a trigger makes, with the lines copied into it.  mkdir takes
\* no name that is on disk: the daemon then ends, which Kill covers.
FreeNames == Names[now] \ {incidents[i].name : i \in OnDisk(incidents)}
Fresh(name, copied, sealed, r, again) ==
    [name |-> name, at |-> now, until |-> now + Post, run |-> r, mark |-> Len(log),
     pre |-> copied, after |-> {}, sealed |-> sealed, complete |-> FALSE,
     present |-> TRUE, torn |-> FALSE, restart |-> again]
With(name, copied, sealed, r, again) ==
    Append(incidents, Fresh(name, copied, sealed, r, again))
TriggerBound == Len(incidents) < MaxTriggers

\* A trigger inside the window of the open incident is only noted.
Noted == InWindow /\ AppendLine(Event)

\* Any other trigger starts an incident; one that is still open is dropped.
Trigger ==
    LET i == Len(incidents) + 1
    IN  /\ up /\ ~InWindow /\ TriggerBound
        /\ safe' = Synced
        /\ \E name \in FreeNames :
             incidents' = Trim(With(name, rolling, TRUE, run, FALSE), i, rolling)
        /\ active' = i
        /\ UNCHANGED <<now, up, run, log, rolling, lost, handles, ticked>>

\* Mutant: the length of a segment is forgotten.
ExpiredEarly(l) == now - Bucket(log[l].at) > Keep[log[l].kind] /\ ~IsOpen(l)
Expired(l) == now - Bucket(log[l].at) > Keep[log[l].kind] + Segment /\ ~IsOpen(l)
Ending == active # 0 /\ now > incidents[active].until

Left == {l \in rolling : ~Expired(l)}
StillActive == IF Ending THEN 0 ELSE active
Closing ==
    [i \in DOMAIN incidents |->
        IF i = active /\ Ending THEN [incidents[i] EXCEPT !.complete = TRUE]
                                ELSE incidents[i]]

Tick ==
    /\ up /\ ~ticked
    /\ safe' = Synced
    /\ rolling' = Left
    /\ active' = StillActive
    /\ incidents' = Trim(Closing, StillActive, Left)
    /\ ticked' = TRUE
    /\ UNCHANGED <<now, up, run, log, lost, handles>>

Pass ==
    /\ now < MaxTime
    /\ now' = now + 1 /\ ticked' = FALSE
    /\ UNCHANGED <<up, run, disk, handles, active>>

---------------------------------------------------------------------------
\* The process is gone, and with it what it had in memory.
Gone ==
    /\ run <= MaxCrashes
    /\ up' = FALSE
    /\ handles' = [k \in Kinds |-> Closed]
    /\ active' = 0 /\ ticked' = FALSE
    /\ UNCHANGED <<now, run>>

\* The daemon ends between two operations, or behind a sync: by close(), by a
\* signal or an exception.
Kill ==
    /\ up /\ Gone
    /\ safe' \in {safe, Synced}
    /\ UNCHANGED <<log, rolling, lost, incidents>>

\* Between the two writes of a line, or because the second one fails.
KillInAppend(kind) == Written(kind) /\ Gone /\ UNCHANGED incidents

\* What is left of an incident begun: some lines are copied and event.json is
\* not written, or it is and the trim is cut short.
HalfMade(r, again) ==
    \E name \in FreeNames :
        \/ \E copied \in SUBSET rolling :
              incidents' = With(name, copied, FALSE, r, again)
        \/ TrimCut(With(name, rolling, TRUE, r, again), Len(incidents) + 1, rolling)

\* In the middle of a trigger.
KillInTrigger ==
    /\ up /\ ~InWindow /\ TriggerBound /\ Gone
    /\ HalfMade(run, FALSE)
    /\ safe' = Synced
    /\ UNCHANGED <<log, rolling, lost>>

\* In the middle of a tick: only some expired segments are deleted, or all are
\* and the trim is cut short.
KillInTick ==
    /\ up /\ ~ticked /\ Gone
    /\ safe' = Synced
    /\ \/ /\ \E F \in SUBSET {<<log[l].kind, Bucket(log[l].at)>> : l \in rolling \ Left} :
              rolling' = {l \in rolling : Expired(l) =>
                                           <<log[l].kind, Bucket(log[l].at)>> \notin F}
          /\ UNCHANGED incidents
       \/ /\ rolling' = Left
          /\ TrimCut(Closing, StillActive, Left)
    /\ UNCHANGED <<log, lost>>

\* The machine stops: unsynced lines are gone, and the copies, which nothing
\* syncs, of every incident or of none.
PowerLoss ==
    /\ Gone
    /\ rolling' = rolling \cap safe
    /\ lost' = lost \cup (rolling \ safe)
    /\ \E T \in {{}, OnDisk(incidents)} : incidents' = Emptied(incidents, T)
    /\ UNCHANGED <<log, safe>>

\* main() up to its loop: what the last run left becomes an incident at once.
Restart ==
    LET i == Len(incidents) + 1
    IN  /\ ~up /\ (rolling # {} => TriggerBound)
        /\ up' = TRUE /\ run' = run + 1
        /\ \/ rolling = {} /\ UNCHANGED incidents
           \/ rolling # {} /\ \E name \in FreeNames :
                incidents' = Trim(With(name, rolling, TRUE, run + 1, TRUE), i, rolling)
        /\ UNCHANGED <<now, log, rolling, safe, lost, handles, active, ticked>>

\* In the middle of that.
KillInRestart ==
    /\ ~up /\ rolling # {} /\ TriggerBound /\ run <= MaxCrashes
    /\ run' = run + 1
    /\ HalfMade(run + 1, TRUE)
    /\ UNCHANGED <<now, up, log, rolling, safe, lost, handles, active, ticked>>

Next ==
    \/ \E kind \in Kinds : AppendLine(kind)
    \/ Noted \/ Trigger \/ Tick \/ Pass
    \/ \E kind \in Kinds : KillInAppend(kind)
    \/ Kill \/ KillInTrigger \/ KillInTick \/ PowerLoss
    \/ Restart \/ KillInRestart

Spec == Init /\ [][Next]_vars

---------------------------------------------------------------------------
\* Every variable keeps its range.
TypeOK ==
    /\ now \in 0..MaxTime /\ up \in BOOLEAN /\ run \in Nat
    /\ log \in Seq([kind : Kinds, at : Nat, run : Nat, kept : BOOLEAN])
    /\ rolling \subseteq Lines /\ safe \subseteq Lines /\ lost \subseteq Lines
    /\ incidents \in Seq(Incident)
    /\ handles \in [Kinds -> Int]
    /\ active \in 0..Len(incidents) /\ ticked \in BOOLEAN

\* An incident that was sealed and not torn by a power failure holds every
\* line of the keep window of its kind before it, whatever run wrote the
\* line: deletion of old segments, rotation, trims and restarts in between
\* took none of them (recorder.py:60-61, 105-107, 121-123).
WindowKept ==
    \A i \in DOMAIN incidents : \A l \in 1..incidents[i].mark :
        (/\ incidents[i].present /\ incidents[i].sealed /\ ~incidents[i].torn
         /\ log[l].kept /\ l \notin lost
         /\ log[l].at >= incidents[i].at - Keep[log[l].kind])
            => l \in incidents[i].pre

\* The last line of a run that has ended: the run may have died writing it.
LastOfItsRun(l) ==
    /\ ~(up /\ log[l].run = run)
    /\ \A k \in Lines : k > l => log[k].run # log[l].run

\* after.jsonl is the post-window and nothing else: every line of the same
\* run up to its end unless the file is full, and none later, though a late
\* trigger may take the incident's place before it is marked complete.  A
\* death between the two writes of a line costs that one line and no other
\* (recorder.py:72, 73, 76, 84, 108).
AfterExact ==
    \A i \in DOMAIN incidents :
        /\ incidents[i].complete => now > incidents[i].until
        /\ \A l \in incidents[i].after :
             l > incidents[i].mark /\ log[l].at <= incidents[i].until
        /\ (incidents[i].present /\ ~incidents[i].torn /\ ~incidents[i].restart
              /\ incidents[i].sealed) =>
             \A l \in (incidents[i].mark + 1)..Len(log) :
                (log[l].run = incidents[i].run /\ log[l].at <= incidents[i].until) =>
                   \/ l \in incidents[i].after
                   \/ Cardinality(incidents[i].after) >= AfterCap
                   \/ LastOfItsRun(l)

\* Trims go by the names, in whatever order the names come: what was removed
\* leaves a lesser name on disk, so that the least name there ever was
\* survives; the open incident survives; and an incident that outlives one
\* made after it either sorts behind that one or before everything made till
\* then (recorder.py:87, 96-102).
Retention ==
    /\ \A r \in DOMAIN incidents : ~incidents[r].present =>
         \E p \in OnDisk(incidents) : Before(incidents, p, r)
    /\ up /\ active # 0 => incidents[active].present
    /\ \A r, p \in DOMAIN incidents :
         (~incidents[r].present /\ incidents[p].present /\ p < r) =>
            \/ Before(incidents, r, p)
            \/ \A q \in 1..r : ~Before(incidents, q, p)
============================================================================
