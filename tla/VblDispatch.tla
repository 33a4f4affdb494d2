----------------------------- MODULE VblDispatch -----------------------------
(* Vertical-blank notification in ReimsIntelADLFramebuffer: a timer polls    *)
(* the pipe's frame counter and calls the registered clients outside the     *)
(* state lock, while clients come, go and are enabled, native calls read the *)
(* same counter, and the framebuffer stops.                                 *)
(*                                                                          *)
(* The state lock is held only within a step.  A registration object is a    *)
(* model value, registered at most once.                                    *)
EXTENDS Naturals

CONSTANTS
    Registrations,     \* ReimsVBLRegistration objects
    NoRegistration,
    Width,             \* values of the frame counter (2^32 in the hardware)
    MaxFrames          \* bound: frames of a behaviour

ASSUME DispatchAssumption ==
    /\ NoRegistration \notin Registrations
    /\ Width \in Nat \ {0, 1}
    /\ MaxFrames \in Nat

VARIABLES
    frame,             \* hardware frame counter
    lastFrame, wraps, notifiedWraps,
    list,              \* vblRegistrations
    registered, enabled,
    created,           \* registrations handed out so far
    ready,
    snapshot,          \* the array tick iterates over; its objects are retained
    remaining,         \*   those it has not looked at yet
    ticking,           \* tick is past its first locked block
    calling,           \* registration whose callback runs
    stopping,          \* stop: "no", "sync", "done", "freed"
    frames,            \* history: frames the hardware has shown
    owed               \* history: a frame was counted and the client not told

frameVars == <<frame, frames>>
counterVars == <<lastFrame, wraps, notifiedWraps>>
clientVars == <<list, registered, enabled, created>>
tickVars == <<snapshot, remaining, ticking, calling>>
stopVars == <<ready, stopping>>
vars == <<frameVars, counterVars, clientVars, tickVars, stopVars, owed>>

Listening == registered \cap enabled

\* Mutant: the counter never rolls over.
ElapsedUnbounded(now, last) == IF now < last THEN 0 ELSE now - last

\* Unsigned subtraction of the counter's width.
Elapsed(now, last) == (now + Width - last) % Width

\* The hardware shows a frame; a tick comes well before the counter is back
\* where it was.
Frame ==
    /\ frames < MaxFrames
    /\ frames + 1 < wraps + Width
    /\ frame' = (frame + 1) % Width
    /\ frames' = frames + 1
    /\ UNCHANGED <<counterVars, clientVars, tickVars, stopVars, owed>>

\* observeScanout: every frame since the last look is counted.
Counted ==
    /\ wraps' = wraps + Elapsed(frame, lastFrame)
    /\ lastFrame' = frame

\* Mutant: one mark for the counter and for the notification.
ObserveConsumes ==
    /\ Counted
    /\ notifiedWraps' = wraps'
    /\ owed' = IF wraps' = wraps THEN owed ELSE owed \cup Listening
    /\ UNCHANGED <<frameVars, clientVars, tickVars, stopVars>>

\* flip and itcm look at the counter too, under the lock.
Observe ==
    /\ Counted
    /\ owed' = IF wraps' = wraps THEN owed ELSE owed \cup Listening
    /\ UNCHANGED <<frameVars, notifiedWraps, clientVars, tickVars, stopVars>>

\* tick compares with its own mark, not with the last look.
News == wraps' # notifiedWraps

\* First block of tick.
TickBegin ==
    /\ ready
    /\ ~ticking
    /\ Counted
    /\ owed' = IF wraps' = wraps THEN owed ELSE owed \cup Listening
    /\ IF News
       THEN /\ notifiedWraps' = wraps'
            /\ ticking' = TRUE
            /\ snapshot' = list
            /\ remaining' = list
       ELSE UNCHANGED <<notifiedWraps, ticking, snapshot, remaining>>
    /\ UNCHANGED <<frameVars, clientVars, calling, stopVars>>

\* Mutant: the snapshot decides, not the state at the moment of the call.
MayCallSnapshot(r) == ready

\* The second look, under the lock again.
MayCall(r) == ready /\ r \in Listening

\* The next registration of the snapshot: called, or passed over.
TickClaim ==
    /\ ticking
    /\ calling = NoRegistration
    /\ \E r \in remaining :
          /\ remaining' = remaining \ {r}
          /\ calling' = IF MayCall(r) THEN r ELSE NoRegistration
          /\ owed' = IF MayCall(r) THEN owed \ {r} ELSE owed
    /\ UNCHANGED <<frameVars, counterVars, clientVars, snapshot, ticking, stopVars>>

CallbackReturns ==
    /\ calling # NoRegistration
    /\ calling' = NoRegistration
    /\ UNCHANGED <<frameVars, counterVars, clientVars, snapshot, remaining,
                   ticking, stopVars, owed>>

\* Mutant: a tick that meets stop never finishes.
TickEndWhileReady ==
    /\ ready
    /\ ticking
    /\ remaining = {}
    /\ calling = NoRegistration
    /\ ticking' = FALSE
    /\ snapshot' = {}
    /\ UNCHANGED <<frameVars, counterVars, clientVars, remaining, calling,
                   stopVars, owed>>

TickEnd ==
    /\ ticking
    /\ remaining = {}
    /\ calling = NoRegistration
    /\ ticking' = FALSE
    /\ snapshot' = {}
    /\ UNCHANGED <<frameVars, counterVars, clientVars, remaining, calling,
                   stopVars, owed>>

----------------------------------------------------------------------------
(* Clients, on their own threads or from within a callback.                  *)

Usable == stopping # "freed"

\* registerForInterruptType: the list is replaced, never changed in place.
registerForInterruptType(r) ==
    /\ Usable
    /\ r \notin created
    /\ created' = created \cup {r}
    /\ list' = list \cup {r}
    /\ registered' = registered \cup {r}
    /\ UNCHANGED <<enabled, frameVars, counterVars, tickVars, stopVars, owed>>

\* First the object is made inactive.
Deactivated(r) ==
    /\ registered' = registered \ {r}
    /\ enabled' = enabled \ {r}
    /\ owed' = owed \ {r}

\* unregisterInterrupt: without memory for a new list the inactive object stays.
unregisterInterrupt(r) ==
    /\ Usable
    /\ r \in list
    /\ Deactivated(r)
    /\ list' \in {list, list \ {r}}
    /\ UNCHANGED <<created, frameVars, counterVars, tickVars, stopVars>>

setInterruptState(r, on) ==
    /\ Usable
    /\ r \in list \cap registered
    /\ enabled' = IF on THEN enabled \cup {r} ELSE enabled \ {r}
    /\ owed' = IF on THEN owed ELSE owed \ {r}
    /\ UNCHANGED <<list, registered, created, frameVars, counterVars, tickVars,
                   stopVars>>

----------------------------------------------------------------------------
(* stop and free.                                                            *)

stopBegin ==
    /\ stopping = "no"
    /\ stopping' = "sync"
    /\ ready' = FALSE
    /\ UNCHANGED <<frameVars, counterVars, clientVars, tickVars, owed>>

\* Mutant: the timer is cancelled but its running action not awaited.
SyncedAtOnce == TRUE

\* removeEventSource runs on the timer's work loop, after its action.
Synced == ~ticking

stopSync ==
    /\ stopping = "sync"
    /\ Synced
    /\ stopping' = "done"
    /\ UNCHANGED <<ready, frameVars, counterVars, clientVars, tickVars, owed>>

free ==
    /\ stopping = "done"
    /\ stopping' = "freed"
    /\ list' = {}
    /\ UNCHANGED <<ready, registered, enabled, created, frameVars, counterVars,
                   tickVars, owed>>

----------------------------------------------------------------------------
Init ==
    /\ frame \in 0..(Width - 1)
    /\ lastFrame = frame
    /\ wraps = 0
    /\ notifiedWraps = 0
    /\ list = {}
    /\ registered = {}
    /\ enabled = {}
    /\ created = {}
    /\ ready = TRUE
    /\ snapshot = {}
    /\ remaining = {}
    /\ ticking = FALSE
    /\ calling = NoRegistration
    /\ stopping = "no"
    /\ frames = 0
    /\ owed = {}

Tick == TickBegin \/ TickClaim \/ CallbackReturns \/ TickEnd

Client ==
    \E r \in Registrations :
        \/ registerForInterruptType(r)
        \/ unregisterInterrupt(r)
        \/ \E on \in BOOLEAN : setInterruptState(r, on)

Stop == stopBegin \/ stopSync \/ free

Next == Frame \/ Observe \/ Tick \/ Client \/ Stop

Spec == Init /\ [][Next]_vars

\* The timer re-arms itself every millisecond while ready, and callbacks
\* return.
FairSpec == Spec /\ WF_vars(Tick) /\ WF_vars(stopSync)

----------------------------------------------------------------------------
TypeOK ==
    /\ {frame, lastFrame} \subseteq 0..(Width - 1)
    /\ {wraps, notifiedWraps, frames} \subseteq 0..MaxFrames
    /\ list \subseteq created
    /\ created \subseteq Registrations
    /\ registered \subseteq created
    /\ enabled \subseteq registered
    /\ remaining \subseteq snapshot
    /\ snapshot \subseteq created
    /\ owed \subseteq created
    /\ calling \in created \cup {NoRegistration}
    /\ {ready, ticking} \subseteq BOOLEAN
    /\ stopping \in {"no", "sync", "done", "freed"}

\* No frame is lost or counted twice, across the counter's rollover and
\* whoever looks first (intel_framebuffer.cpp 180-183).
FramesCounted ==
    /\ wraps <= frames
    /\ (lastFrame + frames - wraps) % Width = frame

\* A client that was listening when a frame was counted is told, unless it
\* stops listening or the framebuffer stops: a flip or itcm that reads the
\* counter first does not consume the notification (274-276).
NotificationKept ==
    \A r \in owed : ready => wraps # notifiedWraps \/ r \in remaining

\* The object whose callback runs is still retained, by the list or by the
\* snapshot, whatever is unregistered or freed meanwhile (23-37, 287-288).
CallbackOwned ==
    calling # NoRegistration =>
        /\ calling \in list \cup snapshot
        /\ stopping # "freed"

\* unregister prevents later dispatches: only a callback that was already
\* claimed may still run (286-287, 494-495).
NoLateDispatch ==
    [][\A r \in created : calling' = r /\ calling # r =>
          /\ r \in registered
          /\ r \in list
          /\ stopping = "no"]_vars

\* A counted frame reaches its clients while the framebuffer is ready.
ClientTold ==
    \A r \in Registrations : r \in owed ~> (r \notin owed \/ ~ready)

\* stop ends, though a callback may be running when it begins (390).
StopEnds == stopping = "sync" ~> stopping \in {"done", "freed"}
=============================================================================
