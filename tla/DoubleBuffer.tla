---------------------------- MODULE DoubleBuffer ----------------------------
(* What a double-buffered plane promises.  One surface is on screen, at most *)
(* one is next, and the memory of both is held until the old one has left.   *)
CONSTANTS Surfaces,   \* surfaces that need memory
          Blank,      \* nothing of ours on screen
          Nothing     \* no update in flight

VARIABLES onScreen, next, held, attached

vars == <<onScreen, next, held, attached>>

Memory(s) == {s} \ {Blank}

Init == /\ onScreen = Blank
        /\ next = Nothing
        /\ held = {}
        /\ attached = TRUE

Submit(s) ==
    /\ attached
    /\ next = Nothing
    /\ next' = s
    /\ held' = held \cup Memory(s)
    /\ UNCHANGED <<onScreen, attached>>

\* The update reaches the screen.
Show ==
    /\ next # Nothing
    /\ onScreen' = next
    /\ UNCHANGED <<next, held, attached>>

\* The submitter learns it, and the memory of the old surface is let go.
Retire ==
    /\ attached
    /\ next = onScreen
    /\ next' = Nothing
    /\ held' = Memory(onScreen)
    /\ UNCHANGED <<onScreen, attached>>

Detach ==
    /\ attached
    /\ attached' = FALSE
    /\ UNCHANGED <<onScreen, next, held>>

TurnOff ==
    /\ ~attached
    /\ onScreen' = Blank
    /\ UNCHANGED <<next, held, attached>>

\* Only a dark plane gives its memory back; otherwise it is kept for good.
Abandon ==
    /\ ~attached
    /\ next' = Nothing
    /\ \/ held' = held
       \/ onScreen = Blank /\ held' = {}
    /\ UNCHANGED <<onScreen, attached>>

Next == (\E s \in Surfaces \cup {Blank} : Submit(s)) \/ Show \/ Retire
        \/ Detach \/ TurnOff \/ Abandon

Spec == Init /\ [][Next]_vars

\* What is on screen is held.
ShownIsHeld == Memory(onScreen) \subseteq held
=============================================================================
