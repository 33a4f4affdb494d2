------------------------- MODULE VblDispatch_proofs -------------------------
(* Theorems about the vertical-blank notification, for any number of         *)
(* registrations, any width of the frame counter and any number of frames.   *)
EXTENDS VblDispatch, TLAPS

USE DEF vars, frameVars, counterVars, clientVars, tickVars, stopVars

----------------------------------------------------------------------------
(* The counter.                                                              *)

\* A number below the width of the counter is its own remainder.
LEMMA ModSmall ==
    ASSUME NEW a \in 0..(Width - 1)
    PROVE  a % Width = a
  BY DispatchAssumption

\* The remainder of a number that has gone over once.
LEMMA ModOver ==
    ASSUME NEW a \in Width..(2 * Width - 1)
    PROVE  a % Width = a - Width
  BY DispatchAssumption

\* Fewer frames than a turn of the counter are outstanding.
WithinTurn == frames < wraps + Width

CountInv == FramesCounted /\ WithinTurn

\* The unsigned difference is the number of frames since the last look.
LEMMA ElapsedIsOutstanding ==
    ASSUME TypeOK, CountInv
    PROVE  Elapsed(frame, lastFrame) = frames - wraps
<1> DEFINE gap == frames - wraps
<1>1. /\ Width \in Nat \ {0, 1} /\ gap \in 0..(Width - 1)
      /\ frame \in 0..(Width - 1) /\ lastFrame \in 0..(Width - 1)
      /\ (lastFrame + frames - wraps) % Width = frame
      /\ frames \in Nat /\ wraps \in Nat
  BY DispatchAssumption DEF TypeOK, CountInv, FramesCounted, WithinTurn
<1>2. CASE lastFrame + gap < Width
  <2>1. frame = lastFrame + gap
    BY <1>1, <1>2, ModSmall
  <2>2. frame + Width - lastFrame = gap + Width
    BY <1>1, <2>1
  <2>3. (gap + Width) % Width = gap
    BY <1>1, ModOver
  <2>4. QED
    BY <2>2, <2>3 DEF Elapsed
<1>3. CASE lastFrame + gap >= Width
  <2>1. frame = lastFrame + gap - Width
    BY <1>1, <1>3, ModOver
  <2>2. frame + Width - lastFrame = gap
    BY <1>1, <2>1
  <2>3. gap % Width = gap
    BY <1>1, ModSmall
  <2>4. QED
    BY <2>2, <2>3 DEF Elapsed
<1>4. QED
  BY <1>1, <1>2, <1>3

\* A look at the counter accounts for every frame shown.
LEMMA LookCountsAll ==
    ASSUME TypeOK, CountInv, Counted, UNCHANGED frameVars
    PROVE  /\ wraps' = frames /\ wraps <= wraps' /\ lastFrame' = frame
           /\ CountInv'
<1>1. Elapsed(frame, lastFrame) = frames - wraps
  BY ElapsedIsOutstanding
<1>2. wraps' = frames /\ wraps <= wraps' /\ lastFrame' = frame
  BY <1>1 DEF Counted, TypeOK, CountInv, FramesCounted
<1>3. frame % Width = frame
  BY ModSmall DEF TypeOK
<1>4. QED
  BY <1>2, <1>3, DispatchAssumption
     DEF TypeOK, CountInv, FramesCounted, WithinTurn

\* The next frame moves the counter by one, also over its end.
LEMMA FrameCounts ==
    ASSUME TypeOK, CountInv, Frame
    PROVE  CountInv'
<1> DEFINE sum == lastFrame + frames - wraps
<1>1. /\ Width \in Nat \ {0, 1} /\ sum \in 0..(2 * Width - 2)
      /\ sum + 1 \in 0..(2 * Width - 1)
      /\ frame = sum % Width /\ frame \in 0..(Width - 1)
      /\ frame' = (frame + 1) % Width /\ frames' = frames + 1
      /\ lastFrame' = lastFrame /\ wraps' = wraps
      /\ frames \in Nat /\ wraps \in Nat /\ lastFrame \in Nat
  BY DispatchAssumption
     DEF TypeOK, CountInv, FramesCounted, WithinTurn, Frame
<1>2. (sum + 1) % Width = frame'
  <2>1. CASE sum + 1 < Width
    <3>1. frame = sum
      BY <1>1, <2>1, ModSmall
    <3>2. QED
      BY <1>1, <3>1
  <2>2. CASE sum + 1 = Width
    <3>1. frame = sum
      BY <1>1, <2>2, ModSmall
    <3>2. QED
      BY <1>1, <3>1
  <2>3. CASE sum + 1 > Width
    <3>1. frame = sum - Width
      BY <1>1, <2>3, ModOver
    <3>2. frame + 1 \in 0..(Width - 1)
      BY <1>1, <3>1
    <3>3. frame' = sum - Width + 1
      BY <1>1, <3>1, <3>2, ModSmall
    <3>4. (sum + 1) % Width = sum + 1 - Width
      BY <1>1, <2>3, ModOver
    <3>5. QED
      BY <1>1, <3>3, <3>4
  <2>4. QED
    BY <1>1, <2>1, <2>2, <2>3
<1>3. (lastFrame' + frames' - wraps') = sum + 1
  BY <1>1
<1>4. FramesCounted'
  BY <1>1, <1>2, <1>3 DEF CountInv, FramesCounted
<1>5. QED
  BY <1>1, <1>4 DEF Frame, CountInv, WithinTurn
----------------------------------------------------------------------------
(* The invariant.                                                            *)

\* Who listens is in the list while the framebuffer is ready, and only who
\* listens is owed.
ClientInv ==
    /\ ready <=> stopping = "no"
    /\ ready => registered \subseteq list
    /\ owed \subseteq Listening
    /\ notifiedWraps <= wraps

\* A callback belongs to a tick that runs, which stop awaits.
TickInv ==
    /\ calling # NoRegistration => ticking /\ calling \in snapshot
    /\ ticking => stopping \in {"no", "sync"}

Inv == TypeOK /\ CountInv /\ ClientInv /\ TickInv /\ NotificationKept

\* At start nothing is counted, owed or called.
THEOREM InvInit == Init => Inv
<1> SUFFICES ASSUME Init PROVE Inv
  OBVIOUS
<1>1. TypeOK
  <2>1. frame \in 0..(Width - 1) /\ 0 \in 0..MaxFrames
    BY DispatchAssumption DEF Init
  <2>2. QED
    BY <2>1 DEF Init, TypeOK
<1>2. CountInv
  BY <1>1, ModSmall, DispatchAssumption
     DEF Init, TypeOK, CountInv, FramesCounted, WithinTurn
<1>3. ClientInv /\ TickInv /\ NotificationKept
  BY DEF Init, ClientInv, TickInv, NotificationKept, Listening
<1>4. QED
  BY <1>1, <1>2, <1>3 DEF Inv

\* The invariant of the vertical blank is inductive.
THEOREM InvStep == Inv /\ [Next]_vars => Inv'
<1> SUFFICES ASSUME Inv, [Next]_vars PROVE Inv'
  OBVIOUS
<1> USE DEF Inv
<1>1. CASE Frame
  <2>1. CountInv'
    BY <1>1, FrameCounts
  <2>2. TypeOK'
    <3>1. frame' \in 0..(Width - 1)
      BY <1>1, DispatchAssumption DEF Frame, TypeOK
    <3>2. QED
      BY <1>1, <3>1, DispatchAssumption DEF Frame, TypeOK
  <2>3. QED
    BY <1>1, <2>1, <2>2
       DEF Frame, ClientInv, TickInv, NotificationKept, Listening, TypeOK
<1>2. CASE Observe
  <2>1. wraps' = frames /\ wraps <= wraps' /\ lastFrame' = frame /\ CountInv'
    BY <1>2, LookCountsAll DEF Observe
  <2>2. TypeOK'
    BY <1>2, <2>1 DEF Observe, TypeOK, ClientInv, Listening
  <2>3. ClientInv' /\ TickInv'
    BY <1>2, <2>1 DEF Observe, TypeOK, ClientInv, TickInv, Listening
  <2>4. NotificationKept'
    BY <1>2, <2>1 DEF Observe, TypeOK, ClientInv, NotificationKept
  <2>5. QED
    BY <2>1, <2>2, <2>3, <2>4
<1>3. CASE TickBegin
  <2>1. wraps' = frames /\ wraps <= wraps' /\ lastFrame' = frame /\ CountInv'
    BY <1>3, LookCountsAll DEF TickBegin
  <2>2. TypeOK'
    BY <1>3, <2>1 DEF TickBegin, TypeOK, ClientInv, Listening
  <2>3. ClientInv'
    BY <1>3, <2>1 DEF TickBegin, TypeOK, ClientInv, Listening, News
  <2>4. TickInv'
    BY <1>3, <2>1 DEF TickBegin, TypeOK, ClientInv, TickInv
  <2>5. NotificationKept'
    BY <1>3, <2>1 DEF TickBegin, TypeOK, ClientInv, Listening, News, NotificationKept
  <2>6. QED
    BY <2>1, <2>2, <2>3, <2>4, <2>5
<1>4. CASE TickClaim
  <2>1. TypeOK' /\ CountInv'
    BY <1>4 DEF TickClaim, TypeOK, CountInv, FramesCounted, WithinTurn, MayCall, Listening
  <2>2. ClientInv' /\ TickInv'
    BY <1>4 DEF TickClaim, TypeOK, ClientInv, TickInv, Listening
  <2>3. NotificationKept'
    BY <1>4 DEF TickClaim, ClientInv, NotificationKept, MayCall
  <2>4. QED
    BY <2>1, <2>2, <2>3
<1>5. CASE CallbackReturns \/ TickEnd
  <2>1. TypeOK' /\ CountInv'
    BY <1>5 DEF CallbackReturns, TickEnd, TypeOK, CountInv, FramesCounted, WithinTurn
  <2>2. ClientInv' /\ TickInv'
    BY <1>5 DEF CallbackReturns, TickEnd, TypeOK, ClientInv, TickInv, Listening
  <2>3. NotificationKept'
    BY <1>5 DEF CallbackReturns, TickEnd, NotificationKept
  <2>4. QED
    BY <2>1, <2>2, <2>3
<1>6. ASSUME NEW r \in Registrations, registerForInterruptType(r)
      PROVE  Inv'
  BY <1>6 DEF registerForInterruptType, TypeOK, CountInv, FramesCounted, WithinTurn,
     ClientInv, TickInv, NotificationKept, Listening
<1>7. ASSUME NEW r \in Registrations, unregisterInterrupt(r)
      PROVE  Inv'
  <2>1. TypeOK' /\ CountInv'
    BY <1>7 DEF unregisterInterrupt, Deactivated, TypeOK, CountInv, FramesCounted, WithinTurn
  <2>2. ClientInv' /\ TickInv'
    BY <1>7 DEF unregisterInterrupt, Deactivated, TypeOK, ClientInv, TickInv, Listening
  <2>3. NotificationKept'
    BY <1>7 DEF unregisterInterrupt, Deactivated, ClientInv, NotificationKept, Listening
  <2>4. QED
    BY <2>1, <2>2, <2>3
<1>8. ASSUME NEW r \in Registrations, NEW on \in BOOLEAN, setInterruptState(r, on)
      PROVE  Inv'
  BY <1>8 DEF setInterruptState, TypeOK, CountInv, FramesCounted, WithinTurn,
     ClientInv, TickInv, NotificationKept, Listening
<1>9. CASE Stop
  <2>1. TypeOK' /\ CountInv'
    BY <1>9 DEF Stop, stopBegin, stopSync, Synced, free, TypeOK, CountInv, FramesCounted, WithinTurn
  <2>2. ClientInv' /\ TickInv'
    BY <1>9 DEF Stop, stopBegin, stopSync, Synced, free, TypeOK, ClientInv, TickInv, Listening
  <2>3. NotificationKept'
    BY <1>9 DEF Stop, stopBegin, stopSync, Synced, free, ClientInv, NotificationKept, Listening
  <2>4. QED
    BY <2>1, <2>2, <2>3
<1>10. CASE UNCHANGED vars
  BY <1>10 DEF TypeOK, CountInv, FramesCounted, WithinTurn,
     ClientInv, TickInv, NotificationKept, Listening
<1>11. QED
  BY <1>1, <1>2, <1>3, <1>4, <1>5, <1>6, <1>7, <1>8, <1>9, <1>10
     DEF Next, Tick, Client

\* Timer, clients and stop keep the invariant in every order.
THEOREM Invariance == Spec => []Inv
  BY InvInit, InvStep, PTL DEF Spec
----------------------------------------------------------------------------
\* Types: what is enabled is registered, what is owed or called was created.
THEOREM TypeCorrect == Spec => []TypeOK
<1>1. Inv => TypeOK
  BY DEF Inv
<1>2. QED
  BY <1>1, Invariance, PTL

\* Whatever the width of the counter, no frame is lost or counted twice, by
\* whichever of tick, flip and itcm looks first.
THEOREM FramesAreCounted == Spec => []FramesCounted
<1>1. Inv => FramesCounted
  BY DEF Inv, CountInv
<1>2. QED
  BY <1>1, Invariance, PTL

\* A notification owed to a listening client is still to come.
THEOREM NotificationsAreKept == Spec => []NotificationKept
<1>1. Inv => NotificationKept
  BY DEF Inv
<1>2. QED
  BY <1>1, Invariance, PTL

\* A running callback's object is retained, and the framebuffer not freed.
THEOREM CallbacksAreOwned == Spec => []CallbackOwned
<1>1. Inv => CallbackOwned
  BY DEF Inv, TickInv, CallbackOwned
<1>2. QED
  BY <1>1, Invariance, PTL

\* No callback begins after its client has unregistered or stop has begun.
THEOREM DispatchesInTime == Spec => NoLateDispatch
<1>1. Inv /\ [Next]_vars =>
        [\A r \in created : calling' = r /\ calling # r =>
          /\ r \in registered
          /\ r \in list
          /\ stopping = "no"]_vars
  <2> SUFFICES ASSUME Inv, [Next]_vars,
                      NEW r \in created, calling' = r, calling # r
               PROVE  r \in registered /\ r \in list /\ stopping = "no"
    OBVIOUS
  <2>1. r # NoRegistration
    BY DispatchAssumption DEF Inv, TypeOK
  <2>2. TickClaim /\ MayCall(r)
    BY <2>1 DEF Next, Frame, Observe, Tick, TickBegin, TickClaim, CallbackReturns,
       TickEnd, Client, registerForInterruptType, unregisterInterrupt,
       setInterruptState, Stop, stopBegin, stopSync, free
  <2>3. QED
    BY <2>2 DEF MayCall, Listening, Inv, ClientInv
<1>2. QED
  BY <1>1, Invariance, PTL DEF Spec, NoLateDispatch
=============================================================================
