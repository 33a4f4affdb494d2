\* Two clients; the counter rolls over.
SPECIFICATION FairSpec
CONSTANTS
  a = a b = b
  NoRegistration = NoRegistration
  Registrations <- MCTwo
  Width = 3
  MaxFrames = 4
INVARIANTS FramesCounted CallbackOwned
PROPERTIES NoLateDispatch ClientTold StopEnds
