SPECIFICATION FairSpec
CONSTANTS
  Runs = {r1, r2}
  MaxResets = 2
CHECK_DEADLOCK FALSE
INVARIANTS WorkaroundHeld HandoffOrder DoneMeansReady
PROPERTIES CommitsOnce RunEnds
