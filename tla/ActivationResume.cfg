SPECIFICATION FairSpec
CONSTANTS
  Runs = {r1, r2}
  MaxResets = 1
CHECK_DEADLOCK FALSE
PROPERTIES StagesResumed
