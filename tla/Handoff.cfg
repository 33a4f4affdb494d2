\* Two runs, a reboot, three WindowServers; markers of the previous version.
SPECIFICATION FairSpec
CONSTANTS
  MaxProcesses = 3
  MaxFlips = 1
  MaxBoots = 2
  MaxRuns = 2
  LegacyMarkers = TRUE
INVARIANTS OneDesktopEnded IntentOnDisk
PROPERTIES RunEnds
CHECK_DEADLOCK FALSE
