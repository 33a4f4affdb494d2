\* Liveness: two contexts compete for one slot, one worker.
SPECIFICATION FairSpec
CONSTANTS
  t1 = t1 t2 = t2 w1 = w1 c1 = c1 c2 = c2 s1 = s1 s2 = s2
  sysmem = sysmem foreign = foreign buffer = buffer x1 = x1 x2 = x2 p1 = p1 p2 = p2
  NoContext = NoContext NoSlot = NoSlot
  Memory <- MCMemory
  DataBuffers <- MCBuffers
  Size <- MCSize
  Workers <- MCOneWorker
  Threads <- MCOneThread
  Contexts <- MCTwoContexts
  Slots <- MCOneSlot
  Resources <- MCSysmem
  Scratch <- MCNone
  Pages <- MCOnePage
  Ranges <- MCWhole
  Supported <- MCSysmem
  Budget = 2
  MaxCatalog = 1
  MaxHeld = 1
  MaxDeferred = 1
  MaxDrain = 2
  MaxEnds = 1
  UnmapMayFail = FALSE
PROPERTIES BatchReturns ContextReclaimed
