\* Two threads on one context and slot: scratch hand-over, resource kinds,
\* budget, partial deallocation and failing unmaps.
SPECIFICATION Spec
CONSTANTS
  t1 = t1 t2 = t2 w1 = w1 c1 = c1 c2 = c2 s1 = s1 s2 = s2
  sysmem = sysmem foreign = foreign buffer = buffer x1 = x1 x2 = x2 p1 = p1 p2 = p2
  NoContext = NoContext NoSlot = NoSlot
  Memory <- MCMemory
  DataBuffers <- MCBuffers
  Size <- MCSize
  Workers <- MCOneWorker
  Threads <- MCTwoThreads
  Contexts <- MCOneContext
  Slots <- MCOneSlot
  Resources <- MCAllKinds
  Scratch <- MCTwoScratch
  Pages <- MCTwoPages
  Ranges <- MCParts
  Supported <- MCSysmem
  Budget = 3
  MaxCatalog = 2
  MaxHeld = 2
  MaxDeferred = 1
  MaxDrain = 1
  MaxEnds = 1
  UnmapMayFail = TRUE
SYMMETRY MCThreadSymmetry
INVARIANTS GpuSafe ScratchOwnedOnce ReferencesExact BudgetExact
