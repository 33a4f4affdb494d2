\* More resources than entries of the proof cache, all linear.
SPECIFICATION Spec
CONSTANTS
  r1 = r1 r2 = r2 r3 = r3 b1 = b1 b2 = b2 b3 = b3
  NoResource = NoResource NoBase = NoBase BootBase = BootBase
  Resources <- MCThreeResources
  Tiled <- MCNoTiled
  Bases <- MCThreeBases
  CacheSize = 2
SYMMETRY MCAllSymmetry
INVARIANTS ScanoutMapped PinsBalance
