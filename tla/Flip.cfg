\* A tiled and a linear resource, one entry of the proof cache.
SPECIFICATION FairSpec
CONSTANTS
  r1 = r1 r2 = r2 r3 = r3 b1 = b1 b2 = b2 b3 = b3
  NoResource = NoResource NoBase = NoBase BootBase = BootBase
  Resources <- MCTwoResources
  Tiled <- MCOneTiled
  Bases <- MCTwoBases
  CacheSize = 1
INVARIANTS FrontIsOnScreen TiledRouted
PROPERTIES BufferSpec FlipCompletes
