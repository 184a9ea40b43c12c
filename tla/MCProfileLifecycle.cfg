\* A profile's way through several servers while runtime and file change.
SPECIFICATION Spec
CONSTANTS
  i1 = i1
  i2 = i2
  NoInode = NoInode
  NoIdentity = NoIdentity
  Inodes = {i1, i2}
  MaxRunning = 1
  MaxCells = 1
  VALID_FOR = 2
  WINDOW = 1
  START_DELAY = 1
  CONTROL_TIMEOUT = 1
  FirstClock = 1
  MaxClock = 4
  Statics <- MCStatics
  Capacities = {1, 2}
  Runtimes <- MCRuntimes
  Measured <- MCMeasured
  Seeds <- MCSeeds
SYMMETRY Symmetry
INVARIANTS
  PriorFresh
  PriorFits
  PriorReported
  PinnedIsLoaded
  ExportsLoad
