\* One cell for each concurrency; five instants; a profile that expires within them.
SPECIFICATION Spec
CONSTANTS
  NativeMaxRunning = 2
  InitialReference = 0
  Profiles <- MCProfiles
  WINDOW = 2
  SHORT_WINDOW = 1
  MAX_SURFACE_AGE = 2
  MIN_EXPOSURE = 2
  TTL = 4
  References = {1}
  Deltas = {0, 3}
  LoadedClasses = {0}
  MaxTime = 4
  MaxRevision = 2
  MaxEpoch = 1
INVARIANTS
  TypeOK
  VerdictsPermitted
  ReprobeSafe
  ExportLoads
  RestartConservative
  RunIsCurrent
PROPERTIES
  ImplementsCore
