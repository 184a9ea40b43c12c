\* A profile for the lighter cell, and batches shorter than what qualifies a cell.
SPECIFICATION Spec
CONSTANTS
  NativeMaxRunning = 2
  InitialReference = 1
  Profiles <- MCLightProfiles
  WINDOW = 2
  SHORT_WINDOW = 1
  MAX_SURFACE_AGE = 2
  MIN_EXPOSURE = 2
  TTL = 4
  References = {1}
  Deltas = {0, 2}
  LoadedClasses = {0}
  MaxTime = 3
  MaxRevision = 2
  MaxEpoch = 1
INVARIANTS
  ExpansionIsEarned
