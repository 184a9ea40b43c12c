\* A ring of three buckets of two units that wraps within the clock's bound.
CONSTANTS
  BUCKETS = 3
  TICK = 2
  WINDOW_TICKS = 2
  SHORT_TICKS = 1
  MaxActive = 1
  MAX_COUNT = 2
  MaxDelta = 1
  MaxTime = 9
SPECIFICATION Spec
INVARIANTS EvidenceExact EvidenceFits
PROPERTIES ImplementsExactWindow
