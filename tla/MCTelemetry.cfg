\* Admission calls counted, captured and published, with stale clock readings.
CONSTANTS
  r1 = r1
  r2 = r2
  Req = {r1, r2}
  HealthReq = {}
  Horizon <- MCHorizon
  NativeMaxRunning = 1
  InitialReference = 1
  ProfileDeadline = 0
  WINDOW_SECONDS = 2
  BUCKET_SECONDS = 1
  MAX_WAITING_LIMIT = 1
  EXPLORATION_INTERVAL = 2
  PENDING_HORIZON = 2
  OnlineExploration = TRUE
  Identities = {"a", "b"}
  Clients = {"p"}
  References = {}
  WaitingKnown = TRUE
  ConcurrentControl = TRUE
  Retraction = FALSE
  MaxGain = 1
  MaxTokens = 1
  MaxClock = 1
  MaxEpoch = 1
  MaxRevision = 1
  CAPACITY = 2
  MAX_EVENTS = 3
  DURATION = 1
  MaxAttempts = 4
SPECIFICATION TelemetrySpec
SYMMETRY Symmetry
INVARIANTS AttemptsExact CaptureIsPrefix CaptureReconciles ScrapesSound
CHECK_DEADLOCK FALSE
