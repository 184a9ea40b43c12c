\* Retracted requests keep counting as active.
CONSTANTS
  r1 = r1
  r2 = r2
  r3 = r3
  h1 = h1
  Req = {r1, r2, r3}
  HealthReq = {}
  Horizon <- MCHorizon
  NativeMaxRunning = 2
  InitialReference = 1
  ProfileDeadline = 9
  WINDOW_SECONDS = 2
  BUCKET_SECONDS = 1
  MAX_WAITING_LIMIT = 1
  EXPLORATION_INTERVAL = 2
  PENDING_HORIZON = 2
  OnlineExploration = TRUE
  Identities = {"a"}
  Clients = {}
  References = {}
  WaitingKnown = TRUE
  ConcurrentControl = FALSE
  Retraction = TRUE
  MaxGain = 1
  MaxTokens = 2
  MaxClock = 0
  MaxEpoch = 0
  MaxRevision = 1
SPECIFICATION Spec
INVARIANTS NeverRefused
CHECK_DEADLOCK FALSE
