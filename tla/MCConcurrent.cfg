\* Control calls from other threads between the steps of a result.
CONSTANTS
  r1 = r1
  r2 = r2
  r3 = r3
  h1 = h1
  Req = {r1, r2, h1}
  HealthReq = {h1}
  Horizon <- MCHorizon
  NativeMaxRunning = 2
  InitialReference = 0
  ProfileDeadline = 1
  WINDOW_SECONDS = 2
  BUCKET_SECONDS = 1
  MAX_WAITING_LIMIT = 0
  EXPLORATION_INTERVAL = 2
  PENDING_HORIZON = 2
  OnlineExploration = TRUE
  Identities = {"a", "b"}
  Clients = {}
  References = {}
  WaitingKnown = FALSE
  ConcurrentControl = TRUE
  Retraction = TRUE
  MaxGain = 1
  MaxTokens = 2
  MaxClock = 1
  MaxEpoch = 1
  MaxRevision = 1
SPECIFICATION Spec
INVARIANTS QuarantineAgrees EpochPure ExposureAccounted ReservationsMatchOwners
CHECK_DEADLOCK FALSE
