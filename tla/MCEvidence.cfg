\* Batches of up to two tokens: what the core learns, and when it is probed.
CONSTANTS
  r1 = r1
  r2 = r2
  r3 = r3
  h1 = h1
  Req = {r1, r2}
  HealthReq = {}
  Horizon <- MCHorizon
  NativeMaxRunning = 2
  InitialReference = 1
  ProfileDeadline = 2
  WINDOW_SECONDS = 2
  BUCKET_SECONDS = 1
  MAX_WAITING_LIMIT = 1
  EXPLORATION_INTERVAL = 2
  PENDING_HORIZON = 2
  OnlineExploration = TRUE
  Identities = {"a", "b"}
  Clients = {}
  References = {}
  WaitingKnown = TRUE
  ConcurrentControl = FALSE
  Retraction = FALSE
  MaxGain = 2
  MaxTokens = 3
  MaxClock = 3
  MaxEpoch = 1
  MaxRevision = 1
SPECIFICATION Spec
INVARIANTS TokensConserved ExposureAccounted ProbesSpaced
