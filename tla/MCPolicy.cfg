\* Two administrators patch the policy while requests and identities move.
CONSTANTS
  r1 = r1
  r2 = r2
  r3 = r3
  h1 = h1
  Req = {r1, r2}
  HealthReq = {}
  Horizon <- MCHorizon
  NativeMaxRunning = 1
  InitialReference = 0
  ProfileDeadline = 0
  WINDOW_SECONDS = 2
  BUCKET_SECONDS = 1
  MAX_WAITING_LIMIT = 2
  EXPLORATION_INTERVAL = 2
  PENDING_HORIZON = 2
  OnlineExploration = TRUE
  Identities = {"a", "b"}
  Clients = {"p", "q"}
  References = {0, 1}
  WaitingKnown = TRUE
  ConcurrentControl = FALSE
  Retraction = FALSE
  MaxGain = 1
  MaxTokens = 1
  MaxClock = 0
  MaxEpoch = 1
  MaxRevision = 3
SPECIFICATION Spec
PROPERTIES NoLostUpdate AdmissionWithinLimits AdmittedUnderServedIdentity
