\* Admission, batches, aborts and roll-backs of three requests while the limits are patched.
CONSTANTS
  r1 = r1
  r2 = r2
  r3 = r3
  h1 = h1
  Req = {r1, r2, r3}
  HealthReq = {}
  Horizon <- MCHorizon
  NativeMaxRunning = 2
  InitialReference = 1
  ProfileDeadline = 9
  WINDOW_SECONDS = 2
  BUCKET_SECONDS = 1
  MAX_WAITING_LIMIT = 1
  EXPLORATION_INTERVAL = 2
  PENDING_HORIZON = 2
  OnlineExploration = TRUE
  Identities = {"a"}
  Clients = {"p"}
  References = {1}
  WaitingKnown = TRUE
  ConcurrentControl = FALSE
  Retraction = FALSE
  MaxGain = 1
  MaxTokens = 2
  MaxClock = 1
  MaxEpoch = 0
  MaxRevision = 2
SPECIFICATION Spec
INVARIANTS LedgerExact ActiveExact ReservationsMatchOwners LoadBounded NeverRefused
