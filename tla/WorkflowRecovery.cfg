SPECIFICATION FairSpec
CONSTANTS
  Workflows = {w1}
  Workers = {p1, p2}
  Tokens = {1, 2, 3, 4}
  Providers = {a, b}
  Revisions = {r1, r2}
  OutputSizes = {"FITS", "OVERSIZED"}
  ErrorCodes = {"ProviderError"}
  LeaseTicks = 1
  MaxAttempts = 1
  MaxRetries = 1
  None = None
CHECK_DEADLOCK FALSE
INVARIANTS
  TypeOK
  LiveTaskDrivesState
  SingleExecutor
  UnknownOutcomeNeedsHuman
  BlockIsReconcilable
  EvidenceBindsCandidate
  NoTransitionRaises
PROPERTIES
  FinishedAttemptsImmutable
  WorkComesToRest
  ImplementsLifecycle
