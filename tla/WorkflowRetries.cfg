SPECIFICATION Spec
CONSTANTS
  Workflows = {w1}
  Workers = {p1, p2}
  Tokens = {1, 2, 3, 4}
  Providers = {a, b}
  Revisions = {r1}
  OutputSizes = {"FITS"}
  ErrorCodes = {"ProviderError"}
  LeaseTicks = 2
  MaxAttempts = 2
  MaxRetries = 0
  None = None
SYMMETRY Symmetry
CHECK_DEADLOCK FALSE
INVARIANTS
  GrantFollowsTask
  ReviewIndependence
  SingleExecutor
