SPECIFICATION Spec
CONSTANTS
  Workflows = {w1}
  Workers = {p1}
  Tokens = {1, 2}
  Providers = {a}
  Revisions = {r1}
  OutputSizes = {"FITS"}
  ErrorCodes = {"ProviderError", "ValidationError"}
  LeaseTicks = 1
  MaxAttempts = 2
  MaxRetries = 0
  None = None
CHECK_DEADLOCK FALSE
INVARIANT ValidationFailuresNotRetried
