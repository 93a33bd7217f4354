SPECIFICATION RemoteSpec
CONSTANTS
  Workflows = {w1}
  Workers = {p1}
  Calls = {c1, c2}
  Tokens = {1, 2, 3}
  Providers = {a}
  Revisions = {r1, r2}
  OutputSizes = {"FITS"}
  ErrorCodes = {"ProviderError"}
  LeaseTicks = 1
  MaxAttempts = 2
  MaxRetries = 1
  MaxHandoffs = 2
  None = None
SYMMETRY RemoteSymmetry
CHECK_DEADLOCK FALSE
INVARIANTS
  RemoteTypeOK
  RunningSessionIsExclusive
  GrantOnlyForLiveTask
  OneResultAccepted
PROPERTIES
  OutcomeStands
