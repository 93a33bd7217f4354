SPECIFICATION Spec
CONSTANTS
  Calls = {c1, c2}
  AttemptKeys = {k1, k2}
  RollbackKeys = {b1, b2}
  Approvals = {a1, a2, a3, a4}
  None = None
SYMMETRY DeploymentSymmetry
CHECK_DEADLOCK FALSE
INVARIANTS
  TypeOK
  DeployedIsVerified
  ContainedByOneAttempt
  RolledBackIsRestored
  ApprovalSpentOnce
PROPERTIES
  WrittenOverWhatWasRead
