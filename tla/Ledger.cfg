SPECIFICATION Spec
CONSTANTS
  Transactions = {t1, t2}
  Workflows = {w1, w2}
  Keys = {k1, k2}
  Digests = {g1, g2}
  Deliveries = {d1, d2}
  CheckRuns = {r1, r2}
  MaxEvents = 4
  None = None
  t1 = t1
  t2 = t2
  w1 = w1
  w2 = w2
  k1 = k1
  k2 = k2
  g1 = g1
  g2 = g2
  d1 = d1
  d2 = d2
  r1 = r1
  r2 = r2
SYMMETRY LedgerSymmetry
INVARIANTS
  TypeOK
  AuditChainVerifies
  OneWorkflowPerKey
  EvidenceRecordedOnce
