SPECIFICATION Spec
CONSTANTS
  Calls = {c1, c2}
  ProposalKeys = {p1, p2}
  AssessmentKeys = {a1}
  ConfirmationKeys = {f1, f2}
  Revisions = {r1, r2}
  Candidate = r1
  None = None
SYMMETRY CommandSymmetry
CHECK_DEADLOCK FALSE
INVARIANT
  ConfirmedProposalDurable
