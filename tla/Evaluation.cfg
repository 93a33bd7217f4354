SPECIFICATION Spec
CONSTANTS
  Calls = {c1, c2}
  Humans = {h1}
  Runs = {ra}
  Reviewers = {v1}
  MinReviews = 1
  MaxIterations = 2
  MaxVersion = 2
  MaxRecoveries = 1
  None = None
  c1 = c1
  c2 = c2
  h1 = h1
  ra = ra
  v1 = v1
SYMMETRY Symmetry
INVARIANTS
  TypeOK
  PromotedWinnerIsProven
  NeverReplayed
  CampaignFollowsBatches
PROPERTIES
  OutcomesStand
CHECK_DEADLOCK FALSE
