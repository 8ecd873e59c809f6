SPECIFICATION Spec
CONSTANTS
  Requests = {q1, q2, q3}
  Changes = {c1, c2}
  MaxRequests = 4
  EffectSource = "latestRevision"
SYMMETRY Symmetry
INVARIANTS
  EffectIsReviewed
CHECK_DEADLOCK FALSE
