\* Two requests overlap at any step, and the screening of a decision is refined twice.
SPECIFICATION Spec
CONSTANTS
  Entities = {e1, e2}
  Objects = {o1, o2, o3}
  NoEntity = NoEntity
  Requests = {q1, q2}
  MaxExcluded = 1
  MaxRequests = 3
  MaxScreenings = 3
  MaxMatches = 4
SYMMETRY ReviewSymmetry
INVARIANTS
  NoneLeftPending
  StatusFollowsReviews
PROPERTIES
  WhitelistedNotAsked
CHECK_DEADLOCK FALSE
