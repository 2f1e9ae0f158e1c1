\* Jobs overlap and fail; the test run is stopped at any time, also when the summaries are
\* more than a window behind.
SPECIFICATION SummariesSpec
CONSTANTS
  d1 = d1
  d2 = d2
  decline = decline
  review = review
  Approve = approve
  Decisions <- Everything
  Outcome <- Outcomes3
  Ruled <- Everything
  Jobs = {j1, j2}
  Window = 2
  EndDate = 4
  MaxSummaries = 3
SYMMETRY JobSymmetry
INVARIANTS
  CountedOnce
  NoneMissed
CHECK_DEADLOCK FALSE
