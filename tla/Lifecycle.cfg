\* Two requests at a time on two iterations, in two processes.
SPECIFICATION Spec
CONSTANTS
  q1 = q1
  q2 = q2
  i1 = i1
  i2 = i2
  p1 = p1
  p2 = p2
  Iterations = {i1, i2}
  None = None
  NbTestRuns = 2
  Requests = {q1, q2}
  Processes = {p1, p2}
  MaxContents = 2
  MaxOverlaps = 1
SYMMETRY Symmetry
INVARIANTS
  LiveCommitted
  EvaluatedAsCommitted
  UpNextToLive
PROPERTIES
  CommittedFrozen
CONSTRAINT Apart
