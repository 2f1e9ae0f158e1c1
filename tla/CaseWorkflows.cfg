\* Decisions of one entity; users do one thing with their cases.
SPECIFICATION Spec
CONSTANTS
  p = p
  a = a
  b = b
  Decisions = {d1, d2, d3}
  Pivot <- OnePivot
  NoPivot = NoPivot
  Inboxes = {a, b}
  Escalation <- AToB
  None = None
  Actions <- AllKinds
  MaxAttempts = 2
  Requests = {q1}
  MaxRequests = 1
  MaxCases = 3
SYMMETRY Symmetry
INVARIANTS
  OneCasePerLock
  OneCasePerJob
CONSTRAINT Few
CHECK_DEADLOCK FALSE
