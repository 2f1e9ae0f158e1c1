\* Pages that end within a decision, savepoints within a page, two runs at a time.
SPECIFICATION Spec
CONSTANTS
  j1 = j1
  j2 = j2
  NbDecisions = 3
  Rules <- ThreeTwoOne
  Evaluated <- MostEvaluated
  BatchSize = 4
  SavepointEvery = 2
  Jobs = {j1, j2}
  MaxStarts = 3
  MaxOverlaps = 1
SYMMETRY Symmetry
INVARIANTS
  EvaluationKept
  EvaluationsSeen
  PassedOverOnlyAtPageEnds
CHECK_DEADLOCK FALSE
