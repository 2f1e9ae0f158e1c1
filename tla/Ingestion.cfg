\* A file of two batches and a decision on one object.
SPECIFICATION Spec
CONSTANTS
  o1 = o1
  a = a
  b = b
  Objects = {o1}
  Times = {1, 2}
  Data = {a}
  Missing = Missing
  Contents = {a, Missing}
  Ingesters = {u1, u2, d}
  Attempts = {u1, u2}
  Decider = d
  File <- TwoBatches
  MaxUploadAttempts = 2
  MaxSnoozes = 1
  MaxDecisionAttempts = 4
  MaxFaults = 1
INVARIANTS
  NewestValid
  PatchesBuildOn
  UploadComplete
  DecidedOnIngested
  FailureTold
  ExecutionSettles
PROPERTIES
  UploadSettles
CHECK_DEADLOCK FALSE
