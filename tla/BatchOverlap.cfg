\* Two executions of a scenario that overlap on the same objects; one of them may
\* meet a setup that runs again or a commit reported as failed.
SPECIFICATION Spec
CONSTANTS
  Executions = {e1, e2}
  Objects = {o1, o2}
  Creators = {cron, manual}
  Manifests <- Crossing
  BatchSize = 1
  MaxCoordinatorAttempts = 1
  MaxSetupAttempts = 1
  Timers = {}
  TableMayDisappear = TRUE
  MaxReruns = 1
  MaxAmbiguous = 1
SYMMETRY Symmetry
INVARIANTS
  DedupExclusive
  ClaimsMatchLog
PROPERTIES
  NeverRescored
  RefinesLedger
CONSTRAINT OneFault
CHECK_DEADLOCK FALSE
