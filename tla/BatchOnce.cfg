\* One execution through every crash, error and timeout.
SPECIFICATION FairSpec
CONSTANTS
  Executions = {e1}
  Objects = {o1, o2, o3}
  Creators = {manual}
  Manifests <- Distinct3
  BatchSize = 2
  MaxCoordinatorAttempts = 2
  MaxSetupAttempts = 2
  Timers = {"initiation", "slice", "deadline"}
  TableMayDisappear = FALSE
  MaxReruns = 0
  MaxAmbiguous = 0
INVARIANTS
  LogFollowsManifest
PROPERTIES
  Settles
CHECK_DEADLOCK FALSE
