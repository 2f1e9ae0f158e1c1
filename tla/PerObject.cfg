\* One execution through errors and crashes of all its jobs, timeouts and a setup
\* that runs again after its commit.
SPECIFICATION FairSpec
CONSTANTS
  Objects = {o1, o2}
  MaxSetupAttempts = 2
  MaxDecisionAttempts = 2
  MaxStatusAttempts = 2
  Timers = {"initiation", "monitoring"}
  MaxReruns = 1
  MaxRows = 2
CONSTRAINT QuietAfterRerun
INVARIANTS
  DecisionPerRow
  DecisionPerObject
  FinalCounts
PROPERTIES
  Settles
CHECK_DEADLOCK FALSE
