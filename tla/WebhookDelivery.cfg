\* An event, a webhook that stays and one that users change; jobs fail, crash and run
\* again after their last write.
SPECIFICATION FairSpec
CONSTANTS
  Events = {ev}
  Webhooks = {w1, w2}
  Touched = {w2}
  MaxAttempts = 2
  MaxJobAttempts = 2
  MaxJobs = 2
  Retention = TRUE
  MaxReruns = 1
CONSTRAINT TwoFaults
INVARIANTS
  EveryoneServed
  OneAtATime
  GivenUpAfterAll
PROPERTIES
  Settles
CHECK_DEADLOCK FALSE
