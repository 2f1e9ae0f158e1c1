\* One object, ingested before; one more version, one request, two builds, one fault.
SPECIFICATION ScreeningSpec
CONSTANTS
  Objects = {o1}
  Times = {1}
  Data = {a, b}
  Missing = Missing
  Contents = {a, b}
  Hits = {a}
  Ingesters = {i1}
  MaxAttempts = 2
  MaxRequests = 1
  MaxBuilds = 2
  MaxFaults = 1
INVARIANTS
  UpdateScreened
  CaseForHits
  DatasetFollowsTracks
CHECK_DEADLOCK FALSE
