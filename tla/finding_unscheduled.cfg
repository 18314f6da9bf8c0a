SPECIFICATION FairSpec
CONSTANTS
  d1 = d1
  d2 = d2
  d3 = d3
  r1 = r1
  r2 = r2
  r3 = r3
  sha1 = sha1
  sha2 = sha2
  Deliveries = {d1, d2}
  RunIds = {r1, r2}
  Heads = {sha1, sha2}
  MaxRetries = 1
  StepRetries = 1
  MaxFaults = 1
  None = None
PROPERTY EveryRunIsScheduled
CHECK_DEADLOCK FALSE
