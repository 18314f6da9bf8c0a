SPECIFICATION Spec
CONSTANTS
  c1 = c1
  c2 = c2
  h1 = h1
  h2 = h2
  s1 = s1
  s2 = s2
  w1 = w1
  w2 = w2
  Lifecycles = {}
  HostedExecutions = {h1, h2}
  WorkerExecutions = {c1, c2}
  Submissions = {s1, s2}
  Workers = {w1, w2}
  Runs = {1, 2}
  FixRuns = {1}
  UnknownRun = UnknownRun
  ClaimableFor = 1
  LivenessFor = 1
  None = None
  MaxRequests = 3
  MaxClock = 1
  MaxFaults = 1
  MaxChanges = 1
SYMMETRY Symmetry
CHECK_DEADLOCK FALSE
INVARIANTS GrantsAreHeld RejectionHolds FindingsAreTheAccepted DecisionsStand
PROPERTIES EveryRunKeepsItsContract
