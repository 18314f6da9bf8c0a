SPECIFICATION FairSpec
CONSTANTS
  l1 = l1
  l2 = l2
  h1 = h1
  h2 = h2
  w1 = w1
  Lifecycles = {l1, l2}
  HostedExecutions = {h1}
  WorkerExecutions = {}
  ClaimableFor = 1
  LivenessFor = 2
  None = None
  RecordGraceWakes = 1
  StepAttempts = 2
  MaxFaults = 1
  MaxClock = 2
PROPERTIES StartedLifecycleEndsTheRun LifecyclesReturn
CHECK_DEADLOCK FALSE
