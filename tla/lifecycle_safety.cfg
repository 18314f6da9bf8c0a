SPECIFICATION Spec
CONSTANTS
  l1 = l1
  l2 = l2
  h1 = h1
  h2 = h2
  w1 = w1
  Lifecycles = {l1, l2}
  HostedExecutions = {h1}
  WorkerExecutions = {w1}
  ClaimableFor = 1
  LivenessFor = 1
  None = None
  RecordGraceWakes = 1
  StepAttempts = 2
  MaxFaults = 1
  MaxClock = 2
SYMMETRY Symmetry
INVARIANTS RecordedLifecycleIsKept ReturnsAreTrue UnscheduledMeansNeverClaimed DeadlinesAreNotEarly CancelFollowsTheTransition LossNamesItsSide PassConclusionsAreTrue
PROPERTIES TerminalIsFinal ImplementsContract OwnersAreWrittenOnce
CHECK_DEADLOCK FALSE
