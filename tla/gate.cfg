SPECIFICATION Spec
CONSTANTS
    r1 = r1
    r2 = r2
    Revisions = {r1, r2}
    NoRevision = NoRevision
    NamedBaselines = {}
    Scenarios = {"s1"}
    PolicyRepetitions = 2
    Budgets = {1, 2}
    ComparisonWindow = 0
    ReportUsable = 1
    RequalifyEvery = 1
    ExceptionMax = 1
    MaxBatches = 2
    MaxNow = 2
    MaxVersion = 2
    MaxExceptions = 1
SYMMETRY Symmetry
CHECK_DEADLOCK FALSE
INVARIANTS
    BaselineIsEarned
PROPERTIES
    BaselineMovesByComparison
    OnlyQualificationRestores
