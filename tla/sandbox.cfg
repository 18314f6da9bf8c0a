SPECIFICATION SandboxSpec
CONSTANTS
    e1 = e1
    e2 = e2
    h1 = h1
    h2 = h2
    Unknown = Unknown
    Execs = {e1, e2}
    Callers = {e1}
    Users = {e2}
    Setups = {"proxy"}
    Fingerprints = {h1, h2}
    Lacks <- MCLacks
    Rootless = {h2}
    MaxDrifts = 1
CHECK_DEADLOCK FALSE
INVARIANTS
    NothingSurvivesUnnoticed
    ReceiptMeansGone
    RunsOnItsHost
PROPERTIES
    EveryLaunchSettles
