SPECIFICATION FairWorkerSpec
CONSTANTS
    e1 = e1
    h1 = h1
    h2 = h2
    Unknown = Unknown
    Execs = {e1}
    Callers = {e1}
    Users = {e1}
    Setups = {"proxy", "port"}
    Fingerprints <- MCFingerprints
    Lacks <- MCLacks
    Rootless <- MCRootless
    MaxDrifts = 1
    Inputs <- MCInputs
    PortCapabilities <- MCPortCapabilities
    Calls = {"c"}
    MaxCalls = 1
CHECK_DEADLOCK FALSE
INVARIANTS
    AuthorizedOnTheInstance
    AdapterAgreesWithCore
PROPERTIES
    ImplementsWorkerContract
    EveryExecutionAnswered
