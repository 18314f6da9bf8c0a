SPECIFICATION FairSpec
CONSTANTS
    q1 = q1
    q2 = q2
    a1 = a1
    a2 = a2
    Tenant = {"run"}
    NonTenant = {"user"}
    Neighbours = {"report"}
    Views = {"report"}
    Roles = {"neon"}
    Elevated = {"neon"}
    Populated = {}
    Requests = {q1}
    Attempts = {a1}
    Operators = {"o1"}
    Environments = {"usable"}
    NoAttempt = NoAttempt
    AddedFlags <- HandFlags
    AddedPolicies <- HandPolicies
    ContendedAttempts = 2
    MaxDrifts = 1
    MaxFaults = 1
    MaxContentions = 2
    MaxRestarts = 0
CHECK_DEADLOCK FALSE
INVARIANTS
    ServedIsBounded
PROPERTIES
    RepairServes
