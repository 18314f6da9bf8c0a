SPECIFICATION Spec
CONSTANTS
    q1 = q1
    q2 = q2
    a1 = a1
    a2 = a2
    Tenant = {"run"}
    NonTenant = {"user"}
    Neighbours = {"report"}
    Views = {"report"}
    Roles = {"neon"}
    Elevated = {"neon"}
    Populated = {}
    Requests = {q1, q2}
    Attempts = {a1, a2}
    Operators = {"o1"}
    Environments = {"usable", "unusable", "cleartextApi"}
    NoAttempt = NoAttempt
    AddedFlags <- HandFlags
    AddedPolicies <- HandPolicies
    ContendedAttempts = 2
    MaxDrifts = 0
    MaxFaults = 1
    MaxContentions = 1
    MaxRestarts = 1
SYMMETRY Symmetry
CHECK_DEADLOCK FALSE
INVARIANTS
    HealthyIsKept
