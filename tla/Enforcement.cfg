\* Two users' sessions, five policies, every failure.
SPECIFICATION EnforcementSpec
CONSTANTS
    Hours = 4
    Users = {u1, u2}
    Policies <- MCPolicies
    DefaultPolicy <- MCDefaultPolicy
    IdleTimes = {0, 1, 2, 3}
    Faults = {"call fails", "admin command", "node restart"}
INVARIANTS
    EnforcementTypeOK
    NoLostWakeup
    LastIsDone
    EnginesDifferOnlyOnIdle
    HoursAreWindow
PROPERTIES
    Enforced
