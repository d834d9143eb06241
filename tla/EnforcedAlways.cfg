\* The only failure is a call that raises.
SPECIFICATION EnforcementSpec
CONSTANTS
    Hours = 4
    Users = {u1}
    Policies <- MCPolicies
    DefaultPolicy <- MCDefaultPolicy
    IdleTimes = {0, 1, 2, 3}
    Faults = {"call fails"}
PROPERTIES
    EnforcedAlways
