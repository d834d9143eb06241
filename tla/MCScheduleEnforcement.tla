------------------------ MODULE MCScheduleEnforcement ------------------------
(* ScheduleEnforcement for TLC: a day of four hours, five policies, idle     *)
(* times on both sides of their thresholds.                                  *)
EXTENDS ScheduleEnforcement

Policy(enabled, hours, idle, start, end, threshold) ==
    [enabled |-> enabled, restrict_hours |-> hours, only_when_idle |-> idle,
     start |-> start, end |-> end, idle_threshold |-> threshold]

MCDefaultPolicy == Policy(FALSE, FALSE, FALSE, 2, 1, 2)

\* Off (by default, and with hours filled in), within a day, over midnight
\* and when idle for two minutes, and only when idle, with no threshold.
MCPolicies ==
    {MCDefaultPolicy,
     Policy(FALSE, TRUE, TRUE, 0, 1, 2),
     Policy(TRUE, TRUE, FALSE, 1, 3, 1),
     Policy(TRUE, TRUE, TRUE, 3, 1, 2),
     Policy(TRUE, FALSE, TRUE, 0, 2, 0)}
=============================================================================
