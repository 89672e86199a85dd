\* No session is active.
CONSTANTS
    MaxLogs = 2
    WritesMayFail = FALSE
    Enabled = {"SSH", "Telnet"}
SPECIFICATION Spec
INVARIANTS
    StopGetsThrough
CHECK_DEADLOCK FALSE
