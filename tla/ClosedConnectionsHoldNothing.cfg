\* The backend refuses a connection.
CONSTANTS
    Sessions = {s1, s2}
    Domains = {}
    NoVm = NoVm
    max_vms = 2
    save_snapshots = TRUE
    LibvirtMayFail = FALSE
    FailuresReported = FALSE
SPECIFICATION Spec
INVARIANT
    ClosedConnectionsHoldNothing
CHECK_DEADLOCK FALSE
