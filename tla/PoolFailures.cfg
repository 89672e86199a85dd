\* Failures are reported: VMs are rebuilt twice at a time and handed on meanwhile.
CONSTANTS
    Sessions = {s1, s2}
    Domains = {}
    NoVm = NoVm
    max_vms = 2
    save_snapshots = FALSE
    LibvirtMayFail = TRUE
    FailuresReported = TRUE
SPECIFICATION FairSpec
INVARIANT
    RebuildingHasTask
PROPERTIES
    ReservationsAnswered
    RebuiltVmsComeBack
CHECK_DEADLOCK FALSE
