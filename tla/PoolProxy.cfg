\* Four clients and a limit of two VMs.  Any of three domains may be found at the
\* start, so that VMs are found, provisioned and refused, and the names of the
\* provisioned ones are sometimes taken already.
CONSTANTS
    Sessions = {s1, s2, s3, s4}
    Domains = {1, 2, vmA}
    NoVm = NoVm
    max_vms = 2
    save_snapshots = TRUE
    LibvirtMayFail = FALSE
    FailuresReported = FALSE
SPECIFICATION Spec
SYMMETRY Symmetry
INVARIANTS
    VmBelongsToOneClient
    LeasesMatchHandlers
    RevertedBeforeReuse
CHECK_DEADLOCK FALSE
