CONSTANTS
    IPs = {a1}
    SessionIds = {c1, c2}
    max_sessions = 2
    max_sessions_per_ip = 2
    max_connections_per_minute = 2
    ban_duration = 1
    ManualBans = {}
    Minute = 1
    MaxTime = 0
    MaxOps = 0
    Users = {root}
    root = root
    vfs_persistence = TRUE
    vfs_cache_limit = 2
    LogDirMayFail = FALSE
SPECIFICATION Spec
INVARIANT
    FilesystemBoundToSession
CHECK_DEADLOCK FALSE
