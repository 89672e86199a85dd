\* Two connections from two addresses or from one; a cache of one filesystem for four
\* (address, user) pairs, so that evictions happen; log directories may fail; the
\* clock moves, bans run out and addresses come back.
CONSTANTS
    IPs = {a1, a2}
    SessionIds = {c1, c2}
    max_sessions = 2
    max_sessions_per_ip = 2
    max_connections_per_minute = 1
    ban_duration = 1
    ManualBans = {}
    Minute = 1
    MaxTime = 2
    MaxOps = 1
    Users = {root, bob}
    root = root
    vfs_persistence = TRUE
    vfs_cache_limit = 1
    LogDirMayFail = TRUE
SPECIFICATION FairSpec
INVARIANTS
    SlotsAccountedFor
    TelnetHoldsAllOrNothing
    FilesystemOfOwnAddress
    VfsCacheSound
PROPERTIES
    ImplementsSessionManager
    TelnetShellsEnd
CHECK_DEADLOCK FALSE
