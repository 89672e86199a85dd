\* Two addresses compete for the slots (two each, three in all) over more than
\* one window of the limiter: rejections for every reason, bans that begin and
\* end, sessions that come and go.
CONSTANTS
    IPs = {a1, a2}
    SessionIds = {s1, s2, s3, s4}
    max_sessions = 3
    max_sessions_per_ip = 2
    max_connections_per_minute = 1
    ban_duration = 2
    ManualBans = {3}
    Minute = 2
    MaxTime = 4
    MaxOps = 1
SPECIFICATION smSpec
SYMMETRY Symmetry
INVARIANTS
    CountersMatchTable
    LimitsHold
    StartRateHolds
    ServedBanIsCleanSlate
PROPERTY
    ImplementsGate
CHECK_DEADLOCK FALSE
