\* Two servers and a metrics server whose stop() meets sessions that log; two
\* uploads of two sizes for a quota of three; SFTP with two handles and a limit of
\* two; SCP with four headers or a tree of two directories; a file list one longer
\* than its limit; four events for a queue of two; two chunks each way; two
\* requests for reports, three generations of them and a restart; an SSH and a Telnet
\* session with five events between them.
CONSTANTS
    MaxLogs = 4
    WritesMayFail = TRUE
    Enabled = {"SSH", "Telnet", "Metrics"}
    n1 = n1
    n2 = n2
    QNames = {n1, n2}
    QSizes = {1, 2}
    QLimit = 3
    MaxSaves = 2
    SftpAllowed = {"upload", "download"}
    UploadLimit = 2
    MaxHandles = 2
    Listing <- Tree
    MaxHeaders = 4
    Malformed = Malformed
    RefusalBytes = 3
    MaxListed = 2
    MaxEvents = 4
    QueueSize = 2
    BatchSize = 2
    UsesPool = TRUE
    MaxChunks = 2
    MaxIocs = 2
    MaxGenerations = 3
    MaxMessages = 2
    Fetched = 1
    MaxRestarts = 1
    SshClients = {s1}
    TelnetClients = {t1}
    NoClient = NoClient
    system = system
    MaxEntries = 5
SPECIFICATION ServicesSpec
INVARIANTS
    EntriesAccountedFor
    StopFlushes
    QuotaOvershootBounded
    SoloSavesIntact
    OnlyGapsExceedLimit
    SinkFollowsClient
    AcksMatchMessages
    ProxyDataInOrder
    OnlyLateLeasesLeak
    EventsInOrder
    AnsweredOnce
    ReportsConsistent
    AuditIsTheSession
PROPERTY
    ServicesProgress
CHECK_DEADLOCK FALSE
