\* One client of each protocol.
CONSTANTS
    SshClients = {s1}
    TelnetClients = {t1}
    NoClient = NoClient
    system = system
    MaxEntries = 3
SPECIFICATION SessionLogSpec
INVARIANT
    EventsNameTheirClient
CHECK_DEADLOCK FALSE
