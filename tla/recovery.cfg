SPECIFICATION FairSpec
CONSTANTS
    h1 = h1
    h2 = h2
    Absent = Absent
    Seqs = {1, 2}
    Versions = {1, 2, 3}
    Hashes = {h1, h2}
    Shells = {1}
    Windows = {w1}
    RemoteWindows = {w1}
    Callers = {main}
    Recoverer = recovery
    NoThread = NoThread
    Downloads = {dl}
    PageCalls = {"ack", "download", "reset"}
    Faults = {"save", "state_lost"}
    Manifests <- OneRelease
    BootRecovery = TRUE
    MaxRetries = 1
INVARIANTS
    TypeOK
    
    RecoveryYieldsToPage
    AcksHeardAgain
PROPERTIES
    CommitFromRunningPage
    RecoveryEnds
