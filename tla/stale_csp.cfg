SPECIFICATION AssetsSpec
CONSTANTS
    h1 = h1
    h2 = h2
    Absent = Absent
    Seqs = {1, 2, 3}
    Versions = {1, 2, 3}
    Hashes = {h1, h2}
    Shells = {1, 2}
    Windows = {w1}
    RemoteWindows = {}
    Callers = {main}
    Recoverer = recovery
    NoThread = NoThread
    Downloads = {dl}
    PageCalls = {"ack", "apply", "download"}
    Faults = {}
    Manifests <- ReleaseAndFix
    BootRecovery = FALSE
    MaxRetries = 0
    Keys = {"index", "page", "help"}
    Index = "index"
    EmbeddedKeys = {"index", "help", "page"}
    Ships <- ReleaseHasPage
    TornLacks = {"index"}
INVARIANT
    NoStaleHashes
