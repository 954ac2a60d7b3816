SPECIFICATION RelaunchSpec
CONSTANTS
    h1 = h1
    h2 = h2
    Absent = Absent
    Seqs = {1, 2}
    Versions = {1, 2, 3}
    Hashes = {h1, h2}
    Shells = {1, 2}
    Windows = {w1}
    RemoteWindows = {}
    Callers = {main}
    Recoverer = recovery
    NoThread = NoThread
    Downloads = {dl}
    PageCalls = {"ack", "apply", "download", "reset"}
    Faults = {"dir_lost"}
    Manifests <- ReleaseAndFix
    BootRecovery = FALSE
    MaxRetries = 0
INVARIANTS
    TwoChances
PROPERTIES
    ImplementsRollback
    BlacklistTakesTwo
    BootCollects
    TrialEnds
