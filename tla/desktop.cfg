SPECIFICATION Spec
CONSTANTS
    h1 = h1
    h2 = h2
    Absent = Absent
    Seqs = {1, 2, 3, 4}
    Versions = {1, 2, 3}
    Hashes = {h1, h2}
    Shells = {1, 2}
    Windows = {w1}
    RemoteWindows = {}
    Callers = {main, other}
    Recoverer = recovery
    NoThread = NoThread
    Downloads = {dl}
    PageCalls = {"ack", "apply", "download"}
    Faults = {"save", "delete"}
    Manifests <- BasedFix
    BootRecovery = FALSE
    MaxRetries = 0
SYMMETRY CallerSymmetry
INVARIANTS
    MetadataTracked
    TrialIsNew
    MarkerOnDisk
    ReferencedOnDisk
    ServedAsReported
    ServedBeatsShell
    EffectsSafe
PROPERTIES
    ImplementsRollback
    CommittedSurvivesTrials
