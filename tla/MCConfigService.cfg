SPECIFICATION Spec
CONSTANTS
    w1 = w1
    w2 = w2
    p = p
    q = q
    NoProvider = NoProvider
    Workers <- MCWorkers
    Pids <- MCTwoIds
    Buildable <- MCBuildable
SYMMETRY Symmetry
INVARIANTS
    TypeOK
    DiskAgreesUnlessDisturbed
    RegistryAgreesUnlessDisturbed
