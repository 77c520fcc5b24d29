SPECIFICATION Spec
CONSTANTS
    w1 = w1
    w2 = w2
    p = p
    q = q
    s = s
    t = t
    k1 = k1
    k2 = k2
    NoKey = NoKey
    StoreError = StoreError
    Workers <- MCWorkers
    Pids <- MCIds
    Secrets <- MCSecrets
    Masters <- MCMasters
CONSTRAINT FewDetached
SYMMETRY Symmetry
INVARIANTS
    TypeOK
    AnswersWereStored
    CoherentUnlessDisturbed
