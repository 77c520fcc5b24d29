SPECIFICATION OAuthSpec
CONSTANTS
    w1 = w1
    w2 = w2
    p = p
    g = g
    h = h
    k = k
    l = l
    NoKey = NoKey
    StoreError = StoreError
    NoGrant = NoGrant
    Provider = p
    MaxSerial = 2
    Workers <- MCWorkers
    Pids <- MCProviders
    Grants <- MCGrants
    Rotating <- MCGrants
    Secrets <- MCTokens
    Masters <- MCMasters
SYMMETRY Symmetry
INVARIANTS
    OAuthTypeOK
    RotationNotLost
    NextRefreshIsHonoured
    NewestLoginKept
    AccessIsOfNewestLogin
