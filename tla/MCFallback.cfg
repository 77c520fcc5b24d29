SPECIFICATION Spec
CONSTANTS
    a = a  b = b  m1 = m1  m2 = m2  r1 = r1  r2 = r2
    Providers <- MCProviders
    Models <- MCModels
    DefaultModel <- MCDefaultModel
    Requests <- MCRequests
    Chains <- MCChains
    Removable = {b}
    Settings <- MCSettings
    MaxThreshold = 2
    Cooldown = 1
    RateLimitWait = 1
SYMMETRY RequestSymmetry
INVARIANTS TypeOK BreakerConsistent AttemptsFollowChain AnswerMatchesAttempts FallbackCountIsEntriesGivenUp
