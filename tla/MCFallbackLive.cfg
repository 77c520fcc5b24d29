SPECIFICATION AnsweringSpec
CONSTANTS
    a = a  b = b  m1 = m1  m2 = m2  r1 = r1  r2 = r2
    Providers <- MCOneProvider
    Models <- MCModels
    DefaultModel <- MCDefaultModelOne
    Requests <- MCRequests
    Chains <- MCTwiceChain
    Removable = {}
    Settings <- MCOneSetting
    MaxThreshold = 1
    Cooldown = 2
    RateLimitWait = 0
PROPERTIES EveryRequestAnswered CircuitReopens ImplementsPromise
