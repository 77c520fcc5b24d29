SPECIFICATION GatewaySpec
CONSTANTS
    NoName = "none"
    NoKey = "none"
    NoText = "none"
    NoReason = "none"
    Providers <- Ps
    Stored <- MCStored
    Access <- MCAccess
    Ids <- MCIds
    MaxAttempts = 2
    MaxDay = 2
    Retentions = {0, 1}
    Requests <- MCRequests
    Config0 <- MCConfig0
    Reloads <- MCReloads
    TierEdits <- MCTierEdits
    Removals <- MCRemovals
    Additions <- MCAdditions
    DefaultModel <- MCDefaultModel
    Answers <- MCAnswers
    WireCalls <- MCWireCalls
    MaxEdits = 1
    Chat = "chat"
    Media = "media"
INVARIANTS
    GatewayTypeOK
    FloorsHold
    KeysStayHome
    PromptReaches
    StreamMatchesComplete
    LogFollowsAnswers
PROPERTIES
    ImplementsStreamPromise
    StreamEnds
    RetentionProgress
