SPECIFICATION FlowsSpec
CONSTANTS
    w1 = w1
    w2 = w2
    f1 = f1
    f2 = f2
    openai = openai
    xai = xai
    anthropic = anthropic
    kiro = kiro
    minimax = minimax
    here = here
    there = there
    FixedRedirect = fixed
    Nothing = Nothing
    MaxFaults = 1
    Workers <- MCWorkers
    Flows <- MCFlows
    Popup <- MCPopup
    Paste <- MCPaste
    Device <- MCDevice
    Fixed <- MCFixed
    Registering <- MCRegistering
    Proving <- MCProving
    Redirects <- MCRedirects
INVARIANT
    FlowsYieldTheirOwn
PROPERTY
    ApprovedDeviceIsStored
