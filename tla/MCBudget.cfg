SPECIFICATION Spec
CONSTANTS
    s1 = s1
    s2 = s2
    alice = alice
    guest = guest
    NoPrice = NoPrice
    Slots <- MCTwoSlots
    Users <- MCMixed
    Known <- MCAlice
    Costs <- MCCosts
    Streams <- MCEither
    Caps <- MCCaps
    MaxCost = 2
    MaxDay = 1
    MaxRequests = 4
CHECK_DEADLOCK FALSE
SYMMETRY Symmetry
INVARIANTS
    TypeOK
    SpendBounded
    NeverOvercharged
