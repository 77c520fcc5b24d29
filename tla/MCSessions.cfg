SPECIFICATION Spec
CONSTANTS
    s1 = s1
    s2 = s2
    i1 = i1
    i2 = i2
    e1 = e1
    e2 = e2
    p1 = p1
    k1 = k1
    k2 = k2
    t1 = t1
    NoRow = NoRow
    DecodeError = DecodeError
    NoToken = NoToken
    BootEmail = e1
    AuthEnabled = TRUE
    MaxRotations = 1
    Slots <- MCSlots
    Ids <- MCIds
    Emails <- MCEmails
    Passwords <- MCPasswords
    KeyIds <- MCKeyIds
    Tokens <- MCTokens
    Masters <- MCMasters
SYMMETRY Symmetry
CHECK_DEADLOCK FALSE
INVARIANTS
    TypeOK
    NoOrphans
    SessionsFollowPassword
PROPERTY
    KeyRemoval
