SPECIFICATION Spec
CONSTANTS
    secret = secret  nominal = nominal
    None = None
    Rounds = {secret, nominal}
    Nominal = {nominal}
    SessionKeys = {secret, None}
    Jobs = {j1, j2}
    j1 = j1  j2 = j2
    Unreadable = Unreadable
    Presiding = TRUE
    MaxTokens = 2
    MaxFaults = 1
    MaxRequests = 4
    MaxStarts = 1
CONSTRAINT Bounds
SYMMETRY Symmetric
INVARIANTS
    TypeOK
    LockedIsRecorded
    InvitesOnlyToOpen
    MaterialIsKept
PROPERTIES
    RevokedIsFinal
CHECK_DEADLOCK FALSE
