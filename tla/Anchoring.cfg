SPECIFICATION FairSpec
CONSTANTS
    nominal = nominal  secret = secret  h1 = h1  h2 = h2
    ana = ana  beto = beto  carla = carla
    Rounds = {nominal, secret}
    Nominal = {nominal}
    Tied = {secret}
    Legislators = {ana, beto, carla}
    Names = {0, 1}
    InitialName <- MCInitialName
    Renamed = {ana}
    Voters <- MCVoters
    NamedLeaf <- MCNamedLeaf
    Ballots <- MCBallots
    TieVotes = {31}
    Handlers = {h1, h2}
    MaxAttempts = 3
    MaxFaults = 1
INVARIANTS
    TypeOK
    ReceiptIsOfTheAnchor
    EveryAnchorHasItsRequest
    RecoveredMatches
    VerifiedIsAnchored
PROPERTIES
    FinalForEver
    RetryRecovers
CHECK_DEADLOCK FALSE
