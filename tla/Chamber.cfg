SPECIFICATION Spec
CONSTANTS
    ana = ana  beto = beto  carla = carla
    r1 = r1  r2 = r2  r3 = r3  h1 = h1  h2 = h2  t1 = t1  t2 = t2  s1 = s1  i1 = i1
    None = None
    Legislators = {ana, beto, carla}
    Newcomers = {beto, carla}
    Removable = {ana}
    RollCall = {ana}
    Movers = {beto, carla}
    Sessions = {s1}
    Items = {i1}
    Rounds = {r1}
    Tokens = {}
    Handlers = {h1, h2}
    NamedInParts = TRUE
    Values = {"AFFIRMATIVE", "NEGATIVE"}
    VotingTypes <- MCTypes
    PresType <- MCPresType
    PresidingOfficer <- NobodyPresides
    Drafts <- NominalDrafts
    Revisions <- TurnSecret
SYMMETRY HandlersOnly
INVARIANTS
    PassedOutvotes
CHECK_DEADLOCK FALSE
