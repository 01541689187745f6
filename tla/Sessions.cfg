SPECIFICATION Spec
CONSTANTS
    ana = ana  bob = bob
    s1 = s1  s2 = s2  i1 = i1  i2 = i2  r1 = r1  r2 = r2  h1 = h1  h2 = h2
    None = None
    Legislators = {ana, bob}
    Newcomers = {bob}
    Sessions = {s1, s2}
    Items = {i1, i2}
    Rounds = {r1, r2}
    Handlers = {h1, h2}
    MaxRequests = 4
SYMMETRY Interchangeable
INVARIANTS
    TypeOK
    CurrentIsServed
    AnnouncedIsCommitted
    DeletedItemIsClosed
PROPERTIES
    SettledOnceStarted
    StartsWithMajority
    MarksTakeEffect
CHECK_DEADLOCK FALSE
