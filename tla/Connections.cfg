SPECIFICATION Spec
CONSTANTS
    ana = ana  d1 = d1  d2 = d2  t1 = t1  t2 = t2
    s1 = s1  s2 = s2  s3 = s3  h1 = h1  h2 = h2
    None = None
    Legislators = {ana}
    Devices = {d1, d2}
    Tokens = {t1, t2}
    Sockets = {s1, s2, s3}
    Handlers = {h1, h2}
    MaxQueue = 1
CONSTRAINT Calm
SYMMETRY Interchangeable
INVARIANTS
    TypeOK
    TokenEnrolsOnce
    RegisteredIsServed
    OpenIsRegistered
    RevokedOnlyIfLate
    RemovedHasNoDevice
    DepartureIsCounted
PROPERTIES
    WipeIsNotLost
CHECK_DEADLOCK FALSE
