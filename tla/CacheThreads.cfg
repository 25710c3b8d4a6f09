SPECIFICATION FairSpec
CONSTANTS
    b1 = b1
    b2 = b2
    d1 = d1
    d2 = d2
    other = other
    t1 = t1
    t2 = t2
    p1 = p1
    p2 = p2
    None = None
    k1 = k1
    Empty = Empty
    Absent = Absent
    Thread = {t1, t2}
    Process = {p1}
    ProcOf <- SharedProcess
    Key = {k1}
    Body = {b1, b2}
    Digest = {d1, d2, other}
    Sha256 <- MCSha256
    Size <- MCSize
    Limits = {1}
    MaxTampering = 0
    MaxOutages = 0
INVARIANTS
    NoStrayTemps
PROPERTIES
    ImplementsPromise
    LockIsLetGo
