SPECIFICATION Spec
CONSTANTS
    b1 = b1
    b2 = b2
    d1 = d1
    d2 = d2
    other = other
    t1 = t1
    t2 = t2
    p1 = p1
    p2 = p2
    None = None
    k1 = k1
    Empty = Empty
    Absent = Absent
    Thread = {t1, t2}
    Process = {p1, p2}
    ProcOf <- OneProcessEach
    Key = {k1}
    Body = {b2}
    Digest = {d2, other}
    Sha256 <- MCSha256
    Size <- MCSize
    Limits = {1, 2}
    MaxTampering = 1
    MaxOutages = 1
INVARIANTS
    TypeOK
    WritersExclude
    LockHeldByWriter
    PointersLead
    NoTornFiles
    LoadsRecheck
