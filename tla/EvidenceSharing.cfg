SPECIFICATION Spec
CONSTANTS
    p1 = p1
    p2 = p2
    k1 = k1
    k2 = k2
    early = early
    late = late
    foreign = foreign
    noise = noise
    old = old
    new = new
    dE = dE
    dL = dL
    dF = dF
    dN = dN
    None = None
    NoPin = NoPin
    BadPin = BadPin
    Process = {p1, p2}
    Package = {k1}
    Body = {early, late}
    Digest = {dE, dL}
    Sha256 <- MCSha256
    Parsed = {early, late}
    Root = {old, new}
    Proves <- MCProves
    Asked <- FitRequests
    MaxDisturbances = 0
INVARIANTS
    WarmIsEnough
PROPERTIES
    CacheOnlyGrows
SYMMETRY
    ProcessSymmetry
