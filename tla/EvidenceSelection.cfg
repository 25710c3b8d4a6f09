SPECIFICATION FairSpec
CONSTANTS
    p1 = p1
    p2 = p2
    k1 = k1
    k2 = k2
    early = early
    late = late
    foreign = foreign
    noise = noise
    old = old
    new = new
    dE = dE
    dL = dL
    dF = dF
    dN = dN
    None = None
    NoPin = NoPin
    BadPin = BadPin
    Process = {p1}
    Package = {k1, k2}
    Body = {early, foreign, noise}
    Digest = {dE, dF, dN}
    Sha256 <- MCSha256
    Parsed = {early, foreign}
    Root = {old, new}
    Proves <- MCProves
    Asked <- Requests
    MaxDisturbances = 1
INVARIANTS
    TypeOK
    VerifiedIsProven
    PinIsAuthoritative
    CacheHoldsVerified
PROPERTIES
    CallsEnd
