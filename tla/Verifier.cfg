SPECIFICATION FairSpec
CONSTANTS
    old = old
    new = new
    broken = broken
    early = early
    late = late
    malformed = malformed
    t1 = t1
    t2 = t2
    None = None
    Thread = {t1, t2}
    Root = {old, new, broken}
    Usable = {old, new}
    Bundle = {early, late, malformed}
    WellFormed = {early, late}
    Valid <- MCValid
INVARIANTS
    TypeOK
    VerdictsAgree
    ReadyNeverUnavailable
PROPERTIES
    TrustIsFixed
    CallsEndOnceServed
    SomeCallEnds
