SPECIFICATION Spec
CONSTANTS
    c1 = c1
    c2 = c2
    Caller = {c1, c2}
    Package = pkg
    Dest = {out, other}
    Content = {v1, v2}
    None = None
    Absent = Absent
    MaxChanges = 3
    MaxRemovals = 1
SYMMETRY
    CallerSymmetry
INVARIANTS
    TypeOK
    SuccessIsExclusive
    AttestsWhatItRead
    NoStrayTemps
PROPERTIES
    OutputsAppearOnce
    PackageUntouched
