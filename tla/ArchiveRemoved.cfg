SPECIFICATION Spec
CONSTANTS
    header = header
    s1 = s1
    s2 = s2
    main = main
    None = None
    Empty = Empty
    Malformed = Malformed
    Uncomparable = Uncomparable
    Absent = Absent
    NotInToto = NotInToto
    PackageName = {}
    Channel = {}
    Token <- MCToken
    CaseFold <- MCCaseFold
    MaxPublishers = 2
    MaxBundles = 2
    MaxSources = 3
    MaxDeclarations = 5
    Block <- MCBlock
    Content <- MCContent
    Inside <- MCInside
    Replacement <- MCReplacement
    Published <- MCPublished
    Environments <- MCEnvironments
    MaxArchive = 2
    MaxChanges = 1
CHECK_DEADLOCK FALSE
INVARIANTS
    MissingArchiveIsUnavailable
