SPECIFICATION Spec
CONSTANTS
    None = None
    Package <- MCPackage
    Recipe = "recipe"
    BundleName <- MCBundleName
    Unsafe = {".."}
    Reserved = {"CON"}
    Key <- MCKey
    Block = 2
    MaxZipRead = 2
    MaxZipMembers = 3
    MaxExpanded = 16
    MaxMetadata = 9
    MaxMembers = 3
    MaxRecipe = 2
    MaxBundle = 2
CHECK_DEADLOCK FALSE
INVARIANTS
    TypeOK
    BudgetsAreKept
    OutcomeIsExact
