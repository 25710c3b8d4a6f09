SPECIFICATION Spec
CONSTANTS
    alice = alice
    bob = bob
    sha1 = sha1
    sha2 = sha2
    pkg = pkg
    notPkg = notPkg
    team = team
    notUrl = notUrl
    None = None
    Malformed = Malformed
    Uncomparable = Uncomparable
    NotInToto = NotInToto
    Signer = {alice, bob}
    Sha256 = {sha1, sha2}
    PackageName = {pkg}
    Name = {pkg, notPkg}
    Channel = {team}
    SuppliedChannel = {None, team, notUrl}
    Bundle <- AllBundles
    MaxBundles = 2
    MaxRewrites = 1
CHECK_DEADLOCK FALSE
INVARIANTS
    TypeOK
    StatusAsDocumented
    VerifiedIsPublished
    EveryBundleReported
