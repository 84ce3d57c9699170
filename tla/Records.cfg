\* Names, accounts and versions run out: the model may stop.
CHECK_DEADLOCK FALSE
SPECIFICATION RecordsSpec
CONSTANTS
    Names = {Foo, foo}
    Users = {u1, u2, u3}
    Requests = {r1, r2}
    None = None
    MaxRows = 4
    Versions = {1, 2, 3}
    Transactions = {r1, r2}
SYMMETRY Symmetry
INVARIANTS
    TypeOK
    NamesUniqueIgnoringCase
    PackagesKeepTheirTeam
    DisbandedLeavesNothing
    ReleasesTypeOK
    LatestIsReleased
    NoEmptyPackage
PROPERTIES
    LatestFollowsVersions
