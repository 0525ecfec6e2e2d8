CONSTANTS
    Identity = {i1, i2}
    Provider = {p1}
    Endpoint = {e1}
    Thread = {t1}
    Nobody = Nobody
    Manager = {h1}
    Server = {h2}
    MaxFaults = 1
SPECIFICATION FairSpec
INVARIANTS
    TypeOK
    NoOrphans
    FilesGoWithIdentity
PROPERTIES
    InactiveUnreferencedAreDeleted
CHECK_DEADLOCK FALSE
