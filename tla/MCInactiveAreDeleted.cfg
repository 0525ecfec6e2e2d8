CONSTANTS
    Identity = {i1, i2}
    Provider = {p1}
    Endpoint = {e1}
    Thread = {t1}
    Nobody = Nobody
    Manager = {h1}
    Server = {}
    MaxFaults = 0
SPECIFICATION FairSpec
PROPERTY InactiveAreDeleted
CHECK_DEADLOCK FALSE
