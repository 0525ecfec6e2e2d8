CONSTANTS
    Identity = {i1, i2}
    Provider = {p1, p2}
    Endpoint = {e1}
    Thread = {t1}
    Nobody = Nobody
    Manager = {h1, h2}
    Server = {}
    MaxFaults = 0
SPECIFICATION FairSpec
PROPERTY MappingsSavedWhole
CHECK_DEADLOCK FALSE
