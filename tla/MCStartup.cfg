CONSTANTS
    Documents <- MCDocuments
    Databases <- MCDatabases
SPECIFICATION Spec
INVARIANTS
    TypeOK
    CatalogIsWhatWasWritten
    NoDanglingRoute
    ServesWhatItCan
    InterruptedUpgradeResumes
    UnmappableIsKept
