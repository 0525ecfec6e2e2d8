CONSTANTS
    Documents <- MCValidDocuments
    Databases <- MCLaterDatabases
SPECIFICATION Spec
INVARIANTS
    DisabledStaysDisabled
