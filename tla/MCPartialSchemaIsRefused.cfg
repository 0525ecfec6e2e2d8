CONSTANTS
    Documents <- MCValidDocuments
    Databases <- MCEmptyDatabases
SPECIFICATION Spec
INVARIANTS
    PartialSchemaIsRefused
