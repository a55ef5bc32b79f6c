SPECIFICATION Spec
CONSTANTS
    Names = {"users", "files", "unknown"}
    Allowed = {"users", "files"}
    Docs = {"a", "b"}
    Files <- MCFiles
    ExportLimit = 2
    MaxWrites = 1
    MaxErrors = 2
INVARIANTS
    TypeOK
    AllOrNothing
    OthersUntouched
    RoundTrip
