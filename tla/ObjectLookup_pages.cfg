SPECIFICATION FairSpec
CONSTANTS
    NULL = NULL
    OBJECT_DELETE_CANDIDATE = OBJECT_DELETE_CANDIDATE
    Handles = {h1, h2}
    Lookups = {l1}
    Views = {"domain", "nsset", "keyset", "contact", "registrar"}
    Languages = {"en"}
    Statuses = {"serverBlocked", "deleteCandidate"}
    HandleForms <- InZone
    Records <- PageRecords
    Beginnings <- AllPages
    MaxChanges = 2
    LoggerEnabled = TRUE
    Faults = {"registry_fails", "cache_fails"}
INVARIANTS
    PageShowsItsObjects
    ServerErrorHasCause
PROPERTIES
    LookupsEnd
\* Every request is one handler: when all are answered the instance stops.
CHECK_DEADLOCK FALSE
