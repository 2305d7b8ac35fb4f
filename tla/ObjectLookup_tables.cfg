SPECIFICATION Spec
CONSTANTS
    NULL = NULL
    OBJECT_DELETE_CANDIDATE = OBJECT_DELETE_CANDIDATE
    Handles = {h1}
    Lookups = {l1, l2}
    Views = {"contact", "nsset"}
    Languages = {"en", "cs"}
    Statuses = {"linked", "ok"}
    HandleForms <- InZone
    Records <- TableRecords
    Beginnings <- FewStatuses
    MaxChanges = 2
    LoggerEnabled = FALSE
    Faults = {"cache_fails"}
SYMMETRY LookupsOnly
INVARIANTS
    TablesAreAuthentic
    ServerErrorHasCause
\* Every request is one handler: when all are answered the instance stops.
CHECK_DEADLOCK FALSE
