SPECIFICATION Spec
CONSTANTS
    NULL = NULL
    OBJECT_DELETE_CANDIDATE = OBJECT_DELETE_CANDIDATE
    Handles = {h1, h2, h3}
    Lookups = {l1, l2}
    Views = {"multiple", "domain"}
    Languages = {"en"}
    Statuses = {"linked"}
    HandleForms <- OneInZone
    Records <- AnyKind
    Beginnings <- NothingOrAll
    MaxChanges = 1
    LoggerEnabled = TRUE
    Faults = {"logger_fails", "registry_fails", "cache_fails", "worker_dies"}
SYMMETRY LookupsOnly
INVARIANTS
    TypeOK
    AnswersFromTheTime
    RepliesAreLogged
\* Every request is one handler: when all are answered the instance stops.
CHECK_DEADLOCK FALSE
