SPECIFICATION FairSpec
CONSTANTS
    NULL = NULL
    Handles = {h1}
    Emails = {e1}
    Posts = {p1}
    Visits = {v1}
    Keys = {k1}
    Submissions <- AllForms
    RegistryErrors <- AllErrors
    LoggerEnabled = TRUE
    Faults = {"reply_lost", "cache_fails"}
INVARIANTS
    TypeOK
    LogDescribesRequest
    RedirectFitsResponse
PROPERTIES
    LogRequestsGetClosed
\* Every request is one handler: when all are answered the instance stops.
CHECK_DEADLOCK FALSE
