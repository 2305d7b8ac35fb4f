SPECIFICATION Spec
CONSTANTS
    NULL = NULL
    Handles = {h1}
    Emails = {e1}
    Posts = {p1, p2}
    Visits = {v1}
    Keys = {k1, k2}
    Submissions <- TwoForms
    RegistryErrors <- TwoErrors
    LoggerEnabled = TRUE
    Faults = {"logger_fails", "reply_lost", "cache_fails", "worker_dies"}
SYMMETRY HandlersAndKeys
CONSTRAINT
    FormsDiffer
INVARIANTS
    LogDescribesRequest
    AuditTruthful
    SuccessIsAudited
    ResponsesDescribeRequests
    OutcomeTruthful
    HitIsServed
PROPERTIES
    ClosedLogIsFinal
    ImplementsDesk
\* Every request is one handler: when all are answered the instance stops.
CHECK_DEADLOCK FALSE
