SPECIFICATION Spec
CONSTANTS
    NULL = NULL
    Handles = {h1}
    Emails = {e1}
    Posts = {p1}
    Visits = {v1}
    Keys = {k1}
    Submissions <- OddForms
    RegistryErrors <- TwoErrors
    LoggerEnabled = TRUE
    Faults = {}
SYMMETRY HandlersAndKeys
INVARIANTS
    ErrorMeansCallFailed
\* Every request is one handler: when all are answered the instance stops.
CHECK_DEADLOCK FALSE
