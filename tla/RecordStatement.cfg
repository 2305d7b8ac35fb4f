SPECIFICATION FairSpec
CONSTANTS
    NULL = NULL
    Services = {"Logger", "RecordStatement"}
    Visits = {v1, v2}
    Subjects = {s1, s2}
    MaxOutages = 1
INVARIANTS
    TypeOK
    StatementsAreLogged
    ServerErrorHasCause
    LogRequestsAreClosed
PROPERTIES
    VisitsEnd
\* Every request is one handler: when all are answered the instance stops.
CHECK_DEADLOCK FALSE
