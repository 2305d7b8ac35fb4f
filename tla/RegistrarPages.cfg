SPECIFICATION FairSpec
CONSTANTS
    NULL = NULL
    r1 = r1
    r2 = r2
    g1 = g1
    f1 = f1
    f2 = f2
    Visits = {v1, v2}
    Registrars = {r1, r2}
    Groups = {g1}
    Files = {f1, f2}
    Scores = {1}
    Moments <- FewMoments
    MaxChanges = 2
    Faults = {"certifications", "load_answer", "download", "finalize", "worker_dies"}
INVARIANTS
    TypeOK
    ListIsOfItsTime
    NotFoundIsTrue
    FileIsTheRegistrars
    DownloadsAreReleased
PROPERTIES
    VisitsEnd
\* Every request is one handler: when all are answered the instance stops.
CHECK_DEADLOCK FALSE
