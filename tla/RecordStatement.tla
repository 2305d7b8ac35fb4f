---------------------------- MODULE RecordStatement ----------------------------
(***************************************************************************)
(* Serving the PDF of a record statement: open a log request, have the     *)
(* statement printed, close the log, answer.  The threads that serve share *)
(* the lazy clients of the logger and of the statement service; the test   *)
(* "if LOGGER" is already a use of the logger's client, and both may be    *)
(* the first.                                                              *)
(***************************************************************************)
EXTENDS CorbaClients, Sequences

CONSTANTS
    Visits,     \* the GET requests, one thread each
    Subjects    \* the object types and handles asked for

VARIABLES
    visit,       \* the state of each GET's thread
    audit,       \* the logger's requests; the index is the id
    logger_set,  \* whether the LOGGER setting is set
    troubled     \* the services each thread could have found unavailable

vars == <<corba, visit, audit, logger_set, troubled>>

Absences == {"OBJECT_NOT_FOUND", "OBJECT_DELETE_CANDIDATE"}
Errors == {"INTERNAL_SERVER_ERROR", "COMM_FAILURE"}

VisitStates ==
    [pc          : {"idle", "log", "print", "finish", "done"},
     subject     : Subjects \cup {NULL},
     resolved    : 0 .. MaxOutages \cup {NULL},  \* a reference not stored yet
     log_request : Nat \cup {NULL},
     outcome     : {"pdf", NULL} \cup Absences \cup Errors,
     reply       : {"pdf", "not_found", "server_error", NULL}]

LogRequests ==
    [about  : Subjects,
     closed : BOOLEAN,
     result : {"Ok", "NotFound", "Error"},
     reason : Absences \cup Errors \cup {NULL}]

TypeOK ==
    /\ ClientsTypeOK
    /\ visit \in [Visits -> VisitStates]
    /\ audit \in Seq(LogRequests)
    /\ logger_set \in BOOLEAN
    /\ troubled \in [Visits -> SUBSET Services]

ASSUME ServicesAssumption == Services = {"Logger", "RecordStatement"}

\* None is none of the values it stands beside.
ASSUME NullIsNoOutcome ==
    NULL \notin {"pdf", "not_found", "server_error"} \cup Absences \cup Errors

-----------------------------------------------------------------------------
(* The lazy clients. *)

\* The service a thread is about to call.
Service(v) == IF visit[v].pc = "print" THEN "RecordStatement" ELSE "Logger"

Calling(v) ==
    \/ visit[v].pc \in {"log", "print"}
    \/ visit[v].pc = "finish" /\ visit[v].log_request # NULL

\* Its client is unset: the thread starts setting it up.
Resolve(v) ==
    /\ Calling(v) /\ visit[v].resolved = NULL
    /\ client[Service(v)] = NULL /\ Service(v) \in up
    /\ visit' = [visit EXCEPT ![v].resolved = generation[Service(v)]]
    /\ UNCHANGED <<corba, audit, logger_set>>

StoreClient(v) ==
    /\ visit[v].resolved # NULL
    /\ Store(Service(v), visit[v].resolved)
    /\ visit' = [visit EXCEPT ![v].resolved = NULL]
    /\ UNCHANGED <<audit, logger_set>>

CanCall(v) == visit[v].resolved = NULL /\ client[Service(v)] # NULL /\ Reachable(Service(v))
CannotCall(v) == visit[v].resolved = NULL /\ ~Reachable(Service(v))

-----------------------------------------------------------------------------
(* The handler. *)

IdleVisit ==
    [pc |-> "idle", subject |-> NULL, resolved |-> NULL, log_request |-> NULL,
     outcome |-> NULL, reply |-> NULL]

Begin(v, subject) ==
    /\ visit[v].pc = "idle"
    /\ visit' = [visit EXCEPT ![v].subject = subject,
                              ![v].pc = IF logger_set THEN "log" ELSE "print"]
    /\ UNCHANGED <<corba, audit, logger_set>>

OpenLogRequest(v) ==
    Append(audit, [about |-> visit[v].subject, closed |-> FALSE,
                   result |-> "Error", reason |-> NULL])

\* prepare_logging_request
PrepareLoggingRequest(v) ==
    /\ visit[v].pc = "log" /\ CanCall(v)
    /\ audit' = OpenLogRequest(v)
    /\ visit' = [visit EXCEPT ![v].pc = "print", ![v].log_request = Len(audit')]
    /\ UNCHANGED <<corba, logger_set>>

\* Mutant: the statement is served though it cannot be logged.
PrintUnlogged(v) ==
    /\ visit[v].pc = "log" /\ CannotCall(v)
    /\ visit' = [visit EXCEPT ![v].pc = "print"]
    /\ UNCHANGED <<corba, audit, logger_set>>

\* "if LOGGER" cannot set up the client, or the logger does not answer, having
\* taken the request perhaps: the exception is raised before the "try".
PrepareLoggingRequestFails(v) ==
    /\ visit[v].pc = "log" /\ CannotCall(v)
    /\ audit' \in {audit} \cup IF client["Logger"] = NULL THEN {} ELSE {OpenLogRequest(v)}
    /\ visit' = [visit EXCEPT ![v].pc = "done", ![v].reply = "server_error"]
    /\ UNCHANGED <<corba, logger_set>>

\* The service prints the statement, or raises an exception.
PrintStatement(v) ==
    /\ visit[v].pc = "print" /\ CanCall(v)
    /\ \E outcome \in {"pdf", "INTERNAL_SERVER_ERROR"} \cup Absences :
          visit' = [visit EXCEPT ![v].pc = "finish", ![v].outcome = outcome]
    /\ UNCHANGED <<corba, audit, logger_set>>

\* Mutant: a client that could not be set up stays as it is.
PrintFailsForGood(v) ==
    /\ visit[v].pc = "print" /\ CannotCall(v)
    /\ IF client["RecordStatement"] = NULL THEN Store("RecordStatement", MaxOutages)
       ELSE UNCHANGED corba
    /\ visit' = [visit EXCEPT ![v].pc = "finish", ![v].outcome = "COMM_FAILURE"]
    /\ UNCHANGED <<audit, logger_set>>

\* Setting up the client of the service is inside the "try", as the call is.
PrintFails(v) ==
    /\ visit[v].pc = "print" /\ CannotCall(v)
    /\ visit' = [visit EXCEPT ![v].pc = "finish", ![v].outcome = "COMM_FAILURE"]
    /\ UNCHANGED <<corba, audit, logger_set>>

LogResult(outcome) ==
    CASE outcome = "pdf" -> "Ok"
      [] outcome \in Absences -> "NotFound"
      [] outcome \in Errors -> "Error"

Reply(outcome) ==
    CASE outcome = "pdf" -> "pdf"
      [] outcome \in Absences -> "not_found"
      [] outcome \in Errors -> "server_error"

\* Mutant: a statement that was printed is given as a reason too.
ClosedWithReason(v) ==
    [audit EXCEPT ![visit[v].log_request] =
        [@ EXCEPT !.closed = TRUE, !.result = LogResult(visit[v].outcome),
                  !.reason = visit[v].outcome]]

ClosedLogRequest(v) ==
    [audit EXCEPT ![visit[v].log_request] =
        [@ EXCEPT !.closed = TRUE, !.result = LogResult(visit[v].outcome),
                  !.reason = IF visit[v].outcome = "pdf" THEN NULL ELSE visit[v].outcome]]

\* Mutant: the log is closed after the statement alone, not in a "finally".
FinishUnlessError(v) ==
    /\ visit[v].pc = "finish"
    /\ IF visit[v].log_request = NULL \/ visit[v].outcome \in Errors
       THEN audit' = audit
       ELSE CanCall(v) /\ audit' = ClosedLogRequest(v)
    /\ visit' = [visit EXCEPT ![v].pc = "done", ![v].reply = Reply(visit[v].outcome)]
    /\ UNCHANGED <<corba, logger_set>>

\* finish_logging_request in the "finally" clause, and the response.
Finish(v) ==
    /\ visit[v].pc = "finish"
    /\ IF visit[v].log_request = NULL
       THEN audit' = audit
       ELSE CanCall(v) /\ audit' = ClosedLogRequest(v)
    /\ visit' = [visit EXCEPT ![v].pc = "done", ![v].reply = Reply(visit[v].outcome)]
    /\ UNCHANGED <<corba, logger_set>>

\* Mutant: the log is closed until the logger takes it.
FinishFailsAndRetries(v) ==
    /\ visit[v].pc = "finish" /\ visit[v].log_request # NULL /\ CannotCall(v)
    /\ UNCHANGED <<corba, visit, audit, logger_set>>

\* Closing the log raises, having closed it perhaps: this exception replaces
\* whatever was under way.
FinishFails(v) ==
    /\ visit[v].pc = "finish" /\ visit[v].log_request # NULL /\ CannotCall(v)
    /\ audit' \in {audit, ClosedLogRequest(v)}
    /\ visit' = [visit EXCEPT ![v].pc = "done", ![v].reply = "server_error"]
    /\ UNCHANGED <<corba, logger_set>>

Serve(v) ==
    \/ Resolve(v) \/ StoreClient(v)
    \/ PrepareLoggingRequest(v) \/ PrepareLoggingRequestFails(v)
    \/ PrintStatement(v) \/ PrintFails(v) \/ Finish(v) \/ FinishFails(v)

Environment ==
    /\ \E s \in Services : GoesDown(s) \/ ComesUp(s)
    /\ UNCHANGED <<visit, audit, logger_set>>

\* What was unavailable at some moment since a thread began.
Watch ==
    troubled' = [v \in Visits |->
        IF visit'[v].pc = "idle" THEN {}
        ELSE troubled[v] \cup {s \in Services : Unavailable(s)'}]

Init ==
    /\ ClientsInit
    /\ visit = [v \in Visits |-> IdleVisit]
    /\ audit = <<>>
    /\ logger_set \in BOOLEAN
    /\ troubled = [v \in Visits |-> {}]

Next ==
    /\ \/ Environment
       \/ \E v \in Visits : (\E subject \in Subjects : Begin(v, subject)) \/ Serve(v)
    /\ Watch

Spec == Init /\ [][Next]_vars

\* A thread goes on, and every call returns or fails.
FairSpec == Spec /\ \A v \in Visits : WF_vars(Serve(v) /\ Watch)

-----------------------------------------------------------------------------
(* Properties. *)

\* With a logger nothing is printed without a log request of the visitor's
\* own, and nobody is given a statement, or told there is none, before it is
\* closed with what happened - even where the logger is first looked for
\* during this very visit ("if LOGGER ... else None" of get).
StatementsAreLogged ==
    logger_set => \A v \in Visits :
        /\ visit[v].outcome # NULL => visit[v].log_request # NULL
        /\ visit[v].reply \in {"pdf", "not_found"} =>
              audit[visit[v].log_request] =
                  [about |-> visit[v].subject, closed |-> TRUE,
                   result |-> IF visit[v].reply = "pdf" THEN "Ok" ELSE "NotFound",
                   reason |-> IF visit[v].reply = "pdf" THEN NULL ELSE visit[v].outcome]

\* A visit fails only for a service that failed it or was unavailable during
\* the visit itself: a client that could not be set up before is set up anew,
\* and a logger that is not set is not missed (SimpleLazyObject).
ServerErrorHasCause ==
    \A v \in Visits : visit[v].reply = "server_error" =>
        \/ visit[v].outcome = "INTERNAL_SERVER_ERROR"
        \/ "RecordStatement" \in troubled[v]
        \/ logger_set /\ "Logger" \in troubled[v]

\* The log request of a visitor who was answered is closed, whatever came of
\* the statement, unless the logger was unavailable meanwhile.
LogRequestsAreClosed ==
    \A v \in Visits :
        visit[v].pc = "done" /\ visit[v].log_request # NULL /\ "Logger" \notin troubled[v] =>
            /\ audit[visit[v].log_request].closed
            /\ audit[visit[v].log_request].result = "Error" <=> visit[v].outcome \in Errors

\* Every visit ends, though the services never come back.
VisitsEnd == \A v \in Visits : visit[v].pc # "idle" ~> visit[v].pc = "done"

=============================================================================
