------------------------ MODULE RecordStatementProofs ------------------------
(* Theorems about RecordStatement, for any threads, subjects and outages. *)
EXTENDS RecordStatement, TLAPS

\* References are never younger than what they refer to.
ClientsGood ==
    \A s \in Services :
        /\ generation[s] <= outages
        /\ client[s] # NULL => client[s] <= generation[s]

\* The log request of v as it was opened, and as the outcome demands it.
Opened(v) ==
    [about |-> visit[v].subject, closed |-> FALSE, result |-> "Error", reason |-> NULL]

ClosedWell(v) ==
    audit[visit[v].log_request] =
        [about |-> visit[v].subject, closed |-> TRUE,
         result |-> LogResult(visit[v].outcome),
         reason |-> IF visit[v].outcome = "pdf" THEN NULL ELSE visit[v].outcome]

\* How far a thread is, by its pc.
ThreadGood(v) ==
    LET s == visit[v]
    IN  /\ s.pc = "idle" => s = IdleVisit
        /\ s.pc # "idle" => s.subject \in Subjects
        /\ s.pc = "log" => logger_set
        /\ s.pc # "done" => s.reply = NULL
        /\ s.pc \in {"idle", "log", "print"} => s.outcome = NULL
        /\ s.pc \in {"idle", "log"} => s.log_request = NULL
        /\ s.pc = "finish" => s.outcome # NULL
        /\ s.resolved # NULL => Calling(v) /\ s.resolved <= generation[Service(v)]

\* The log request of a thread: open until the thread is done.
LogGood(v) ==
    LET s == visit[v]
    IN  /\ s.log_request # NULL => logger_set /\ s.log_request \in DOMAIN audit
        /\ logger_set /\ (s.pc \in {"print", "finish"} \/ s.outcome # NULL) =>
              s.log_request # NULL
        /\ s.pc \in {"print", "finish"} /\ s.log_request # NULL =>
              audit[s.log_request] = Opened(v)
        /\ s.reply \in {"pdf", "not_found"} =>
              /\ s.outcome # NULL /\ s.reply = Reply(s.outcome)
              /\ s.log_request # NULL => ClosedWell(v)
        /\ s.pc = "done" /\ s.log_request # NULL /\ "Logger" \notin troubled[v] =>
              s.outcome # NULL /\ ClosedWell(v)

\* What a thread could have found unavailable, and what that excuses.
CauseGood(v) ==
    LET s == visit[v]
    IN  /\ s.pc # "idle" => {x \in Services : Unavailable(x)} \subseteq troubled[v]
        /\ s.outcome = "COMM_FAILURE" => "RecordStatement" \in troubled[v]
        /\ s.reply = "server_error" =>
              \/ s.outcome \in Errors
              \/ logger_set /\ "Logger" \in troubled[v]

Good ==
    /\ TypeOK /\ ClientsGood
    /\ \A v \in Visits : ThreadGood(v) /\ LogGood(v) /\ CauseGood(v)
    /\ \A v, w \in Visits :
          v # w /\ visit[v].log_request # NULL => visit[v].log_request # visit[w].log_request

LEMMA GoodInit == Init => Good
<1> SUFFICES ASSUME Init PROVE Good
  OBVIOUS
<1>1. TypeOK
  <2>1. IdleVisit \in VisitStates
    BY DEF IdleVisit, VisitStates
  <2>2. visit \in [Visits -> VisitStates] /\ audit \in Seq(LogRequests)
        /\ logger_set \in BOOLEAN /\ troubled \in [Visits -> SUBSET Services]
    BY <2>1 DEF Init
  <2>3. ClientsTypeOK
    BY OutagesAssumption DEF Init, ClientsInit, ClientsTypeOK
  <2> QED
    BY <2>2, <2>3 DEF TypeOK
<1>2. ClientsGood
  <2>1. \A s \in Services : generation[s] = 0 /\ client[s] = NULL /\ outages = 0
    BY DEF Init, ClientsInit
  <2>2. 0 <= 0
    OBVIOUS
  <2> QED
    BY <2>1, <2>2, Zenon DEF ClientsGood
<1>3. \A v \in Visits : /\ visit[v] = IdleVisit
                        /\ visit[v].pc = "idle" /\ visit[v].log_request = NULL
                        /\ visit[v].resolved = NULL /\ visit[v].outcome = NULL
                        /\ visit[v].reply = NULL
  BY DEF Init, IdleVisit
<1>4. ASSUME NEW v \in Visits PROVE ThreadGood(v) /\ LogGood(v) /\ CauseGood(v)
  BY <1>3, NullIsNoOutcome DEF ThreadGood, LogGood, CauseGood, Errors
<1> QED
  BY <1>1, <1>2, <1>3, <1>4 DEF Good

\* The watch only adds to what a thread that has begun could have found.
LEMMA Watched ==
    ASSUME TypeOK, Watch, NEW v \in Visits, visit'[v].pc # "idle"
    PROVE  troubled'[v] = troubled[v] \cup {s \in Services : Unavailable(s)'}
  BY DEF Watch

LEMMA WatchType ==
    ASSUME TypeOK, Watch PROVE troubled' \in [Visits -> SUBSET Services]
  BY DEF TypeOK, Watch

\* A step of v keeps the invariant if it is right about its own thread and
\* its own log request.
LEMMA ServeFrame ==
    ASSUME Good, NEW v \in Visits, Watch, UNCHANGED <<up, generation, outages, logger_set>>,
           visit' = [visit EXCEPT ![v] = visit'[v]],
           visit'[v] \in VisitStates, visit'[v].pc # "idle",
           client' \in [Services -> 0 .. MaxOutages \cup {NULL}], ClientsGood',
           audit' \in Seq(LogRequests), DOMAIN audit \subseteq DOMAIN audit',
           \A l \in DOMAIN audit : l # visit[v].log_request => audit'[l] = audit[l],
           visit'[v].log_request \in {visit[v].log_request} \cup (Nat \ DOMAIN audit),
           ThreadGood(v)', LogGood(v)',
           visit'[v].outcome = "COMM_FAILURE" => "RecordStatement" \in troubled'[v],
           visit'[v].reply = "server_error" =>
              visit'[v].outcome \in Errors \/ (logger_set /\ "Logger" \in troubled'[v])
    PROVE  Good'
<1>1. TypeOK'
  BY WatchType DEF Good, TypeOK, ClientsTypeOK
<1>2. CauseGood(v)'
  <2>1. {x \in Services : Unavailable(x)'} \subseteq troubled'[v]
    BY Watched DEF Good
  <2> QED
    BY <2>1 DEF CauseGood
<1>3. ASSUME NEW w \in Visits, w # v PROVE (ThreadGood(w) /\ LogGood(w) /\ CauseGood(w))'
  <2>1. visit'[w] = visit[w] /\ ThreadGood(w) /\ LogGood(w) /\ CauseGood(w)
    BY <1>3 DEF Good, TypeOK
  <2>2. ThreadGood(w)'
    BY <2>1 DEF ThreadGood, Calling, Service
  <2>3. visit[w].pc # "idle" =>
           troubled'[w] = troubled[w] \cup {x \in Services : Unavailable(x)'}
    BY <2>1, Watched DEF Good
  <2>4. visit[w].log_request # NULL =>
           visit[w].log_request \in DOMAIN audit /\ visit[w].log_request # visit[v].log_request
    BY <1>3, <2>1 DEF Good, LogGood
  <2>5. visit[w].pc = "idle" => visit[w].reply = NULL /\ visit[w].outcome = NULL
    BY <2>1 DEF ThreadGood
  <2>6. LogGood(w)'
    BY <2>1, <2>3, <2>4, <2>5, NullIsNoOutcome DEF LogGood, Opened, ClosedWell
  <2>7. CauseGood(w)'
    BY <2>1, <2>3, <2>5, NullIsNoOutcome DEF CauseGood, Errors
  <2> QED
    BY <2>2, <2>6, <2>7
<1>4. ASSUME NEW w \in Visits, w # v, visit'[w].log_request # NULL
      PROVE  visit'[w].log_request # visit'[v].log_request
  <2>1. visit'[w] = visit[w] /\ LogGood(w)
    BY <1>4 DEF Good, TypeOK
  <2> QED
    BY <1>4, <2>1 DEF Good, LogGood
<1>5. ASSUME NEW w \in Visits, NEW x \in Visits, w # x, visit'[w].log_request # NULL
      PROVE  visit'[w].log_request # visit'[x].log_request
  <2>1. CASE w = v
    BY <1>4, <1>5, <2>1
  <2>2. CASE w # v
    <3>1. visit'[w] = visit[w] /\ (x # v => visit'[x] = visit[x])
      BY <2>2 DEF Good, TypeOK
    <3> QED
      BY <1>4, <1>5, <2>2, <3>1 DEF Good
  <2> QED
    BY <2>1, <2>2
<1> QED
  BY <1>1, <1>2, <1>3, <1>5 DEF Good

\* What a step of v finds.
Finds(v) ==
    /\ TypeOK /\ ClientsGood /\ ThreadGood(v) /\ LogGood(v) /\ CauseGood(v)
    /\ visit[v] \in VisitStates
    /\ Len(audit) \in Nat

LEMMA GoodFinds ==
    ASSUME Good, NEW v \in Visits PROVE Finds(v)
  BY DEF Good, Finds, TypeOK

\* A service that cannot be called is one the thread could have found
\* unavailable.
LEMMA CannotCallIsTrouble ==
    ASSUME Good, NEW v \in Visits, visit[v].pc # "idle",
           NEW s \in Services, ~Reachable(s), Watch, visit'[v].pc # "idle"
    PROVE  s \in troubled'[v]
<1>1. Unavailable(s)
  <2>1. client[s] # NULL => client[s] <= generation[s] /\ client[s] \in Nat /\ generation[s] \in Nat
    BY OutagesAssumption DEF Good, ClientsGood, TypeOK, ClientsTypeOK
  <2> QED
    BY <2>1 DEF Reachable, Unavailable
<1>2. s \in troubled[v]
  BY <1>1 DEF Good, CauseGood
<1> QED
  BY <1>2, Watched DEF Good

LEMMA GoodBegin ==
    ASSUME Good, NEW v \in Visits, NEW subject \in Subjects, Begin(v, subject), Watch
    PROVE  Good'
<1>1. Finds(v)
  BY GoodFinds
<1>2. visit[v] = IdleVisit
  BY <1>1 DEF Begin, Finds, ThreadGood
<1>3. PICK pc \in {"log", "print"} :
      /\ visit' = [visit EXCEPT ![v] = visit'[v]]
      /\ visit'[v] = [visit[v] EXCEPT !.subject = subject, !.pc = pc]
      /\ pc = "log" <=> logger_set
  BY <1>1 DEF Begin, Finds, TypeOK, VisitStates
<1>4. /\ visit'[v] \in VisitStates
      /\ visit'[v].subject = subject /\ visit'[v].pc = pc /\ visit'[v].outcome = NULL
      /\ visit'[v].reply = NULL /\ visit'[v].log_request = NULL /\ visit'[v].resolved = NULL
      /\ visit[v].log_request = NULL
  <2>1. /\ visit[v].outcome = NULL /\ visit[v].reply = NULL
        /\ visit[v].log_request = NULL /\ visit[v].resolved = NULL
    BY <1>2 DEF IdleVisit
  <2> QED
    BY <1>1, <1>3, <2>1 DEF Finds, VisitStates
<1>5. ThreadGood(v)' /\ LogGood(v)'
  BY <1>3, <1>4, NullIsNoOutcome DEF ThreadGood, LogGood, Begin, corba
<1> QED
  BY <1>1, <1>3, <1>4, <1>5, NullIsNoOutcome, ServeFrame
  DEF Begin, corba, Finds, TypeOK, ClientsTypeOK, ClientsGood, Errors

\* Setting up a client changes nothing but the client.
LEMMA GoodResolve ==
    ASSUME Good, NEW v \in Visits, Resolve(v), Watch
    PROVE  Good'
<1>1. Finds(v)
  BY GoodFinds
<1>2. /\ Service(v) \in Services /\ Calling(v) /\ visit[v].pc # "idle"
      /\ UNCHANGED <<up, generation, client, outages, audit, logger_set>>
  BY ServicesAssumption DEF Resolve, Service, Calling, corba
<1>3. PICK resolved \in 0 .. MaxOutages :
      /\ resolved = generation[Service(v)]
      /\ visit' = [visit EXCEPT ![v] = visit'[v]]
      /\ visit'[v] = [visit[v] EXCEPT !.resolved = resolved]
  BY <1>1, <1>2 DEF Resolve, Finds, TypeOK, ClientsTypeOK
<1>4. /\ visit'[v] \in VisitStates
      /\ visit'[v].subject = visit[v].subject /\ visit'[v].pc = visit[v].pc
      /\ visit'[v].outcome = visit[v].outcome /\ visit'[v].reply = visit[v].reply
      /\ visit'[v].log_request = visit[v].log_request /\ visit'[v].resolved = resolved
  BY <1>1, <1>3 DEF Finds, VisitStates
<1>5. ThreadGood(v)'
  BY <1>1, <1>2, <1>3, <1>4, OutagesAssumption DEF Finds, ThreadGood, Calling, Service
<1>6. LogGood(v)'
  BY <1>1, <1>2, <1>4, Watched DEF Finds, LogGood, Opened, ClosedWell
<1>7. /\ visit'[v].outcome = "COMM_FAILURE" => "RecordStatement" \in troubled'[v]
      /\ visit'[v].reply # "server_error"
  BY <1>1, <1>2, <1>4, Watched, NullIsNoOutcome DEF Finds, CauseGood, ThreadGood, Calling
<1> QED
  BY <1>1, <1>2, <1>3, <1>4, <1>5, <1>6, <1>7, ServeFrame
  DEF Finds, TypeOK, ClientsTypeOK, ClientsGood

LEMMA GoodStoreClient ==
    ASSUME Good, NEW v \in Visits, StoreClient(v), Watch
    PROVE  Good'
<1>1. Finds(v)
  BY GoodFinds
<1>2. /\ Service(v) \in Services /\ Calling(v) /\ visit[v].pc # "idle"
      /\ UNCHANGED <<up, generation, outages, audit, logger_set>>
      /\ client' = [client EXCEPT ![Service(v)] = visit[v].resolved]
      /\ visit[v].resolved \in 0 .. MaxOutages
      /\ visit[v].resolved <= generation[Service(v)]
  BY <1>1, ServicesAssumption
  DEF StoreClient, Store, Service, Calling, Finds, ThreadGood, VisitStates
<1>3. /\ visit' = [visit EXCEPT ![v] = visit'[v]]
      /\ visit'[v] = [visit[v] EXCEPT !.resolved = NULL]
  BY <1>1 DEF StoreClient, Finds, TypeOK
<1>4. /\ visit'[v] \in VisitStates
      /\ visit'[v].subject = visit[v].subject /\ visit'[v].pc = visit[v].pc
      /\ visit'[v].outcome = visit[v].outcome /\ visit'[v].reply = visit[v].reply
      /\ visit'[v].log_request = visit[v].log_request /\ visit'[v].resolved = NULL
  BY <1>1, <1>3 DEF Finds, VisitStates
<1>5. ThreadGood(v)'
  BY <1>1, <1>2, <1>4 DEF Finds, ThreadGood
<1>6. LogGood(v)'
  BY <1>1, <1>2, <1>4, Watched DEF Finds, LogGood, Opened, ClosedWell
<1>7. /\ visit'[v].outcome = "COMM_FAILURE" => "RecordStatement" \in troubled'[v]
      /\ visit'[v].reply # "server_error"
  BY <1>1, <1>2, <1>4, Watched, NullIsNoOutcome DEF Finds, CauseGood, ThreadGood, Calling
<1>8. client' \in [Services -> 0 .. MaxOutages \cup {NULL}] /\ ClientsGood'
  BY <1>1, <1>2 DEF Finds, TypeOK, ClientsTypeOK, ClientsGood
<1> QED
  BY <1>1, <1>2, <1>3, <1>4, <1>5, <1>6, <1>7, <1>8, ServeFrame DEF Finds, TypeOK

\* A log request is opened under a new id.
LEMMA OpenType ==
    ASSUME Good, NEW v \in Visits, visit[v].pc # "idle", audit' = OpenLogRequest(v)
    PROVE  /\ audit' \in Seq(LogRequests)
           /\ Len(audit') \in Nat \ DOMAIN audit /\ Len(audit') \in DOMAIN audit'
           /\ DOMAIN audit \subseteq DOMAIN audit'
           /\ \A l \in DOMAIN audit : audit'[l] = audit[l]
           /\ audit'[Len(audit')] = Opened(v)
<1>1. Opened(v) \in LogRequests
  BY DEF Good, ThreadGood, Opened, LogRequests
<1>2. audit' = Append(audit, Opened(v)) /\ audit \in Seq(LogRequests)
  BY DEF Good, TypeOK, OpenLogRequest, Opened
<1> QED
  BY <1>1, <1>2

\* A log request is closed with the outcome.
LEMMA ClosedType ==
    ASSUME Good, NEW v \in Visits, visit[v].pc = "finish", visit[v].log_request # NULL,
           audit' = ClosedLogRequest(v)
    PROVE  /\ audit' \in Seq(LogRequests) /\ DOMAIN audit' = DOMAIN audit
           /\ \A l \in DOMAIN audit : l # visit[v].log_request => audit'[l] = audit[l]
           /\ audit'[visit[v].log_request] =
                 [about |-> visit[v].subject, closed |-> TRUE,
                  result |-> LogResult(visit[v].outcome),
                  reason |-> IF visit[v].outcome = "pdf" THEN NULL ELSE visit[v].outcome]
<1> DEFINE l == visit[v].log_request
           result == LogResult(visit[v].outcome)
           reason == IF visit[v].outcome = "pdf" THEN NULL ELSE visit[v].outcome
<1>1. /\ l \in DOMAIN audit /\ audit[l] = Opened(v) /\ audit \in Seq(LogRequests)
      /\ visit[v].subject \in Subjects
  BY DEF Good, TypeOK, LogGood, ThreadGood
<1>2. visit[v].outcome \in {"pdf"} \cup Absences \cup Errors
  BY DEF Good, TypeOK, ThreadGood, VisitStates
<1>3. result \in {"Ok", "NotFound", "Error"}
  BY <1>2 DEF LogResult, Absences, Errors
<1>4. reason \in Absences \cup Errors \cup {NULL}
  BY <1>2
<1>5. audit' = [audit EXCEPT ![l] = [@ EXCEPT !.closed = TRUE, !.result = result,
                                              !.reason = reason]]
  BY DEF ClosedLogRequest
<1> HIDE DEF l, result, reason
<1>6. audit[l] \in LogRequests /\ audit[l].about = visit[v].subject
  <2>1. audit[l] \in LogRequests
    BY <1>1
  <2>2. Opened(v).about = visit[v].subject
    BY DEF Opened
  <2> QED
    BY <1>1, <2>1, <2>2
<1>7. [audit[l] EXCEPT !.closed = TRUE, !.result = result, !.reason = reason] =
         [about |-> visit[v].subject, closed |-> TRUE, result |-> result, reason |-> reason]
  <2> DEFINE r == [audit[l] EXCEPT !.closed = TRUE, !.result = result, !.reason = reason]
  <2>1. /\ r \in LogRequests /\ r.about = visit[v].subject /\ r.closed = TRUE
        /\ r.result = result /\ r.reason = reason
    BY <1>3, <1>4, <1>6 DEF LogRequests
  <2> HIDE DEF r
  <2>2. r = [about |-> visit[v].subject, closed |-> TRUE, result |-> result, reason |-> reason]
    BY <2>1 DEF LogRequests
  <2> QED
    BY <2>2 DEF r
<1>8. [about |-> visit[v].subject, closed |-> TRUE, result |-> result, reason |-> reason]
         \in LogRequests
  BY <1>1, <1>3, <1>4 DEF LogRequests
<1> QED
  BY <1>1, <1>5, <1>7, <1>8 DEF l, result, reason

LEMMA GoodPrepareLoggingRequest ==
    ASSUME Good, NEW v \in Visits, PrepareLoggingRequest(v), Watch
    PROVE  Good'
<1>1. Finds(v)
  BY GoodFinds
<1>2. /\ visit[v].pc = "log" /\ logger_set /\ visit[v].resolved = NULL
      /\ visit[v].outcome = NULL /\ visit[v].reply = NULL /\ visit[v].log_request = NULL
      /\ visit[v].subject \in Subjects /\ UNCHANGED <<corba, logger_set>>
  BY <1>1 DEF PrepareLoggingRequest, CanCall, Finds, ThreadGood
<1>3. PICK l \in Nat \ DOMAIN audit :
      /\ l = Len(audit') /\ audit' \in Seq(LogRequests) /\ l \in DOMAIN audit'
      /\ DOMAIN audit \subseteq DOMAIN audit'
      /\ \A k \in DOMAIN audit : audit'[k] = audit[k]
      /\ audit'[l] = Opened(v)
  BY <1>2, OpenType DEF PrepareLoggingRequest
<1>4. /\ visit' = [visit EXCEPT ![v] = visit'[v]]
      /\ visit'[v] = [visit[v] EXCEPT !.pc = "print", !.log_request = l]
  BY <1>1, <1>3 DEF PrepareLoggingRequest, Finds, TypeOK
<1>5. /\ visit'[v] \in VisitStates
      /\ visit'[v].subject = visit[v].subject /\ visit'[v].pc = "print"
      /\ visit'[v].outcome = NULL /\ visit'[v].reply = NULL
      /\ visit'[v].log_request = l /\ visit'[v].resolved = NULL
  BY <1>1, <1>2, <1>4 DEF Finds, VisitStates
<1>6. ThreadGood(v)'
  BY <1>2, <1>5 DEF ThreadGood
<1>7. LogGood(v)'
  <2>1. audit'[l] = Opened(v)'
    BY <1>3, <1>5 DEF Opened
  <2> QED
    BY <1>2, <1>3, <1>5, <2>1, NullIsNoOutcome, OutagesAssumption DEF LogGood
<1> QED
  BY <1>1, <1>2, <1>3, <1>4, <1>5, <1>6, <1>7, NullIsNoOutcome, ServeFrame
  DEF Finds, TypeOK, ClientsTypeOK, ClientsGood, corba, Errors

LEMMA GoodPrepareLoggingRequestFails ==
    ASSUME Good, NEW v \in Visits, PrepareLoggingRequestFails(v), Watch
    PROVE  Good'
<1>1. Finds(v)
  BY GoodFinds
<1>2. /\ visit[v].pc = "log" /\ logger_set /\ visit[v].resolved = NULL
      /\ visit[v].outcome = NULL /\ visit[v].reply = NULL /\ visit[v].log_request = NULL
      /\ visit[v].subject \in Subjects /\ UNCHANGED <<corba, logger_set>>
      /\ ~Reachable("Logger")
  BY <1>1 DEF PrepareLoggingRequestFails, CannotCall, Service, Finds, ThreadGood
<1>3. /\ audit' \in Seq(LogRequests) /\ DOMAIN audit \subseteq DOMAIN audit'
      /\ \A k \in DOMAIN audit : audit'[k] = audit[k]
  <2>1. CASE audit' = audit
    BY <1>1, <2>1 DEF Finds, TypeOK
  <2>2. CASE audit' = OpenLogRequest(v)
    BY <1>2, <2>2, OpenType
  <2> QED
    BY <2>1, <2>2 DEF PrepareLoggingRequestFails
<1>4. /\ visit' = [visit EXCEPT ![v] = visit'[v]]
      /\ visit'[v] = [visit[v] EXCEPT !.pc = "done", !.reply = "server_error"]
  BY <1>1 DEF PrepareLoggingRequestFails, Finds, TypeOK
<1>5. /\ visit'[v] \in VisitStates
      /\ visit'[v].subject = visit[v].subject /\ visit'[v].pc = "done"
      /\ visit'[v].outcome = NULL /\ visit'[v].reply = "server_error"
      /\ visit'[v].log_request = NULL /\ visit'[v].resolved = NULL
  BY <1>1, <1>2, <1>4 DEF Finds, VisitStates
<1>6. ThreadGood(v)' /\ LogGood(v)'
  BY <1>2, <1>5 DEF ThreadGood, LogGood
<1>7. "Logger" \in troubled'[v]
  BY <1>2, <1>5, ServicesAssumption, CannotCallIsTrouble
<1> QED
  BY <1>1, <1>2, <1>3, <1>4, <1>5, <1>6, <1>7, NullIsNoOutcome, ServeFrame
  DEF Finds, TypeOK, ClientsTypeOK, ClientsGood, corba, Errors

\* The service prints the statement, refuses, or cannot be called.
LEMMA GoodPrint ==
    ASSUME Good, NEW v \in Visits, PrintStatement(v) \/ PrintFails(v), Watch
    PROVE  Good'
<1>1. Finds(v)
  BY GoodFinds
<1>2. /\ visit[v].pc = "print" /\ visit[v].resolved = NULL /\ visit[v].reply = NULL
      /\ visit[v].subject \in Subjects /\ UNCHANGED <<corba, audit, logger_set>>
  BY <1>1 DEF PrintStatement, PrintFails, CanCall, CannotCall, Finds, ThreadGood
<1>3. PICK outcome \in {"pdf"} \cup Absences \cup Errors :
      /\ visit' = [visit EXCEPT ![v].pc = "finish", ![v].outcome = outcome]
      /\ outcome = "COMM_FAILURE" => PrintFails(v)
  BY DEF PrintStatement, PrintFails, Absences, Errors
<1>4. /\ visit' = [visit EXCEPT ![v] = visit'[v]]
      /\ visit'[v] = [visit[v] EXCEPT !.pc = "finish", !.outcome = outcome]
  BY <1>1, <1>3 DEF Finds, TypeOK
<1>5. /\ visit'[v] \in VisitStates
      /\ visit'[v].subject = visit[v].subject /\ visit'[v].pc = "finish"
      /\ visit'[v].outcome = outcome /\ visit'[v].reply = NULL
      /\ visit'[v].log_request = visit[v].log_request /\ visit'[v].resolved = NULL
  BY <1>1, <1>2, <1>4 DEF Finds, VisitStates
<1>6. ThreadGood(v)'
  BY <1>2, <1>5, NullIsNoOutcome DEF ThreadGood
<1>7. LogGood(v)'
  BY <1>1, <1>2, <1>5, NullIsNoOutcome DEF Finds, LogGood, Opened
<1>8. outcome = "COMM_FAILURE" => "RecordStatement" \in troubled'[v]
  <2> SUFFICES ASSUME PrintFails(v) PROVE "RecordStatement" \in troubled'[v]
    BY <1>3
  <2>1. ~Reachable("RecordStatement")
    BY <1>2 DEF PrintFails, CannotCall, Service
  <2> QED
    BY <1>2, <1>5, <2>1, ServicesAssumption, CannotCallIsTrouble
<1> QED
  BY <1>1, <1>2, <1>4, <1>5, <1>6, <1>7, <1>8, NullIsNoOutcome, ServeFrame
  DEF Finds, TypeOK, ClientsTypeOK, ClientsGood, corba

\* What closing the log leaves of the logger's requests.
LEMMA FinishType ==
    ASSUME Good, NEW v \in Visits, visit[v].pc = "finish",
           audit' = audit \/ (visit[v].log_request # NULL /\ audit' = ClosedLogRequest(v))
    PROVE  /\ audit' \in Seq(LogRequests) /\ DOMAIN audit' = DOMAIN audit
           /\ \A l \in DOMAIN audit : l # visit[v].log_request => audit'[l] = audit[l]
<1>1. CASE audit' = audit
  BY <1>1 DEF Good, TypeOK
<1>2. CASE visit[v].log_request # NULL /\ audit' = ClosedLogRequest(v)
  BY <1>2, ClosedType
<1> QED
  BY <1>1, <1>2

LEMMA GoodFinish ==
    ASSUME Good, NEW v \in Visits, Finish(v), Watch
    PROVE  Good'
<1>1. Finds(v)
  BY GoodFinds
<1>2. /\ visit[v].pc = "finish" /\ visit[v].resolved = NULL /\ visit[v].reply = NULL
      /\ visit[v].subject \in Subjects /\ UNCHANGED <<corba, logger_set>>
      /\ visit[v].outcome \in {"pdf"} \cup Absences \cup Errors
  BY <1>1 DEF Finish, CanCall, Finds, ThreadGood, Calling, VisitStates
<1>3. /\ audit' \in Seq(LogRequests) /\ DOMAIN audit' = DOMAIN audit
      /\ \A l \in DOMAIN audit : l # visit[v].log_request => audit'[l] = audit[l]
  BY <1>2, FinishType DEF Finish
<1>4. PICK reply \in {"pdf", "not_found", "server_error"} :
      /\ visit' = [visit EXCEPT ![v] = visit'[v]]
      /\ visit'[v] = [visit[v] EXCEPT !.pc = "done", !.reply = reply]
      /\ reply = Reply(visit[v].outcome)
  <2>1. Reply(visit[v].outcome) \in {"pdf", "not_found", "server_error"}
    BY <1>2 DEF Reply, Absences, Errors
  <2> QED
    BY <1>1, <2>1 DEF Finish, Finds, TypeOK
<1>5. /\ visit'[v] \in VisitStates
      /\ visit'[v].subject = visit[v].subject /\ visit'[v].pc = "done"
      /\ visit'[v].outcome = visit[v].outcome /\ visit'[v].reply = reply
      /\ visit'[v].log_request = visit[v].log_request /\ visit'[v].resolved = NULL
  BY <1>1, <1>2, <1>4 DEF Finds, VisitStates
<1>6. ThreadGood(v)'
  BY <1>2, <1>5 DEF ThreadGood
<1>7. LogGood(v)'
  <2>1. visit[v].log_request # NULL => ClosedWell(v)'
    <3> SUFFICES ASSUME visit[v].log_request # NULL PROVE ClosedWell(v)'
      OBVIOUS
    <3>1. audit' = ClosedLogRequest(v)
      BY DEF Finish
    <3> QED
      BY <1>2, <1>5, <3>1, ClosedType DEF ClosedWell
  <2>2. visit[v].log_request # NULL =>
           logger_set /\ visit[v].log_request \in DOMAIN audit
    BY <1>1 DEF Finds, LogGood
  <2>3. logger_set => visit[v].log_request # NULL
    BY <1>1, <1>2 DEF Finds, LogGood
  <2>4. visit[v].outcome # NULL
    BY <1>2, NullIsNoOutcome
  <2> QED
    BY <1>2, <1>3, <1>4, <1>5, <2>1, <2>2, <2>3, <2>4 DEF LogGood
<1>8. reply = "server_error" => visit[v].outcome \in Errors
  BY <1>2, <1>4 DEF Reply, Absences, Errors
<1>9. visit[v].outcome = "COMM_FAILURE" => "RecordStatement" \in troubled'[v]
  BY <1>1, <1>5, Watched DEF Finds, CauseGood
<1> QED
  BY <1>1, <1>2, <1>3, <1>4, <1>5, <1>6, <1>7, <1>8, <1>9, ServeFrame
  DEF Finds, TypeOK, ClientsTypeOK, ClientsGood, corba

LEMMA GoodFinishFails ==
    ASSUME Good, NEW v \in Visits, FinishFails(v), Watch
    PROVE  Good'
<1>1. Finds(v)
  BY GoodFinds
<1>2. /\ visit[v].pc = "finish" /\ visit[v].resolved = NULL /\ visit[v].reply = NULL
      /\ visit[v].subject \in Subjects /\ UNCHANGED <<corba, logger_set>>
      /\ visit[v].outcome # NULL /\ visit[v].log_request # NULL
      /\ visit[v].log_request \in DOMAIN audit /\ ~Reachable("Logger") /\ logger_set
  BY <1>1 DEF FinishFails, CannotCall, Service, Finds, ThreadGood, LogGood
<1>3. /\ audit' \in Seq(LogRequests) /\ DOMAIN audit' = DOMAIN audit
      /\ \A l \in DOMAIN audit : l # visit[v].log_request => audit'[l] = audit[l]
  BY <1>2, FinishType DEF FinishFails
<1>4. /\ visit' = [visit EXCEPT ![v] = visit'[v]]
      /\ visit'[v] = [visit[v] EXCEPT !.pc = "done", !.reply = "server_error"]
  BY <1>1 DEF FinishFails, Finds, TypeOK
<1>5. /\ visit'[v] \in VisitStates
      /\ visit'[v].subject = visit[v].subject /\ visit'[v].pc = "done"
      /\ visit'[v].outcome = visit[v].outcome /\ visit'[v].reply = "server_error"
      /\ visit'[v].log_request = visit[v].log_request /\ visit'[v].resolved = NULL
  BY <1>1, <1>2, <1>4 DEF Finds, VisitStates
<1>6. ThreadGood(v)'
  BY <1>2, <1>5 DEF ThreadGood
<1>7. "Logger" \in troubled'[v]
  BY <1>2, <1>5, ServicesAssumption, CannotCallIsTrouble
<1>8. LogGood(v)'
  BY <1>2, <1>3, <1>5, <1>7 DEF LogGood
<1>9. logger_set \/ visit[v].log_request = NULL
  BY <1>1, <1>2 DEF Finds, LogGood
<1>10. visit[v].outcome = "COMM_FAILURE" => "RecordStatement" \in troubled'[v]
  BY <1>1, <1>2, <1>5, Watched DEF Finds, CauseGood
<1> QED
  BY <1>1, <1>2, <1>3, <1>4, <1>5, <1>6, <1>7, <1>8, <1>9, <1>10, ServeFrame
  DEF Finds, TypeOK, ClientsTypeOK, ClientsGood, corba

\* Services come and go: no thread does anything, and what a thread could have
\* found unavailable only grows.
LEMMA GoodEnvironment ==
    ASSUME Good, Environment, Watch PROVE Good'
<1>1. PICK x \in Services : GoesDown(x) \/ ComesUp(x)
  BY DEF Environment
<1>2. UNCHANGED <<visit, audit, logger_set, client>>
  BY <1>1 DEF Environment, GoesDown, ComesUp
<1>3. /\ up' \in SUBSET Services /\ outages' \in 0 .. MaxOutages
      /\ generation' \in [Services -> 0 .. MaxOutages]
      /\ \A s \in Services : generation[s] <= generation'[s] /\ generation'[s] <= outages'
  <2>1. /\ up \in SUBSET Services /\ outages \in 0 .. MaxOutages /\ MaxOutages \in Nat
        /\ generation \in [Services -> 0 .. MaxOutages]
        /\ \A s \in Services : generation[s] <= outages
    BY OutagesAssumption DEF Good, ClientsGood, TypeOK, ClientsTypeOK
  <2>2. CASE GoesDown(x)
    <3>1. /\ up' \in SUBSET Services /\ outages' = outages + 1 /\ outages < MaxOutages
          /\ generation' = generation
      BY <2>1, <2>2 DEF GoesDown
    <3> QED
      BY <2>1, <3>1
  <2>3. CASE ComesUp(x)
    <3>1. /\ up' \in SUBSET Services /\ outages' = outages
          /\ generation' = generation \/ generation' = [generation EXCEPT ![x] = outages]
      BY <2>1, <2>3 DEF ComesUp
    <3> QED
      BY <2>1, <3>1
  <2> QED
    BY <1>1, <2>2, <2>3
<1>4. TypeOK'
  BY <1>2, <1>3, WatchType DEF Good, TypeOK, ClientsTypeOK
<1>5. ClientsGood'
  BY <1>2, <1>3, OutagesAssumption DEF Good, ClientsGood, TypeOK, ClientsTypeOK
<1>6. ASSUME NEW v \in Visits PROVE (ThreadGood(v) /\ LogGood(v) /\ CauseGood(v))'
  <2>1. ThreadGood(v) /\ LogGood(v) /\ CauseGood(v)
    BY DEF Good
  <2>2. visit[v].pc # "idle" =>
           troubled'[v] = troubled[v] \cup {s \in Services : Unavailable(s)'}
    BY <1>2, Watched DEF Good
  <2>3. ThreadGood(v)'
    <3>1. ASSUME visit[v].resolved # NULL PROVE visit[v].resolved <= generation'[Service(v)]
      <4>1. /\ Service(v) \in Services /\ visit[v].resolved \in Nat
            /\ visit[v].resolved <= generation[Service(v)]
        BY <2>1, <3>1, ServicesAssumption, OutagesAssumption
        DEF ThreadGood, Service, Good, TypeOK, VisitStates
      <4> QED
        BY <1>3, <4>1, OutagesAssumption DEF Good, TypeOK, ClientsTypeOK
    <3> QED
      BY <1>2, <2>1, <3>1 DEF ThreadGood, Service, Calling
  <2>4. visit[v].pc = "idle" => visit[v].reply = NULL /\ visit[v].outcome = NULL
    BY <2>1 DEF ThreadGood
  <2>5. LogGood(v)'
    BY <1>2, <2>1, <2>2, <2>4 DEF LogGood, Opened, ClosedWell
  <2>6. CauseGood(v)'
    BY <1>2, <2>1, <2>2, <2>4, NullIsNoOutcome DEF CauseGood, Errors
  <2> QED
    BY <2>3, <2>5, <2>6
<1> QED
  BY <1>2, <1>4, <1>5, <1>6 DEF Good

LEMMA GoodStep == Good /\ [Next]_vars => Good'
<1> SUFFICES ASSUME Good, [Next]_vars PROVE Good'
  OBVIOUS
<1>1. CASE Environment /\ Watch
  BY <1>1, GoodEnvironment
<1>2. ASSUME NEW v \in Visits, NEW subject \in Subjects, Begin(v, subject), Watch PROVE Good'
  BY <1>2, GoodBegin
<1>3. ASSUME NEW v \in Visits, Serve(v), Watch PROVE Good'
  BY <1>3, GoodResolve, GoodStoreClient, GoodPrepareLoggingRequest,
     GoodPrepareLoggingRequestFails, GoodPrint, GoodFinish, GoodFinishFails DEF Serve
<1>4. CASE UNCHANGED vars
  BY <1>4 DEF vars, corba, Good, TypeOK, ClientsTypeOK, ClientsGood, ThreadGood, LogGood,
        CauseGood, Unavailable, Calling, Service, Opened, ClosedWell
<1> QED
  BY <1>1, <1>2, <1>3, <1>4 DEF Next

LEMMA GoodAlways == Spec => []Good
  BY GoodInit, GoodStep, PTL DEF Spec

\* Every variable keeps its type: references, log requests and outcomes are
\* what the clients, the logger and the handler can hold.
THEOREM StatementTypeCorrect == Spec => []TypeOK
<1>1. Good => TypeOK
  BY DEF Good
<1> QED
  BY <1>1, GoodAlways, PTL

\* With a logger nothing is printed without an open log request of one's own,
\* and nobody is answered before it is closed with what happened, for any
\* number of threads that share the clients and any number of outages.
THEOREM NothingIsPrintedUnlogged == Spec => []StatementsAreLogged
<1>1. ASSUME Good, logger_set, NEW v \in Visits
      PROVE  /\ visit[v].outcome # NULL => visit[v].log_request # NULL
             /\ visit[v].reply \in {"pdf", "not_found"} =>
                   audit[visit[v].log_request] =
                      [about |-> visit[v].subject, closed |-> TRUE,
                       result |-> IF visit[v].reply = "pdf" THEN "Ok" ELSE "NotFound",
                       reason |-> IF visit[v].reply = "pdf" THEN NULL ELSE visit[v].outcome]
  <2>1. visit[v].outcome # NULL => visit[v].log_request # NULL
    BY <1>1 DEF Good, LogGood
  <2>2. ASSUME visit[v].reply \in {"pdf", "not_found"}
        PROVE  /\ visit[v].outcome \in {"pdf"} \cup Absences \cup Errors
               /\ visit[v].reply = Reply(visit[v].outcome) /\ ClosedWell(v)
    BY <1>1, <2>2 DEF Good, TypeOK, LogGood, VisitStates
  <2>3. ASSUME visit[v].reply \in {"pdf", "not_found"}
        PROVE  /\ LogResult(visit[v].outcome) = IF visit[v].reply = "pdf" THEN "Ok" ELSE "NotFound"
               /\ visit[v].outcome = "pdf" <=> visit[v].reply = "pdf"
    BY <2>2, <2>3 DEF Reply, LogResult, Absences, Errors
  <2> QED
    BY <2>1, <2>2, <2>3 DEF ClosedWell
<1>2. Good => StatementsAreLogged
  BY <1>1 DEF StatementsAreLogged
<1> QED
  BY <1>2, GoodAlways, PTL

\* A visit fails only for a service that failed it or was unavailable during
\* the visit itself, whatever the threads before it met.
THEOREM FailuresHaveCauses == Spec => []ServerErrorHasCause
<1>1. Good => ServerErrorHasCause
  BY DEF Good, CauseGood, ServerErrorHasCause, Errors
<1> QED
  BY <1>1, GoodAlways, PTL

\* The log request of a visitor who was answered is closed, unless the logger
\* was unavailable meanwhile.
THEOREM LogsGetClosed == Spec => []LogRequestsAreClosed
<1>1. ASSUME Good, NEW v \in Visits, visit[v].pc = "done", visit[v].log_request # NULL,
             "Logger" \notin troubled[v]
      PROVE  /\ audit[visit[v].log_request].closed
             /\ audit[visit[v].log_request].result = "Error" <=> visit[v].outcome \in Errors
  <2>1. ClosedWell(v) /\ visit[v].outcome \in {"pdf"} \cup Absences \cup Errors
    BY <1>1 DEF Good, TypeOK, LogGood, VisitStates
  <2>2. LogResult(visit[v].outcome) = "Error" <=> visit[v].outcome \in Errors
    BY <2>1 DEF LogResult, Absences, Errors
  <2> QED
    BY <2>1, <2>2 DEF ClosedWell
<1>2. Good => LogRequestsAreClosed
  BY <1>1 DEF LogRequestsAreClosed
<1> QED
  BY <1>2, GoodAlways, PTL

=============================================================================
