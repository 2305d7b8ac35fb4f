--------------------------- MODULE PublicRequests ---------------------------
(***************************************************************************)
(* Public requests of webwhois.  A POST of a valid form opens a request    *)
(* log, calls the registry, publishes the response in the shared cache     *)
(* under a fresh random key, closes the log and redirects to the page of   *)
(* that key.  A GET of a response page, or of the notarized letter's PDF,  *)
(* finds the response by the key.  Handlers run concurrently in several    *)
(* workers and meet in the cache, the registry and the logger; the cache   *)
(* forgets, and every call out of the process may fail.                    *)
(***************************************************************************)
EXTENDS PublicRequestForms, Sequences

CONSTANTS
    Posts,           \* the POST requests browsers send, one handler each
    Visits,          \* the GET requests of response pages and PDFs
    Keys,            \* what get_random_string(64) can draw
    Submissions,     \* the forms browsers post
    RegistryErrors,  \* names of the exceptions the registry raises
    LoggerEnabled,   \* whether the LOGGER setting is set
    Faults           \* which calls out of the process may go wrong

PossibleFaults == {"logger_fails", "reply_lost", "cache_fails", "worker_dies"}

ASSUME DeskAssumption ==
    /\ Submissions \subseteq Forms
    /\ LoggerEnabled \in BOOLEAN
    /\ Faults \subseteq PossibleFaults

\* What the cache stores: every response of a valid form.
Responses ==
    [class               : {"SendPasswordResponse", "PersonalInfoResponse", "BlockResponse"},
     object_type         : ObjectType,
     public_request_id   : Nat,
     request_type        : RequestNames,
     handle              : Handles,
     custom_email        : Emails \cup {NULL},
     action              : {"block", "unblock", NULL},
     lock_type           : LockType \cup {NULL},
     confirmation_method : ConfirmationMethod \cup {NULL}]

\* What a registry operation may raise besides the errors its view knows.
SystemErrors == {"INTERNAL_SERVER_ERROR", "COMM_FAILURE"}

\* The failures of a call out of the process.
CallFailures == RegistryErrors \cup SystemErrors \cup {"CacheError"}

\* An exception as finish_logging_request sees it: "known" for a
\* PublicRequestKnownException, and the name it reports.
Exceptions == [kind : {"known", "unexpected"}, name : CallFailures \cup {"KeyError"}]

Known(name) == [kind |-> "known", name |-> name]
Unexpected(name) == [kind |-> "unexpected", name |-> name]

ASSUME NullIsNoObject ==
    /\ NULL \notin Responses
    /\ NULL \notin Exceptions
    /\ NULL \notin Forms
    /\ NULL \notin Keys
    /\ NULL \notin SendTo \cup LockType \cup
          {"block_transfer", "block_transfer_and_update",
           "unblock_transfer", "unblock_transfer_and_update"}
    /\ NULL \notin Pages \cup {"form", "server_error", "page", "pdf", "not_found"}

VARIABLES
    post,         \* the state of each POST's handler
    visit,        \* the state of each GET's handler
    cache,        \* the response stored under each key, or NULL
    registry,     \* the requests the registry holds; the index is the id
    audit,        \* the logger's requests; the index is the id
    diagnostics   \* what the PDF view wrote to the error log

vars == <<post, visit, cache, registry, audit, diagnostics>>

-----------------------------------------------------------------------------
(* Types. *)

PostPC == {"idle", "log", "call", "publish", "finish", "respond", "done", "dead"}
VisitPC == {"idle", "lookup", "render", "log", "call", "finish", "respond", "done", "dead"}

PostStates ==
    [pc                : PostPC,
     form              : Submissions \cup {NULL},
     public_key        : Keys \cup {NULL},
     log_request       : Nat \cup {NULL},
     public_request_id : Nat \cup {NULL},
     error             : Exceptions \cup {NULL},
     reply             : Pages \cup {"form", "server_error", NULL}]

VisitStates ==
    [pc              : VisitPC,
     page            : Pages \cup {"pdf", NULL},
     public_key      : Keys \cup {NULL},
     public_response : Responses \cup {NULL},
     log_request     : Nat \cup {NULL},
     error           : Exceptions \cup {NULL},
     reply           : {"page", "pdf", "not_found", "server_error", NULL}]

Commands == {RegistryCommand(f) : f \in {g \in Submissions : IsValid(g)}}

ASSUME NullIsNoCommand == NULL \notin Commands

RegistryRequests ==
    [command : Commands, log_request_id : Nat \cup {NULL}, submitter : Posts]

\* The properties the form views and the PDF view give to the logger.
FormAbouts ==
    [name          : RequestNames,
     handle        : Handles,
     handleType    : ObjectType,
     sendTo        : SendTo \cup {NULL},
     confirmMethod : ConfirmationMethod \cup {NULL},
     customEmail   : Emails \cup {NULL}]

PdfAbouts ==
    [name         : {"NotarizedLetterPdf"},
     handle       : Handles,
     objectType   : ObjectType,
     documentType : RequestNames,
     customEmail  : Emails \cup {NULL}]

LogRequests ==
    [about          : FormAbouts \cup PdfAbouts,
     closed         : BOOLEAN,
     result         : {"Error", "Ok", "Fail"},
     properties_out : Exceptions \cup {NULL},
     reference      : Nat \cup {NULL}]

TypeOK ==
    /\ post \in [Posts -> PostStates]
    /\ visit \in [Visits -> VisitStates]
    /\ cache \in [Keys -> Responses \cup {NULL}]
    /\ registry \in Seq(RegistryRequests)
    /\ audit \in Seq(LogRequests)
    /\ diagnostics \subseteq [printed : Nat \cup {NULL}, serving : Nat]

-----------------------------------------------------------------------------
(* The logger. *)

\* LOGGER.create_request: the result is "Error" until the view sets another.
OpenLogRequest(about) ==
    [about |-> about, closed |-> FALSE, result |-> "Error",
     properties_out |-> NULL, reference |-> NULL]

\* Mutant: every exception is a "Fail".
LogResultFail(response_id, error) ==
    IF error = NULL /\ response_id # NULL THEN "Ok" ELSE "Fail"

LogResult(response_id, error) ==
    IF error = NULL
    THEN IF response_id = NULL THEN "Fail" ELSE "Ok"
    ELSE IF error.kind = "known" THEN "Fail" ELSE "Error"

\* Mutant: the logger's latest request is closed instead of the handler's own.
FinishLatestLoggingRequest(log_request, response_id, error) ==
    IF log_request = NULL
    THEN audit' = audit
    ELSE audit' = [audit EXCEPT
            ![Len(audit)].closed = TRUE,
            ![Len(audit)].result = LogResult(response_id, error),
            ![Len(audit)].properties_out = error,
            ![Len(audit)].reference = IF error = NULL THEN response_id ELSE NULL]

\* finish_logging_request
FinishLoggingRequest(log_request, response_id, error) ==
    IF log_request = NULL
    THEN audit' = audit
    ELSE audit' = [audit EXCEPT
            ![log_request].closed = TRUE,
            ![log_request].result = LogResult(response_id, error),
            ![log_request].properties_out = error,
            ![log_request].reference = IF error = NULL THEN response_id ELSE NULL]

-----------------------------------------------------------------------------
(* The handler of a POST. *)

\* The form is not valid: it is shown again with its errors.
SubmitInvalid(p, f) ==
    /\ post[p].pc = "idle"
    /\ ~IsValid(f)
    /\ post' = [post EXCEPT ![p].pc = "respond", ![p].form = f, ![p].reply = "form"]
    /\ UNCHANGED <<visit, cache, registry, audit, diagnostics>>

DrawnKeys == {post[p].public_key : p \in Posts} \ {NULL}

\* The form is valid: logged_call_to_registry draws the key.
SubmitValid(p, f, k) ==
    /\ post[p].pc = "idle"
    /\ IsValid(f)
    /\ k \notin DrawnKeys
    /\ post' = [post EXCEPT ![p].pc = IF LoggerEnabled THEN "log" ELSE "call",
                            ![p].form = f, ![p].public_key = k]
    /\ UNCHANGED <<visit, cache, registry, audit, diagnostics>>

PrepareLoggingRequest(p) ==
    /\ post[p].pc = "log"
    /\ audit' = Append(audit, OpenLogRequest(LoggingProperties(post[p].form)))
    /\ post' = [post EXCEPT ![p].pc = "call", ![p].log_request = Len(audit')]
    /\ UNCHANGED <<visit, cache, registry, diagnostics>>

\* The logger refuses the request, or takes it and its answer is lost: the
\* exception is raised before the "try", nobody closes the log request.
PrepareLoggingRequestFails(p) ==
    /\ post[p].pc = "log"
    /\ "logger_fails" \in Faults
    /\ \/ audit' = audit
       \/ audit' = Append(audit, OpenLogRequest(LoggingProperties(post[p].form)))
    /\ post' = [post EXCEPT ![p].pc = "respond", ![p].reply = "server_error"]
    /\ UNCHANGED <<visit, cache, registry, diagnostics>>

\* _call_registry_command stops before the call: KeyError.
ConfirmationMissing(p) ==
    /\ post[p].pc = "call"
    /\ ConfirmationIsMissing(post[p].form)
    /\ post' = [post EXCEPT ![p].pc = "finish",
                            ![p].error = Unexpected("KeyError")]
    /\ UNCHANGED <<visit, cache, registry, audit, diagnostics>>

\* Mutant: the registry is given the logger's latest request.
CreateRequestUnderLatestLog(p) ==
    registry' = Append(registry,
                       [command        |-> RegistryCommand(post[p].form),
                        log_request_id |-> Len(audit),
                        submitter      |-> p])

CreateRequest(p) ==
    registry' = Append(registry,
                       [command        |-> RegistryCommand(post[p].form),
                        log_request_id |-> post[p].log_request,
                        submitter      |-> p])

\* The registry takes the command and returns the id of the new request.
RegistryCreates(p) ==
    /\ post[p].pc = "call"
    /\ ~ConfirmationIsMissing(post[p].form)
    /\ CreateRequest(p)
    /\ post' = [post EXCEPT ![p].pc = "publish", ![p].public_request_id = Len(registry')]
    /\ UNCHANGED <<visit, cache, audit, diagnostics>>

\* The registry raises e: shown on the form when the view knows it.
RegistryRefuses(p, e) ==
    /\ post[p].pc = "call"
    /\ ~ConfirmationIsMissing(post[p].form)
    /\ e \in KnownErrors(post[p].form) \cup SystemErrors
    /\ post' = [post EXCEPT ![p].pc = "finish",
                            ![p].error = IF e \in KnownErrors(post[p].form)
                                        THEN Known(e) ELSE Unexpected(e)]
    /\ UNCHANGED <<visit, cache, registry, audit, diagnostics>>

\* Mutant: the call is tried again.
RegistryReplyLostRetried(p) ==
    /\ post[p].pc = "call"
    /\ "reply_lost" \in Faults
    /\ ~ConfirmationIsMissing(post[p].form)
    /\ Len(registry) < 3
    /\ CreateRequest(p)
    /\ UNCHANGED <<post, visit, cache, audit, diagnostics>>

\* The registry takes the command, its answer is lost.
RegistryReplyLost(p) ==
    /\ post[p].pc = "call"
    /\ "reply_lost" \in Faults
    /\ ~ConfirmationIsMissing(post[p].form)
    /\ CreateRequest(p)
    /\ post' = [post EXCEPT ![p].pc = "finish",
                            ![p].error = Unexpected("COMM_FAILURE")]
    /\ UNCHANGED <<visit, cache, audit, diagnostics>>

\* cache.set
StoreResponse(p) ==
    cache' = [cache EXCEPT ![post[p].public_key] =
                 PublicResponse(post[p].form, post[p].public_request_id)]

\* Mutant: the response carries the registry's latest id.
PublishLatest(p) ==
    /\ post[p].pc = "publish"
    /\ cache' = [cache EXCEPT ![post[p].public_key] =
                    PublicResponse(post[p].form, Len(registry))]
    /\ post' = [post EXCEPT ![p].pc = "finish"]
    /\ UNCHANGED <<visit, registry, audit, diagnostics>>

\* get_public_response and cache.set
Publish(p) ==
    /\ post[p].pc = "publish"
    /\ StoreResponse(p)
    /\ post' = [post EXCEPT ![p].pc = "finish"]
    /\ UNCHANGED <<visit, registry, audit, diagnostics>>

\* The cache does not take the response, or takes it and its answer is lost.
PublishFails(p) ==
    /\ post[p].pc = "publish"
    /\ "cache_fails" \in Faults
    /\ cache' = cache \/ StoreResponse(p)
    /\ post' = [post EXCEPT ![p].pc = "finish",
                            ![p].error = Unexpected("CacheError")]
    /\ UNCHANGED <<visit, registry, audit, diagnostics>>

\* form_valid after logged_call_to_registry: what the browser gets.
PostReply(p) ==
    IF post[p].error = NULL THEN SuccessUrl(post[p].form)
    ELSE IF post[p].error.kind = "known" THEN "form" ELSE "server_error"

\* Mutant: no "finally", an unexpected exception leaves at once.
FinishPostUnlessUnexpected(p) ==
    /\ post[p].pc = "finish"
    /\ IF post[p].error # NULL /\ post[p].error.kind = "unexpected"
       THEN UNCHANGED audit
       ELSE FinishLoggingRequest(post[p].log_request, post[p].public_request_id, post[p].error)
    /\ post' = [post EXCEPT ![p].pc = "respond", ![p].reply = PostReply(p)]
    /\ UNCHANGED <<visit, cache, registry, diagnostics>>

\* The "finally" clause of logged_call_to_registry.
FinishPost(p) ==
    /\ post[p].pc = "finish"
    /\ FinishLoggingRequest(post[p].log_request, post[p].public_request_id, post[p].error)
    /\ post' = [post EXCEPT ![p].pc = "respond", ![p].reply = PostReply(p)]
    /\ UNCHANGED <<visit, cache, registry, diagnostics>>

\* Mutant: the failure of the logger is swallowed.
FinishPostFailsSilently(p) ==
    /\ post[p].pc = "finish"
    /\ "logger_fails" \in Faults
    /\ post[p].log_request # NULL
    /\ \/ audit' = audit
       \/ FinishLoggingRequest(post[p].log_request, post[p].public_request_id, post[p].error)
    /\ post' = [post EXCEPT ![p].pc = "respond", ![p].reply = PostReply(p)]
    /\ UNCHANGED <<visit, cache, registry, diagnostics>>

\* Closing the log raises, whether or not the logger has closed it: this
\* exception replaces whatever was under way.
FinishPostFails(p) ==
    /\ post[p].pc = "finish"
    /\ "logger_fails" \in Faults
    /\ post[p].log_request # NULL
    /\ \/ audit' = audit
       \/ FinishLoggingRequest(post[p].log_request, post[p].public_request_id, post[p].error)
    /\ post' = [post EXCEPT ![p].pc = "respond", ![p].reply = "server_error"]
    /\ UNCHANGED <<visit, cache, registry, diagnostics>>

RespondToPost(p) ==
    /\ post[p].pc = "respond"
    /\ post' = [post EXCEPT ![p].pc = "done"]
    /\ UNCHANGED <<visit, cache, registry, audit, diagnostics>>

\* The worker is killed while it handles the POST.
PostWorkerDies(p) ==
    /\ "worker_dies" \in Faults
    /\ post[p].pc \notin {"idle", "done", "dead"}
    /\ post' = [post EXCEPT ![p].pc = "dead"]
    /\ UNCHANGED <<visit, cache, registry, audit, diagnostics>>

-----------------------------------------------------------------------------
(* The handler of a GET of a response page or of the PDF. *)

OpenPage(v, page, k) ==
    /\ visit[v].pc = "idle"
    /\ visit' = [visit EXCEPT ![v].pc = "lookup", ![v].page = page, ![v].public_key = k]
    /\ UNCHANGED <<post, cache, registry, audit, diagnostics>>

\* cache.get finds the response; the view keeps it for the rest of the request.
GetResponse(v) ==
    /\ visit[v].pc = "lookup"
    /\ cache[visit[v].public_key] # NULL
    /\ visit' = [visit EXCEPT
            ![v].public_response = cache[visit[v].public_key],
            ![v].pc = IF visit[v].page \in Pages THEN "render"
                      ELSE IF LoggerEnabled THEN "log" ELSE "call"]
    /\ UNCHANGED <<post, cache, registry, audit, diagnostics>>

\* cache.get finds nothing: a page redirects to response_not_found, the PDF is 404.
ResponseMissing(v) ==
    /\ visit[v].pc = "lookup"
    /\ cache[visit[v].public_key] = NULL
    /\ visit' = [visit EXCEPT ![v].pc = "respond", ![v].reply = "not_found"]
    /\ UNCHANGED <<post, cache, registry, audit, diagnostics>>

GetResponseFails(v) ==
    /\ visit[v].pc = "lookup"
    /\ "cache_fails" \in Faults
    /\ visit' = [visit EXCEPT ![v].pc = "respond", ![v].reply = "server_error"]
    /\ UNCHANGED <<post, cache, registry, audit, diagnostics>>

\* Mutant: the page looks the response up again instead of keeping it.
RenderPageFromCache(v) ==
    /\ visit[v].pc = "render"
    /\ visit' = [visit EXCEPT
            ![v].pc = "respond",
            ![v].reply = IF /\ cache[visit[v].public_key] # NULL
                            /\ Renders(visit[v].page, visit[v].public_response)
                         THEN "page" ELSE "server_error"]
    /\ UNCHANGED <<post, cache, registry, audit, diagnostics>>

\* get_context_data and the template, from the response the view kept.
RenderPage(v) ==
    /\ visit[v].pc = "render"
    /\ visit' = [visit EXCEPT
            ![v].pc = "respond",
            ![v].reply = IF Renders(visit[v].page, visit[v].public_response)
                         THEN "page" ELSE "server_error"]
    /\ UNCHANGED <<post, cache, registry, audit, diagnostics>>

PreparePdfLogging(v) ==
    /\ visit[v].pc = "log"
    /\ audit' = Append(audit, OpenLogRequest(PdfLoggingProperties(visit[v].public_response)))
    /\ visit' = [visit EXCEPT ![v].pc = "call", ![v].log_request = Len(audit')]
    /\ UNCHANGED <<post, cache, registry, diagnostics>>

PreparePdfLoggingFails(v) ==
    /\ visit[v].pc = "log"
    /\ "logger_fails" \in Faults
    /\ \/ audit' = audit
       \/ audit' = Append(audit, OpenLogRequest(PdfLoggingProperties(visit[v].public_response)))
    /\ visit' = [visit EXCEPT ![v].pc = "respond", ![v].reply = "server_error"]
    /\ UNCHANGED <<post, cache, registry, diagnostics>>

\* create_public_request_pdf returns the document.
CreatePdf(v) ==
    /\ visit[v].pc = "call"
    /\ visit' = [visit EXCEPT ![v].pc = "finish"]
    /\ UNCHANGED <<post, cache, registry, audit, diagnostics>>

\* The registry does not have the request any more: reported, then 404.
PdfRequestNotFound(v) ==
    /\ visit[v].pc = "call"
    /\ "OBJECT_NOT_FOUND" \in RegistryErrors
    /\ diagnostics' = diagnostics \cup
            {[printed |-> visit[v].log_request,
              serving |-> visit[v].public_response.public_request_id]}
    /\ visit' = [visit EXCEPT ![v].pc = "finish",
                              ![v].error = Known("OBJECT_NOT_FOUND")]
    /\ UNCHANGED <<post, cache, registry, audit>>

PdfFails(v, e) ==
    /\ visit[v].pc = "call"
    /\ e \in SystemErrors
    /\ visit' = [visit EXCEPT ![v].pc = "finish",
                              ![v].error = Unexpected(e)]
    /\ UNCHANGED <<post, cache, registry, audit, diagnostics>>

PdfReply(v) ==
    IF visit[v].error = NULL THEN "pdf"
    ELSE IF visit[v].error.kind = "known" THEN "not_found" ELSE "server_error"

\* The "finally" clause of ServeNotarizedLetterView.get.
FinishPdf(v) ==
    /\ visit[v].pc = "finish"
    /\ FinishLoggingRequest(visit[v].log_request,
                            visit[v].public_response.public_request_id, visit[v].error)
    /\ visit' = [visit EXCEPT ![v].pc = "respond", ![v].reply = PdfReply(v)]
    /\ UNCHANGED <<post, cache, registry, diagnostics>>

\* As for a POST, the log may have been closed all the same.
FinishPdfFails(v) ==
    /\ visit[v].pc = "finish"
    /\ "logger_fails" \in Faults
    /\ visit[v].log_request # NULL
    /\ \/ audit' = audit
       \/ FinishLoggingRequest(visit[v].log_request,
                               visit[v].public_response.public_request_id, visit[v].error)
    /\ visit' = [visit EXCEPT ![v].pc = "respond", ![v].reply = "server_error"]
    /\ UNCHANGED <<post, cache, registry, diagnostics>>

RespondToVisit(v) ==
    /\ visit[v].pc = "respond"
    /\ visit' = [visit EXCEPT ![v].pc = "done"]
    /\ UNCHANGED <<post, cache, registry, audit, diagnostics>>

VisitWorkerDies(v) ==
    /\ "worker_dies" \in Faults
    /\ visit[v].pc \notin {"idle", "done", "dead"}
    /\ visit' = [visit EXCEPT ![v].pc = "dead"]
    /\ UNCHANGED <<post, cache, registry, audit, diagnostics>>

-----------------------------------------------------------------------------
(* The cache drops an entry: its 24 hours are over, or it is evicted. *)

Expire(k) ==
    /\ cache[k] # NULL
    /\ cache' = [cache EXCEPT ![k] = NULL]
    /\ UNCHANGED <<post, visit, registry, audit, diagnostics>>

-----------------------------------------------------------------------------

IdlePost ==
    [pc |-> "idle", form |-> NULL, public_key |-> NULL, log_request |-> NULL,
     public_request_id |-> NULL, error |-> NULL, reply |-> NULL]

IdleVisit ==
    [pc |-> "idle", page |-> NULL, public_key |-> NULL, public_response |-> NULL,
     log_request |-> NULL, error |-> NULL, reply |-> NULL]

Init ==
    /\ post = [p \in Posts |-> IdlePost]
    /\ visit = [v \in Visits |-> IdleVisit]
    /\ cache = [k \in Keys |-> NULL]
    /\ registry = <<>>
    /\ audit = <<>>
    /\ diagnostics = {}

\* What the handler of a POST does once it has the form.
PostStep(p) ==
    \/ PrepareLoggingRequest(p)
    \/ PrepareLoggingRequestFails(p)
    \/ ConfirmationMissing(p)
    \/ RegistryCreates(p)
    \/ \E e \in RegistryErrors : RegistryRefuses(p, e)
    \/ RegistryReplyLost(p)
    \/ Publish(p)
    \/ PublishFails(p)
    \/ FinishPost(p)
    \/ FinishPostFails(p)
    \/ RespondToPost(p)

VisitStep(v) ==
    \/ GetResponse(v)
    \/ ResponseMissing(v)
    \/ GetResponseFails(v)
    \/ RenderPage(v)
    \/ PreparePdfLogging(v)
    \/ PreparePdfLoggingFails(v)
    \/ CreatePdf(v)
    \/ PdfRequestNotFound(v)
    \/ \E e \in RegistryErrors : PdfFails(v, e)
    \/ FinishPdf(v)
    \/ FinishPdfFails(v)
    \/ RespondToVisit(v)

Next ==
    \/ \E p \in Posts :
          \/ \E f \in Submissions : SubmitInvalid(p, f)
          \/ \E f \in Submissions, k \in Keys : SubmitValid(p, f, k)
          \/ PostStep(p)
          \/ PostWorkerDies(p)
    \/ \E v \in Visits :
          \/ \E page \in Pages \cup {"pdf"}, k \in Keys : OpenPage(v, page, k)
          \/ VisitStep(v)
          \/ VisitWorkerDies(v)
    \/ \E k \in Keys : Expire(k)

Spec == Init /\ [][Next]_vars

\* Every call out of a handler returns or raises, and a worker that is not
\* killed goes on.
FairSpec ==
    /\ Spec
    /\ \A p \in Posts : WF_vars(PostStep(p))
    /\ \A v \in Visits : WF_vars(VisitStep(v))

-----------------------------------------------------------------------------
(* Correctness. *)

RequestsOf(p) == {i \in DOMAIN registry : registry[i].submitter = p}

\* What each operation of the registry is called in the logs.
LoggedAs(command) ==
    CASE command.operation \in {"create_authinfo_request_registry_email",
                                "create_authinfo_request_non_registry_email"} -> "AuthInfo"
      [] command.operation \in {"create_personal_info_request_registry_email",
                                "create_personal_info_request_non_registry_email"} ->
            "PersonalInfo"
      [] command.lock = "block_transfer" -> "BlockTransfer"
      [] command.lock = "block_transfer_and_update" -> "BlockChanges"
      [] command.lock = "unblock_transfer" -> "UnblockTransfer"
      [] command.lock = "unblock_transfer_and_update" -> "UnblockChanges"

\* The type of the object a command is about.
Subject(command) ==
    IF command.object_type = NULL THEN "contact" ELSE command.object_type

\* The registry never holds a request the logger cannot account for: each was
\* made under a log request of its own, opened before with the same kind of
\* request, object and e-mail (logged_call_to_registry hands the id of the log
\* request to the registry).
LogDescribesRequest ==
    LoggerEnabled =>
        \A i \in DOMAIN registry :
            LET command == registry[i].command
                l == registry[i].log_request_id
            IN  /\ l \in DOMAIN audit
                /\ audit[l].about.name = LoggedAs(command)
                /\ audit[l].about.handle = command.handle
                /\ audit[l].about.handleType = Subject(command)
                /\ audit[l].about.customEmail = command.email
                /\ \A j \in DOMAIN registry \ {i} : registry[j].log_request_id # l

\* A closed log tells the truth about the registry: "Ok" refers to the very
\* request made under it (for a PDF, to a request the registry took), "Fail"
\* means no request was made under it.  Only "Error" leaves it open
\* (finish_logging_request and the calls it is given the results of).
AuditTruthful ==
    \A l \in DOMAIN audit :
        audit[l].closed =>
            LET made == {i \in DOMAIN registry : registry[i].log_request_id = l}
            IN  /\ audit[l].result = "Fail" => made = {}
                /\ audit[l].result = "Ok" =>
                      IF audit[l].about.name = "NotarizedLetterPdf"
                      THEN /\ audit[l].reference \in DOMAIN registry
                           /\ audit[l].about.handle = registry[audit[l].reference].command.handle
                      ELSE made = {audit[l].reference}

ClosedOk(l) == audit[l].closed /\ audit[l].result = "Ok"

\* With a logger, nobody is told of a success that is not in the logs: a
\* redirect to a response page, or a PDF, is preceded by closing the log "Ok"
\* with a reference to the request (finish_logging_request runs in "finally",
\* before the reply, and its own failure replaces the reply).
SuccessIsAudited ==
    LoggerEnabled =>
        /\ \A p \in Posts : post[p].reply \in Pages =>
              /\ ClosedOk(post[p].log_request)
              /\ audit[post[p].log_request].reference \in RequestsOf(p)
        /\ \A v \in Visits : visit[v].reply = "pdf" =>
              /\ ClosedOk(visit[v].log_request)
              /\ audit[visit[v].log_request].reference =
                    visit[v].public_response.public_request_id

\* What a response says is what the registry was asked for.
Describes(response, command) ==
    /\ response.handle = command.handle
    /\ response.object_type = Subject(command)
    /\ response.request_type = LoggedAs(command)
    /\ response.custom_email = command.email
    /\ response.class =
          CASE LoggedAs(command) = "AuthInfo" -> "SendPasswordResponse"
            [] LoggedAs(command) = "PersonalInfo" -> "PersonalInfoResponse"
            [] LoggedAs(command) \notin {"AuthInfo", "PersonalInfo"} -> "BlockResponse"
    /\ command.confirmed_by # NULL => response.confirmation_method = command.confirmed_by
    /\ command.lock \in {"block_transfer", "block_transfer_and_update"} =>
          response.action = "block"
    /\ command.lock \in {"unblock_transfer", "unblock_transfer_and_update"} =>
          response.action = "unblock"
    /\ command.lock \in {"block_transfer", "unblock_transfer"} =>
          response.lock_type = "transfer"
    /\ command.lock \in {"block_transfer_and_update", "unblock_transfer_and_update"} =>
          response.lock_type = "all"

\* A response a key leads to, in the cache or in the hands of a visitor.
Found(k, response) ==
    /\ response # NULL
    /\ \/ cache[k] = response
       \/ \E v \in Visits :
             visit[v].public_key = k /\ visit[v].public_response = response

\* Whoever holds a key is only ever shown the request made by the POST that
\* drew it - the right id, object, e-mail and lock - however handlers
\* interleave and whatever the cache forgets (logged_call_to_registry
\* publishes under self.public_key what self's own call returned).
ResponsesDescribeRequests ==
    \A k \in Keys : \A r \in {cache[k]} \cup {visit[v].public_response : v \in Visits} :
        Found(k, r) =>
            \A p \in Posts : post[p].public_key = k =>
                /\ r.public_request_id \in RequestsOf(p)
                /\ Describes(r, registry[r.public_request_id].command)

\* What the text of a page presumes of the response it shows: an e-mail from
\* the registry, a letter or an electronically signed mail with an address of
\* the user's, or a lock.
Presumes(page, response) ==
    CASE page = "email_in_registry" ->
            response.class # "BlockResponse" /\ response.custom_email = NULL
      [] page = "custom_email" ->
            /\ response.confirmation_method = "signed_email"
            /\ response.class # "BlockResponse" => response.custom_email # NULL
      [] page = "notarized_letter" ->
            /\ response.confirmation_method \in {"notarized_letter", "government"}
            /\ response.class # "BlockResponse" => response.custom_email # NULL

\* A browser that follows its redirect and finds the response gets a page
\* that fits it, never the failed assertion of a page of another kind
\* (get_success_url of each view against get_context_data of each page).
RedirectFitsResponse ==
    \A p \in Posts, v \in Visits :
        /\ post[p].reply \in Pages
        /\ visit[v].page = post[p].reply
        /\ visit[v].public_key = post[p].public_key
        /\ visit[v].public_response # NULL
        => /\ Presumes(visit[v].page, visit[v].public_response)
           /\ visit[v].reply # "server_error"

\* The reply to a POST is never wrong about the registry: a form shown again
\* made no request, a redirect made exactly one, and nothing - not even a
\* failure or a killed worker - makes two (form_valid against every way out
\* of logged_call_to_registry).
OutcomeTruthful ==
    \A p \in Posts :
        /\ \A i, j \in RequestsOf(p) : i = j
        /\ post[p].reply = "form" => RequestsOf(p) = {}
        /\ post[p].reply \in Pages => post[p].public_request_id \in RequestsOf(p)

\* A visitor whose page found its response is served from it, even if the
\* cache drops the entry meanwhile; only a page of the wrong kind fails
\* (the comment in BaseResponseTemplateView.get_public_response).
HitIsServed ==
    \A v \in Visits :
        /\ visit[v].page \in Pages
        /\ visit[v].public_response # NULL
        /\ visit[v].reply # NULL
        => visit[v].reply = IF Renders(visit[v].page, visit[v].public_response)
                            THEN "page" ELSE "server_error"

\* A log request is closed once and by its own handler: what is closed never
\* changes again (finish_logging_request).
ClosedLogIsFinal ==
    [][\A l \in DOMAIN audit : audit[l].closed => audit'[l] = audit[l]]_vars

\* Every log request a handler opened is closed, whatever the registry, the
\* cache or the visitor's page did meanwhile ("finally"), as long as the
\* logger answers and the worker lives.
LogRequestsGetClosed ==
    /\ \A p \in Posts :
          post[p].log_request # NULL ~>
              post[p].log_request # NULL /\ audit[post[p].log_request].closed
    /\ \A v \in Visits :
          visit[v].log_request # NULL ~>
              visit[v].log_request # NULL /\ audit[visit[v].log_request].closed

-----------------------------------------------------------------------------
(* The promises of PublicRequestDesk. *)

Outcome(p) ==
    CASE post[p].reply = NULL -> "open"
      [] post[p].reply = "form" -> "refused"
      [] post[p].reply \in Pages -> "accepted"
      [] post[p].reply = "server_error" -> "failed"

Request(p) ==
    IF RequestsOf(p) = {} THEN NULL
    ELSE registry[CHOOSE i \in RequestsOf(p) : TRUE].command

Shown ==
    {p \in Posts : \E v \in Visits :
        /\ visit[v].public_key = post[p].public_key
        /\ visit[v].reply \in {"page", "pdf"}}

Desk == INSTANCE PublicRequestDesk
    WITH outcome <- [p \in Posts |-> Outcome(p)],
         request <- [p \in Posts |-> Request(p)],
         shown <- Shown

\* The handlers keep the promises of the desk in every interleaving: each
\* step is one of its steps or changes nothing it speaks of.
ImplementsDesk == Desk!Spec

-----------------------------------------------------------------------------
(* What the documentation says, and the code does not do. *)

\* views/public_request_mixin.py:79, of _call_registry_command: "Return
\* public_request_id or raise exception if the call failed."  An exception
\* out of it, or out of the cache, comes from a call that failed.
ErrorMeansCallFailed ==
    \A p \in Posts :
        post[p].error # NULL => post[p].error.name \in CallFailures

\* views/public_request.py:671: "Exception OBJECT_NOT_FOUND risen for public
\* request id %s."  The id printed is that of the public request served.
DiagnosticNamesRequest ==
    \A d \in diagnostics : d.printed = d.serving

=============================================================================
