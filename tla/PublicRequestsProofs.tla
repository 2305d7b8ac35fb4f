------------------------ MODULE PublicRequestsProofs ------------------------
(***************************************************************************)
(* Proofs about PublicRequests, for any number of handlers and keys, any   *)
(* forms and any faults.                                                   *)
(***************************************************************************)
EXTENDS PublicRequests, TLAPS

\* What a handler in state s relies on, "logs" being the log requests there are.
PostReady(s, logs) ==
    /\ s.pc \in {"log", "call", "publish", "finish"} =>
          s.form \in Submissions /\ IsValid(s.form) /\ s.public_key \in Keys
    /\ s.pc = "publish" => s.public_request_id \in Nat
    /\ s.log_request # NULL => s.log_request \in logs

VisitReady(s, logs) ==
    /\ s.pc = "lookup" => s.page \in Pages \cup {"pdf"} /\ s.public_key \in Keys
    /\ s.pc \in {"render", "log", "call", "finish"} => s.public_response \in Responses
    /\ s.log_request # NULL => s.log_request \in logs

\* The inductive invariant behind TypeOK.
Ready ==
    /\ TypeOK
    /\ \A p \in Posts : PostReady(post[p], DOMAIN audit)
    /\ \A v \in Visits : VisitReady(visit[v], DOMAIN audit)

-----------------------------------------------------------------------------
(* The values the views compute from a valid form. *)

\* The response published for a valid form is one the cache can hold.
LEMMA ResponseType ==
    ASSUME NEW f \in Submissions, IsValid(f), NEW id \in Nat
    PROVE  PublicResponse(f, id) \in Responses
<1>1. f \in FormData /\ Declared(f)
  BY DeskAssumption DEF Forms
<1>2. CASE f.view \in LockViews
  BY <1>1, <1>2, NullAssumption
     DEF IsValid, Declared, FormData, PublicResponse, Responses, ResponseClass, HandleType,
         RequestName, RequestNames, LoggingLockType, LockViews, DeliveryViews, LockType
<1>3. CASE f.view \in DeliveryViews
  BY <1>1, <1>3, NullAssumption
     DEF IsValid, DeliveryIsValid, Declared, FormData, PublicResponse, Responses,
         ResponseClass, HandleType, RequestName, RequestNames, LockViews, DeliveryViews,
         ObjectType
<1> QED
  BY <1>1, <1>2, <1>3 DEF FormData, Views

\* What the form views tell the logger has the logger's type.
LEMMA AboutType ==
    ASSUME NEW f \in Submissions, IsValid(f)
    PROVE  OpenLogRequest(LoggingProperties(f)) \in LogRequests
<1>1. f \in FormData /\ Declared(f)
  BY DeskAssumption DEF Forms
<1>2. LoggingProperties(f) \in FormAbouts
  <2>1. CASE f.view \in LockViews
    BY <1>1, <2>1
       DEF IsValid, FormData, LoggingProperties, FormAbouts, HandleType, RequestName,
           RequestNames, LoggingLockType, LockViews, DeliveryViews, LockType
  <2>2. CASE f.view \in DeliveryViews
    BY <1>1, <2>2
       DEF IsValid, FormData, LoggingProperties, FormAbouts, HandleType, RequestName,
           RequestNames, LockViews, DeliveryViews, ObjectType
  <2> QED
    BY <1>1, <2>1, <2>2 DEF FormData, Views
<1> QED
  BY <1>2 DEF OpenLogRequest, LogRequests

\* What the PDF view tells the logger has the logger's type.
LEMMA PdfAboutType ==
    ASSUME NEW response \in Responses
    PROVE  OpenLogRequest(PdfLoggingProperties(response)) \in LogRequests
<1>1. PdfLoggingProperties(response) \in PdfAbouts
  BY DEF PdfLoggingProperties, PdfAbouts, Responses
<1> QED
  BY <1>1 DEF OpenLogRequest, LogRequests

-----------------------------------------------------------------------------
(* Type correctness. *)

\* A log request that is opened is well typed, the others stay in place.
LEMMA OpenType ==
    ASSUME audit \in Seq(LogRequests),
           NEW l \in LogRequests,
           audit' = Append(audit, l)
    PROVE  /\ audit' \in Seq(LogRequests)
           /\ DOMAIN audit \subseteq DOMAIN audit'
           /\ Len(audit') \in Nat
           /\ Len(audit') \in DOMAIN audit'
  OBVIOUS

\* A request that is created is well typed.
LEMMA CreateType ==
    ASSUME registry \in Seq(RegistryRequests),
           NEW p \in Posts, post[p] \in PostStates,
           post[p].form \in Submissions, IsValid(post[p].form),
           CreateRequest(p)
    PROVE  registry' \in Seq(RegistryRequests) /\ Len(registry') \in Nat
<1>1. RegistryCommand(post[p].form) \in Commands
  BY DEF Commands
<1>2. post[p].log_request \in Nat \cup {NULL}
  BY DEF PostStates
<1>3. [command |-> RegistryCommand(post[p].form), log_request_id |-> post[p].log_request,
       submitter |-> p] \in RegistryRequests
  BY <1>1, <1>2 DEF RegistryRequests
<1> QED
  BY <1>3 DEF CreateRequest


\* Closing a log request keeps the logger's requests well typed and in place.
LEMMA FinishType ==
    ASSUME audit \in Seq(LogRequests),
           NEW l, l # NULL => l \in DOMAIN audit,
           NEW id \in Nat \cup {NULL},
           NEW error \in Exceptions \cup {NULL},
           FinishLoggingRequest(l, id, error)
    PROVE  audit' \in Seq(LogRequests) /\ DOMAIN audit' = DOMAIN audit
<1>1. LogResult(id, error) \in {"Error", "Ok", "Fail"}
  BY DEF LogResult, Exceptions
<1>2. CASE l = NULL
  BY <1>2 DEF FinishLoggingRequest
<1>3. CASE l # NULL
  <2>1. audit[l] \in LogRequests
    BY <1>3
  <2> DEFINE closed == [audit[l] EXCEPT !.closed = TRUE,
                                        !.result = LogResult(id, error),
                                        !.properties_out = error,
                                        !.reference = IF error = NULL THEN id ELSE NULL]
  <2>2. closed \in LogRequests
    BY <1>1, <2>1 DEF LogRequests
  <2>3. audit' = [audit EXCEPT ![l] = closed]
    BY <1>3, <2>1 DEF FinishLoggingRequest, LogRequests
  <2> HIDE DEF closed
  <2> QED
    BY <1>3, <2>2, <2>3
<1> QED
  BY <1>2, <1>3

\* The invariant holds initially.
LEMMA ReadyInit == Init => Ready
  BY DEF Init, Ready, TypeOK, PostReady, VisitReady, IdlePost, IdleVisit, PostStates,
         VisitStates, PostPC, VisitPC

\* A step of the handler of p keeps the invariant if what it makes of its own
\* state is right, and what it makes of the rest is well typed.
LEMMA PostFrame ==
    ASSUME Ready, NEW p \in Posts,
           post' = [post EXCEPT ![p] = post'[p]],
           post'[p] \in PostStates, PostReady(post'[p], DOMAIN audit'),
           cache' \in [Keys -> Responses \cup {NULL}],
           registry' \in Seq(RegistryRequests),
           audit' \in Seq(LogRequests), DOMAIN audit \subseteq DOMAIN audit',
           UNCHANGED <<visit, diagnostics>>
    PROVE  Ready'
<1>1. TypeOK'
  BY DEF Ready, TypeOK
<1>2. \A q \in Posts : PostReady(post'[q], DOMAIN audit')
  BY DEF Ready, TypeOK, PostReady
<1>3. \A v \in Visits : VisitReady(visit'[v], DOMAIN audit')
  BY DEF Ready, TypeOK, VisitReady
<1> QED
  BY <1>1, <1>2, <1>3 DEF Ready

\* What PostFrame asks for, of a handler's state and of the rest.
PostTyped(p) ==
    /\ TypeOK
    /\ post \in [Posts -> PostStates]
    /\ post[p] \in PostStates
    /\ PostReady(post[p], DOMAIN audit)

\* Ready is kept by SubmitInvalid.
LEMMA ReadySubmitInvalid ==
    ASSUME Ready, NEW p \in Posts, NEW f \in Submissions,
           SubmitInvalid(p, f)
    PROVE  Ready'
<1>1. PostTyped(p)
  BY DEF Ready, TypeOK, PostTyped
<1>2. /\ post' = [post EXCEPT ![p] = post'[p]]
      /\ post'[p] = [post[p] EXCEPT !.pc = "respond", !.form = f, !.reply = "form"]
  BY <1>1 DEF PostTyped, PostStates, SubmitInvalid
<1>3. post'[p] \in PostStates
  BY <1>1, <1>2 DEF PostTyped, PostStates, PostPC, SubmitInvalid
<1>4. PostReady(post'[p], DOMAIN audit')
  BY <1>1, <1>2 DEF PostTyped, PostStates, PostReady, SubmitInvalid
<1> QED
  BY <1>1, <1>2, <1>3, <1>4, PostFrame DEF PostTyped, TypeOK, SubmitInvalid

\* Ready is kept by SubmitValid.
LEMMA ReadySubmitValid ==
    ASSUME Ready, NEW p \in Posts, NEW f \in Submissions, NEW k \in Keys,
           SubmitValid(p, f, k)
    PROVE  Ready'
<1>1. PostTyped(p)
  BY DEF Ready, TypeOK, PostTyped
<1>2. /\ post' = [post EXCEPT ![p] = post'[p]]
      /\ post'[p] = [post[p] EXCEPT !.pc = IF LoggerEnabled THEN "log" ELSE "call",
                                      !.form = f,
                                      !.public_key = k]
  BY <1>1 DEF PostTyped, PostStates, SubmitValid
<1>3. post'[p] \in PostStates
  BY <1>1, <1>2 DEF PostTyped, PostStates, PostPC, SubmitValid
<1>4. PostReady(post'[p], DOMAIN audit')
  BY <1>1, <1>2 DEF PostTyped, PostStates, PostReady, SubmitValid
<1> QED
  BY <1>1, <1>2, <1>3, <1>4, PostFrame DEF PostTyped, TypeOK, SubmitValid

\* Ready is kept by PrepareLoggingRequest.
LEMMA ReadyPrepareLoggingRequest ==
    ASSUME Ready, NEW p \in Posts,
           PrepareLoggingRequest(p)
    PROVE  Ready'
<1>1. PostTyped(p)
  BY DEF Ready, TypeOK, PostTyped
<1>2. post[p].form \in Submissions /\ IsValid(post[p].form) /\ post[p].public_key \in Keys
  BY <1>1 DEF PostTyped, PostReady, PrepareLoggingRequest
<1>3. audit' \in Seq(LogRequests) /\ DOMAIN audit \subseteq DOMAIN audit'
      /\ Len(audit') \in Nat /\ Len(audit') \in DOMAIN audit'
  BY <1>1, <1>2, AboutType, OpenType DEF PostTyped, TypeOK, PrepareLoggingRequest
<1>4. /\ post' = [post EXCEPT ![p] = post'[p]]
      /\ post'[p] = [post[p] EXCEPT !.pc = "call", !.log_request = Len(audit')]
  BY <1>1 DEF PostTyped, PostStates, PrepareLoggingRequest
<1>5. post'[p] \in PostStates
  BY <1>1, <1>4, <1>2, <1>3 DEF PostTyped, PostStates, PostPC
<1>6. PostReady(post'[p], DOMAIN audit')
  BY <1>1, <1>4, <1>2, <1>3 DEF PostTyped, PostStates, PostReady
<1> QED
  BY <1>1, <1>4, <1>5, <1>6, <1>3, PostFrame DEF PostTyped, TypeOK, PrepareLoggingRequest

\* Ready is kept by PrepareLoggingRequestFails.
LEMMA ReadyPrepareLoggingRequestFails ==
    ASSUME Ready, NEW p \in Posts,
           PrepareLoggingRequestFails(p)
    PROVE  Ready'
<1>1. PostTyped(p)
  BY DEF Ready, TypeOK, PostTyped
<1>2. post[p].form \in Submissions /\ IsValid(post[p].form) /\ post[p].public_key \in Keys
  BY <1>1 DEF PostTyped, PostReady, PrepareLoggingRequestFails
<1>3. audit' \in Seq(LogRequests) /\ DOMAIN audit \subseteq DOMAIN audit'
  BY <1>1, <1>2, AboutType, OpenType DEF PostTyped, TypeOK, PrepareLoggingRequestFails
<1>4. /\ post' = [post EXCEPT ![p] = post'[p]]
      /\ post'[p] = [post[p] EXCEPT !.pc = "respond", !.reply = "server_error"]
  BY <1>1 DEF PostTyped, PostStates, PrepareLoggingRequestFails
<1>5. post'[p] \in PostStates
  BY <1>1, <1>4, <1>3 DEF PostTyped, PostStates, PostPC
<1>6. PostReady(post'[p], DOMAIN audit')
  BY <1>1, <1>4, <1>3 DEF PostTyped, PostStates, PostReady
<1> QED
  BY <1>1, <1>4, <1>5, <1>6, <1>3, PostFrame DEF PostTyped, TypeOK, PrepareLoggingRequestFails

\* Ready is kept by ConfirmationMissing.
LEMMA ReadyConfirmationMissing ==
    ASSUME Ready, NEW p \in Posts,
           ConfirmationMissing(p)
    PROVE  Ready'
<1>1. PostTyped(p)
  BY DEF Ready, TypeOK, PostTyped
<1>2. Unexpected("KeyError") \in Exceptions
  BY DEF Exceptions, CallFailures, SystemErrors, Known, Unexpected
<1>3. /\ post' = [post EXCEPT ![p] = post'[p]]
      /\ post'[p] = [post[p] EXCEPT !.pc = "finish", !.error = Unexpected("KeyError")]
  BY <1>1 DEF PostTyped, PostStates, ConfirmationMissing
<1>4. post'[p] \in PostStates
  BY <1>1, <1>3, <1>2 DEF PostTyped, PostStates, PostPC, ConfirmationMissing
<1>5. PostReady(post'[p], DOMAIN audit')
  BY <1>1, <1>3, <1>2 DEF PostTyped, PostStates, PostReady, ConfirmationMissing
<1> QED
  BY <1>1, <1>3, <1>4, <1>5, PostFrame DEF PostTyped, TypeOK, ConfirmationMissing

\* Ready is kept by RegistryCreates.
LEMMA ReadyRegistryCreates ==
    ASSUME Ready, NEW p \in Posts,
           RegistryCreates(p)
    PROVE  Ready'
<1>1. PostTyped(p)
  BY DEF Ready, TypeOK, PostTyped
<1>2. post[p].form \in Submissions /\ IsValid(post[p].form) /\ post[p].public_key \in Keys
  BY <1>1 DEF PostTyped, PostReady, RegistryCreates
<1>3. registry' \in Seq(RegistryRequests) /\ Len(registry') \in Nat
  BY <1>1, <1>2, CreateType DEF PostTyped, TypeOK, RegistryCreates
<1>4. /\ post' = [post EXCEPT ![p] = post'[p]]
      /\ post'[p] = [post[p] EXCEPT !.pc = "publish", !.public_request_id = Len(registry')]
  BY <1>1 DEF PostTyped, PostStates, RegistryCreates
<1>5. post'[p] \in PostStates
  BY <1>1, <1>4, <1>2, <1>3 DEF PostTyped, PostStates, PostPC, RegistryCreates
<1>6. PostReady(post'[p], DOMAIN audit')
  BY <1>1, <1>4, <1>2, <1>3 DEF PostTyped, PostStates, PostReady, RegistryCreates
<1> QED
  BY <1>1, <1>4, <1>5, <1>6, <1>3, PostFrame DEF PostTyped, TypeOK, RegistryCreates

\* Ready is kept by RegistryRefuses.
LEMMA ReadyRegistryRefuses ==
    ASSUME Ready, NEW p \in Posts, NEW e \in RegistryErrors,
           RegistryRefuses(p, e)
    PROVE  Ready'
<1>1. PostTyped(p)
  BY DEF Ready, TypeOK, PostTyped
<1>2. (IF e \in KnownErrors(post[p].form) THEN Known(e) ELSE Unexpected(e)) \in Exceptions
  BY DEF Exceptions, CallFailures, SystemErrors, Known, Unexpected
<1>3. /\ post' = [post EXCEPT ![p] = post'[p]]
      /\ post'[p] = [post[p] EXCEPT !.pc = "finish",
                                      !.error = IF e \in KnownErrors(post[p].form)
                                                THEN Known(e) ELSE Unexpected(e)]
  BY <1>1 DEF PostTyped, PostStates, RegistryRefuses
<1>4. post'[p] \in PostStates
  BY <1>1, <1>3, <1>2 DEF PostTyped, PostStates, PostPC, RegistryRefuses
<1>5. PostReady(post'[p], DOMAIN audit')
  BY <1>1, <1>3, <1>2 DEF PostTyped, PostStates, PostReady, RegistryRefuses
<1> QED
  BY <1>1, <1>3, <1>4, <1>5, PostFrame DEF PostTyped, TypeOK, RegistryRefuses

\* Ready is kept by RegistryReplyLost.
LEMMA ReadyRegistryReplyLost ==
    ASSUME Ready, NEW p \in Posts,
           RegistryReplyLost(p)
    PROVE  Ready'
<1>1. PostTyped(p)
  BY DEF Ready, TypeOK, PostTyped
<1>2. post[p].form \in Submissions /\ IsValid(post[p].form) /\ post[p].public_key \in Keys
  BY <1>1 DEF PostTyped, PostReady, RegistryReplyLost
<1>3. registry' \in Seq(RegistryRequests)
  BY <1>1, <1>2, CreateType DEF PostTyped, TypeOK, RegistryReplyLost
<1>4. Unexpected("COMM_FAILURE") \in Exceptions
  BY DEF Exceptions, CallFailures, SystemErrors, Known, Unexpected
<1>5. /\ post' = [post EXCEPT ![p] = post'[p]]
      /\ post'[p] = [post[p] EXCEPT !.pc = "finish", !.error = Unexpected("COMM_FAILURE")]
  BY <1>1 DEF PostTyped, PostStates, RegistryReplyLost
<1>6. post'[p] \in PostStates
  BY <1>1, <1>5, <1>2, <1>4 DEF PostTyped, PostStates, PostPC, RegistryReplyLost
<1>7. PostReady(post'[p], DOMAIN audit')
  BY <1>1, <1>5, <1>2, <1>4 DEF PostTyped, PostStates, PostReady, RegistryReplyLost
<1> QED
  BY <1>1, <1>5, <1>6, <1>7, <1>3, PostFrame DEF PostTyped, TypeOK, RegistryReplyLost

\* Ready is kept by Publish.
LEMMA ReadyPublish ==
    ASSUME Ready, NEW p \in Posts,
           Publish(p)
    PROVE  Ready'
<1>1. PostTyped(p)
  BY DEF Ready, TypeOK, PostTyped
<1>2. PublicResponse(post[p].form, post[p].public_request_id) \in Responses
  BY <1>1, ResponseType DEF PostTyped, PostReady, Publish
<1>3. cache' \in [Keys -> Responses \cup {NULL}]
  BY <1>1, <1>2 DEF PostTyped, TypeOK, Publish, StoreResponse
<1>4. /\ post' = [post EXCEPT ![p] = post'[p]]
      /\ post'[p] = [post[p] EXCEPT !.pc = "finish"]
  BY <1>1 DEF PostTyped, PostStates, Publish
<1>5. post'[p] \in PostStates
  BY <1>1, <1>4 DEF PostTyped, PostStates, PostPC, Publish
<1>6. PostReady(post'[p], DOMAIN audit')
  BY <1>1, <1>4 DEF PostTyped, PostStates, PostReady, Publish
<1> QED
  BY <1>1, <1>4, <1>5, <1>6, <1>3, PostFrame DEF PostTyped, TypeOK, Publish

\* Ready is kept by PublishFails.
LEMMA ReadyPublishFails ==
    ASSUME Ready, NEW p \in Posts,
           PublishFails(p)
    PROVE  Ready'
<1>1. PostTyped(p)
  BY DEF Ready, TypeOK, PostTyped
<1>2. Unexpected("CacheError") \in Exceptions
  BY DEF Exceptions, CallFailures, SystemErrors, Known, Unexpected
<1>3. PublicResponse(post[p].form, post[p].public_request_id) \in Responses
  BY <1>1, ResponseType DEF PostTyped, PostReady, PublishFails
<1>4. cache' \in [Keys -> Responses \cup {NULL}]
  BY <1>1, <1>3 DEF PostTyped, TypeOK, PublishFails, StoreResponse
<1>5. /\ post' = [post EXCEPT ![p] = post'[p]]
      /\ post'[p] = [post[p] EXCEPT !.pc = "finish", !.error = Unexpected("CacheError")]
  BY <1>1 DEF PostTyped, PostStates, PublishFails
<1>6. post'[p] \in PostStates
  BY <1>1, <1>5, <1>2 DEF PostTyped, PostStates, PostPC, PublishFails
<1>7. PostReady(post'[p], DOMAIN audit')
  BY <1>1, <1>5, <1>2 DEF PostTyped, PostStates, PostReady, PublishFails
<1> QED
  BY <1>1, <1>4, <1>5, <1>6, <1>7, PostFrame DEF PostTyped, TypeOK, PublishFails

\* Ready is kept by FinishPost.
LEMMA ReadyFinishPost ==
    ASSUME Ready, NEW p \in Posts,
           FinishPost(p)
    PROVE  Ready'
<1>1. PostTyped(p)
  BY DEF Ready, TypeOK, PostTyped
<1>2. PostReply(p) \in Pages \cup {"form", "server_error"}
  BY DEF PostReply, SuccessUrl, Pages
<1>3. audit' \in Seq(LogRequests) /\ DOMAIN audit' = DOMAIN audit
  BY <1>1, FinishType DEF PostTyped, TypeOK, PostStates, PostReady, FinishPost
<1>4. /\ post' = [post EXCEPT ![p] = post'[p]]
      /\ post'[p] = [post[p] EXCEPT !.pc = "respond", !.reply = PostReply(p)]
  BY <1>1 DEF PostTyped, PostStates, FinishPost
<1>5. post'[p] \in PostStates
  BY <1>1, <1>4, <1>2, <1>3 DEF PostTyped, PostStates, PostPC
<1>6. PostReady(post'[p], DOMAIN audit')
  BY <1>1, <1>4, <1>2, <1>3 DEF PostTyped, PostStates, PostReady
<1> QED
  BY <1>1, <1>4, <1>5, <1>6, <1>3, PostFrame DEF PostTyped, TypeOK, FinishPost

\* Ready is kept by FinishPostFails.
LEMMA ReadyFinishPostFails ==
    ASSUME Ready, NEW p \in Posts,
           FinishPostFails(p)
    PROVE  Ready'
<1>1. PostTyped(p)
  BY DEF Ready, TypeOK, PostTyped
<1>2. audit' \in Seq(LogRequests) /\ DOMAIN audit' = DOMAIN audit
  BY <1>1, FinishType DEF PostTyped, TypeOK, PostStates, PostReady, FinishPostFails
<1>3. /\ post' = [post EXCEPT ![p] = post'[p]]
      /\ post'[p] = [post[p] EXCEPT !.pc = "respond", !.reply = "server_error"]
  BY <1>1 DEF PostTyped, PostStates, FinishPostFails
<1>4. post'[p] \in PostStates
  BY <1>1, <1>3 DEF PostTyped, PostStates, PostPC
<1>5. PostReady(post'[p], DOMAIN audit')
  BY <1>1, <1>2, <1>3 DEF PostTyped, PostStates, PostReady
<1> QED
  BY <1>1, <1>2, <1>3, <1>4, <1>5, PostFrame DEF PostTyped, TypeOK, FinishPostFails

\* Ready is kept by RespondToPost.
LEMMA ReadyRespondToPost ==
    ASSUME Ready, NEW p \in Posts,
           RespondToPost(p)
    PROVE  Ready'
<1>1. PostTyped(p)
  BY DEF Ready, TypeOK, PostTyped
<1>2. /\ post' = [post EXCEPT ![p] = post'[p]]
      /\ post'[p] = [post[p] EXCEPT !.pc = "done"]
  BY <1>1 DEF PostTyped, PostStates, RespondToPost
<1>3. post'[p] \in PostStates
  BY <1>1, <1>2 DEF PostTyped, PostStates, PostPC, RespondToPost
<1>4. PostReady(post'[p], DOMAIN audit')
  BY <1>1, <1>2 DEF PostTyped, PostStates, PostReady, RespondToPost
<1> QED
  BY <1>1, <1>2, <1>3, <1>4, PostFrame DEF PostTyped, TypeOK, RespondToPost

\* Ready is kept by PostWorkerDies.
LEMMA ReadyPostWorkerDies ==
    ASSUME Ready, NEW p \in Posts,
           PostWorkerDies(p)
    PROVE  Ready'
<1>1. PostTyped(p)
  BY DEF Ready, TypeOK, PostTyped
<1>2. /\ post' = [post EXCEPT ![p] = post'[p]]
      /\ post'[p] = [post[p] EXCEPT !.pc = "dead"]
  BY <1>1 DEF PostTyped, PostStates, PostWorkerDies
<1>3. post'[p] \in PostStates
  BY <1>1, <1>2 DEF PostTyped, PostStates, PostPC, PostWorkerDies
<1>4. PostReady(post'[p], DOMAIN audit')
  BY <1>1, <1>2 DEF PostTyped, PostStates, PostReady, PostWorkerDies
<1> QED
  BY <1>1, <1>2, <1>3, <1>4, PostFrame DEF PostTyped, TypeOK, PostWorkerDies

-----------------------------------------------------------------------------

\* A step of the handler of v keeps the invariant, likewise.
LEMMA VisitFrame ==
    ASSUME Ready, NEW v \in Visits,
           visit' = [visit EXCEPT ![v] = visit'[v]],
           visit'[v] \in VisitStates, VisitReady(visit'[v], DOMAIN audit'),
           audit' \in Seq(LogRequests), DOMAIN audit \subseteq DOMAIN audit',
           diagnostics' \subseteq [printed : Nat \cup {NULL}, serving : Nat],
           UNCHANGED <<post, cache, registry>>
    PROVE  Ready'
<1>1. TypeOK'
  BY DEF Ready, TypeOK
<1>2. \A p \in Posts : PostReady(post'[p], DOMAIN audit')
  BY DEF Ready, TypeOK, PostReady
<1>3. \A w \in Visits : VisitReady(visit'[w], DOMAIN audit')
  BY DEF Ready, TypeOK, VisitReady
<1> QED
  BY <1>1, <1>2, <1>3 DEF Ready

\* What VisitFrame asks for, of a handler's state and of the rest.
VisitTyped(v) ==
    /\ TypeOK
    /\ visit \in [Visits -> VisitStates]
    /\ visit[v] \in VisitStates
    /\ VisitReady(visit[v], DOMAIN audit)

\* Ready is kept by OpenPage.
LEMMA ReadyOpenPage ==
    ASSUME Ready, NEW v \in Visits, NEW page \in Pages \cup {"pdf"}, NEW k \in Keys,
           OpenPage(v, page, k)
    PROVE  Ready'
<1>1. VisitTyped(v)
  BY DEF Ready, TypeOK, VisitTyped
<1>2. /\ visit' = [visit EXCEPT ![v] = visit'[v]]
      /\ visit'[v] = [visit[v] EXCEPT !.pc = "lookup", !.page = page, !.public_key = k]
  BY <1>1 DEF VisitTyped, VisitStates, OpenPage
<1>3. visit'[v] \in VisitStates
  BY <1>1, <1>2 DEF VisitTyped, VisitStates, VisitPC, OpenPage
<1>4. VisitReady(visit'[v], DOMAIN audit')
  BY <1>1, <1>2 DEF VisitTyped, VisitStates, VisitReady, OpenPage
<1> QED
  BY <1>1, <1>2, <1>3, <1>4, VisitFrame DEF VisitTyped, TypeOK, OpenPage

\* Ready is kept by GetResponse.
LEMMA ReadyGetResponse ==
    ASSUME Ready, NEW v \in Visits,
           GetResponse(v)
    PROVE  Ready'
<1>1. VisitTyped(v)
  BY DEF Ready, TypeOK, VisitTyped
<1>2. cache[visit[v].public_key] \in Responses
  BY <1>1 DEF VisitTyped, TypeOK, VisitReady, GetResponse
<1>3. /\ visit' = [visit EXCEPT ![v] = visit'[v]]
      /\ visit'[v] = [visit[v] EXCEPT !.public_response = cache[visit[v].public_key],
                                      !.pc = IF visit[v].page \in Pages THEN "render"
                                  ELSE IF LoggerEnabled THEN "log" ELSE "call"]
  BY <1>1 DEF VisitTyped, VisitStates, GetResponse
<1>4. visit'[v] \in VisitStates
  BY <1>1, <1>3, <1>2 DEF VisitTyped, VisitStates, VisitPC, GetResponse
<1>5. VisitReady(visit'[v], DOMAIN audit')
  BY <1>1, <1>3, <1>2 DEF VisitTyped, VisitStates, VisitReady, GetResponse
<1> QED
  BY <1>1, <1>3, <1>4, <1>5, VisitFrame DEF VisitTyped, TypeOK, GetResponse

\* Ready is kept by ResponseMissing.
LEMMA ReadyResponseMissing ==
    ASSUME Ready, NEW v \in Visits,
           ResponseMissing(v)
    PROVE  Ready'
<1>1. VisitTyped(v)
  BY DEF Ready, TypeOK, VisitTyped
<1>2. /\ visit' = [visit EXCEPT ![v] = visit'[v]]
      /\ visit'[v] = [visit[v] EXCEPT !.pc = "respond", !.reply = "not_found"]
  BY <1>1 DEF VisitTyped, VisitStates, ResponseMissing
<1>3. visit'[v] \in VisitStates
  BY <1>1, <1>2 DEF VisitTyped, VisitStates, VisitPC, ResponseMissing
<1>4. VisitReady(visit'[v], DOMAIN audit')
  BY <1>1, <1>2 DEF VisitTyped, VisitStates, VisitReady, ResponseMissing
<1> QED
  BY <1>1, <1>2, <1>3, <1>4, VisitFrame DEF VisitTyped, TypeOK, ResponseMissing

\* Ready is kept by GetResponseFails.
LEMMA ReadyGetResponseFails ==
    ASSUME Ready, NEW v \in Visits,
           GetResponseFails(v)
    PROVE  Ready'
<1>1. VisitTyped(v)
  BY DEF Ready, TypeOK, VisitTyped
<1>2. /\ visit' = [visit EXCEPT ![v] = visit'[v]]
      /\ visit'[v] = [visit[v] EXCEPT !.pc = "respond", !.reply = "server_error"]
  BY <1>1 DEF VisitTyped, VisitStates, GetResponseFails
<1>3. visit'[v] \in VisitStates
  BY <1>1, <1>2 DEF VisitTyped, VisitStates, VisitPC, GetResponseFails
<1>4. VisitReady(visit'[v], DOMAIN audit')
  BY <1>1, <1>2 DEF VisitTyped, VisitStates, VisitReady, GetResponseFails
<1> QED
  BY <1>1, <1>2, <1>3, <1>4, VisitFrame DEF VisitTyped, TypeOK, GetResponseFails

\* Ready is kept by RenderPage.
LEMMA ReadyRenderPage ==
    ASSUME Ready, NEW v \in Visits,
           RenderPage(v)
    PROVE  Ready'
<1>1. VisitTyped(v)
  BY DEF Ready, TypeOK, VisitTyped
<1>2. /\ visit' = [visit EXCEPT ![v] = visit'[v]]
      /\ visit'[v] = [visit[v] EXCEPT !.pc = "respond",
                                      !.reply =
                                         IF Renders(visit[v].page, visit[v].public_response)
                                         THEN "page" ELSE "server_error"]
  BY <1>1 DEF VisitTyped, VisitStates, RenderPage
<1>3. visit'[v] \in VisitStates
  BY <1>1, <1>2 DEF VisitTyped, VisitStates, VisitPC, RenderPage
<1>4. VisitReady(visit'[v], DOMAIN audit')
  BY <1>1, <1>2 DEF VisitTyped, VisitStates, VisitReady, RenderPage
<1> QED
  BY <1>1, <1>2, <1>3, <1>4, VisitFrame DEF VisitTyped, TypeOK, RenderPage

\* Ready is kept by PreparePdfLogging.
LEMMA ReadyPreparePdfLogging ==
    ASSUME Ready, NEW v \in Visits,
           PreparePdfLogging(v)
    PROVE  Ready'
<1>1. VisitTyped(v)
  BY DEF Ready, TypeOK, VisitTyped
<1>2. visit[v].public_response \in Responses
  BY <1>1 DEF VisitTyped, VisitReady, PreparePdfLogging
<1>3. audit' \in Seq(LogRequests) /\ DOMAIN audit \subseteq DOMAIN audit'
      /\ Len(audit') \in Nat /\ Len(audit') \in DOMAIN audit'
  BY <1>1, <1>2, PdfAboutType, OpenType DEF VisitTyped, TypeOK, PreparePdfLogging
<1>4. /\ visit' = [visit EXCEPT ![v] = visit'[v]]
      /\ visit'[v] = [visit[v] EXCEPT !.pc = "call", !.log_request = Len(audit')]
  BY <1>1 DEF VisitTyped, VisitStates, PreparePdfLogging
<1>5. visit'[v] \in VisitStates
  BY <1>1, <1>4, <1>2, <1>3 DEF VisitTyped, VisitStates, VisitPC
<1>6. VisitReady(visit'[v], DOMAIN audit')
  BY <1>1, <1>4, <1>2, <1>3 DEF VisitTyped, VisitStates, VisitReady
<1> QED
  BY <1>1, <1>4, <1>5, <1>6, <1>3, VisitFrame DEF VisitTyped, TypeOK, PreparePdfLogging

\* Ready is kept by PreparePdfLoggingFails.
LEMMA ReadyPreparePdfLoggingFails ==
    ASSUME Ready, NEW v \in Visits,
           PreparePdfLoggingFails(v)
    PROVE  Ready'
<1>1. VisitTyped(v)
  BY DEF Ready, TypeOK, VisitTyped
<1>2. visit[v].public_response \in Responses
  BY <1>1 DEF VisitTyped, VisitReady, PreparePdfLoggingFails
<1>3. audit' \in Seq(LogRequests) /\ DOMAIN audit \subseteq DOMAIN audit'
  BY <1>1, <1>2, PdfAboutType, OpenType DEF VisitTyped, TypeOK, PreparePdfLoggingFails
<1>4. /\ visit' = [visit EXCEPT ![v] = visit'[v]]
      /\ visit'[v] = [visit[v] EXCEPT !.pc = "respond", !.reply = "server_error"]
  BY <1>1 DEF VisitTyped, VisitStates, PreparePdfLoggingFails
<1>5. visit'[v] \in VisitStates
  BY <1>1, <1>4, <1>3 DEF VisitTyped, VisitStates, VisitPC
<1>6. VisitReady(visit'[v], DOMAIN audit')
  BY <1>1, <1>4, <1>3 DEF VisitTyped, VisitStates, VisitReady
<1> QED
  BY <1>1, <1>4, <1>5, <1>6, <1>3, VisitFrame DEF VisitTyped, TypeOK, PreparePdfLoggingFails

\* Ready is kept by CreatePdf.
LEMMA ReadyCreatePdf ==
    ASSUME Ready, NEW v \in Visits,
           CreatePdf(v)
    PROVE  Ready'
<1>1. VisitTyped(v)
  BY DEF Ready, TypeOK, VisitTyped
<1>2. /\ visit' = [visit EXCEPT ![v] = visit'[v]]
      /\ visit'[v] = [visit[v] EXCEPT !.pc = "finish"]
  BY <1>1 DEF VisitTyped, VisitStates, CreatePdf
<1>3. visit'[v] \in VisitStates
  BY <1>1, <1>2 DEF VisitTyped, VisitStates, VisitPC, CreatePdf
<1>4. VisitReady(visit'[v], DOMAIN audit')
  BY <1>1, <1>2 DEF VisitTyped, VisitStates, VisitReady, CreatePdf
<1> QED
  BY <1>1, <1>2, <1>3, <1>4, VisitFrame DEF VisitTyped, TypeOK, CreatePdf

\* Ready is kept by PdfRequestNotFound.
LEMMA ReadyPdfRequestNotFound ==
    ASSUME Ready, NEW v \in Visits,
           PdfRequestNotFound(v)
    PROVE  Ready'
<1>1. VisitTyped(v)
  BY DEF Ready, TypeOK, VisitTyped
<1>2. "OBJECT_NOT_FOUND" \in RegistryErrors => Known("OBJECT_NOT_FOUND") \in Exceptions
  BY DEF Exceptions, CallFailures, Known
<1>3. diagnostics' \subseteq [printed : Nat \cup {NULL}, serving : Nat]
  BY <1>1 DEF VisitTyped, TypeOK, VisitStates, VisitReady, Responses, PdfRequestNotFound
<1>4. /\ visit' = [visit EXCEPT ![v] = visit'[v]]
      /\ visit'[v] = [visit[v] EXCEPT !.pc = "finish", !.error = Known("OBJECT_NOT_FOUND")]
  BY <1>1 DEF VisitTyped, VisitStates, PdfRequestNotFound
<1>5. visit'[v] \in VisitStates
  BY <1>1, <1>4, <1>2 DEF VisitTyped, VisitStates, VisitPC, PdfRequestNotFound
<1>6. VisitReady(visit'[v], DOMAIN audit')
  BY <1>1, <1>4, <1>2 DEF VisitTyped, VisitStates, VisitReady, PdfRequestNotFound
<1> QED
  BY <1>1, <1>4, <1>5, <1>6, <1>3, VisitFrame DEF VisitTyped, TypeOK, PdfRequestNotFound

\* Ready is kept by PdfFails.
LEMMA ReadyPdfFails ==
    ASSUME Ready, NEW v \in Visits, NEW e \in RegistryErrors,
           PdfFails(v, e)
    PROVE  Ready'
<1>1. VisitTyped(v)
  BY DEF Ready, TypeOK, VisitTyped
<1>2. Unexpected(e) \in Exceptions
  BY DEF Exceptions, CallFailures, SystemErrors, Known, Unexpected
<1>3. /\ visit' = [visit EXCEPT ![v] = visit'[v]]
      /\ visit'[v] = [visit[v] EXCEPT !.pc = "finish", !.error = Unexpected(e)]
  BY <1>1 DEF VisitTyped, VisitStates, PdfFails
<1>4. visit'[v] \in VisitStates
  BY <1>1, <1>3, <1>2 DEF VisitTyped, VisitStates, VisitPC, PdfFails
<1>5. VisitReady(visit'[v], DOMAIN audit')
  BY <1>1, <1>3, <1>2 DEF VisitTyped, VisitStates, VisitReady, PdfFails
<1> QED
  BY <1>1, <1>3, <1>4, <1>5, VisitFrame DEF VisitTyped, TypeOK, PdfFails

\* Ready is kept by FinishPdf.
LEMMA ReadyFinishPdf ==
    ASSUME Ready, NEW v \in Visits,
           FinishPdf(v)
    PROVE  Ready'
<1>1. VisitTyped(v)
  BY DEF Ready, TypeOK, VisitTyped
<1>2. PdfReply(v) \in {"pdf", "not_found", "server_error"}
  BY DEF PdfReply
<1>3. visit[v].public_response.public_request_id \in Nat
  BY <1>1 DEF VisitTyped, VisitReady, Responses, FinishPdf
<1>4. audit' \in Seq(LogRequests) /\ DOMAIN audit' = DOMAIN audit
  BY <1>1, <1>3, FinishType DEF VisitTyped, TypeOK, VisitStates, VisitReady, FinishPdf
<1>5. /\ visit' = [visit EXCEPT ![v] = visit'[v]]
      /\ visit'[v] = [visit[v] EXCEPT !.pc = "respond", !.reply = PdfReply(v)]
  BY <1>1 DEF VisitTyped, VisitStates, FinishPdf
<1>6. visit'[v] \in VisitStates
  BY <1>1, <1>5, <1>2, <1>4 DEF VisitTyped, VisitStates, VisitPC
<1>7. VisitReady(visit'[v], DOMAIN audit')
  BY <1>1, <1>5, <1>2, <1>4 DEF VisitTyped, VisitStates, VisitReady
<1> QED
  BY <1>1, <1>5, <1>6, <1>7, <1>4, VisitFrame DEF VisitTyped, TypeOK, FinishPdf

\* Ready is kept by FinishPdfFails.
LEMMA ReadyFinishPdfFails ==
    ASSUME Ready, NEW v \in Visits,
           FinishPdfFails(v)
    PROVE  Ready'
<1>1. VisitTyped(v)
  BY DEF Ready, TypeOK, VisitTyped
<1>2. visit[v].public_response.public_request_id \in Nat
  BY <1>1 DEF VisitTyped, VisitReady, Responses, FinishPdfFails
<1>3. audit' \in Seq(LogRequests) /\ DOMAIN audit' = DOMAIN audit
  BY <1>1, <1>2, FinishType DEF VisitTyped, TypeOK, VisitStates, VisitReady, FinishPdfFails
<1>4. /\ visit' = [visit EXCEPT ![v] = visit'[v]]
      /\ visit'[v] = [visit[v] EXCEPT !.pc = "respond", !.reply = "server_error"]
  BY <1>1 DEF VisitTyped, VisitStates, FinishPdfFails
<1>5. visit'[v] \in VisitStates
  BY <1>1, <1>4 DEF VisitTyped, VisitStates, VisitPC
<1>6. VisitReady(visit'[v], DOMAIN audit')
  BY <1>1, <1>3, <1>4 DEF VisitTyped, VisitStates, VisitReady
<1> QED
  BY <1>1, <1>3, <1>4, <1>5, <1>6, VisitFrame DEF VisitTyped, TypeOK, FinishPdfFails

\* Ready is kept by RespondToVisit.
LEMMA ReadyRespondToVisit ==
    ASSUME Ready, NEW v \in Visits,
           RespondToVisit(v)
    PROVE  Ready'
<1>1. VisitTyped(v)
  BY DEF Ready, TypeOK, VisitTyped
<1>2. /\ visit' = [visit EXCEPT ![v] = visit'[v]]
      /\ visit'[v] = [visit[v] EXCEPT !.pc = "done"]
  BY <1>1 DEF VisitTyped, VisitStates, RespondToVisit
<1>3. visit'[v] \in VisitStates
  BY <1>1, <1>2 DEF VisitTyped, VisitStates, VisitPC, RespondToVisit
<1>4. VisitReady(visit'[v], DOMAIN audit')
  BY <1>1, <1>2 DEF VisitTyped, VisitStates, VisitReady, RespondToVisit
<1> QED
  BY <1>1, <1>2, <1>3, <1>4, VisitFrame DEF VisitTyped, TypeOK, RespondToVisit

\* Ready is kept by VisitWorkerDies.
LEMMA ReadyVisitWorkerDies ==
    ASSUME Ready, NEW v \in Visits,
           VisitWorkerDies(v)
    PROVE  Ready'
<1>1. VisitTyped(v)
  BY DEF Ready, TypeOK, VisitTyped
<1>2. /\ visit' = [visit EXCEPT ![v] = visit'[v]]
      /\ visit'[v] = [visit[v] EXCEPT !.pc = "dead"]
  BY <1>1 DEF VisitTyped, VisitStates, VisitWorkerDies
<1>3. visit'[v] \in VisitStates
  BY <1>1, <1>2 DEF VisitTyped, VisitStates, VisitPC, VisitWorkerDies
<1>4. VisitReady(visit'[v], DOMAIN audit')
  BY <1>1, <1>2 DEF VisitTyped, VisitStates, VisitReady, VisitWorkerDies
<1> QED
  BY <1>1, <1>2, <1>3, <1>4, VisitFrame DEF VisitTyped, TypeOK, VisitWorkerDies

-----------------------------------------------------------------------------

\* An entry the cache drops was nobody's own state.
LEMMA ReadyExpire ==
    ASSUME Ready, NEW k \in Keys, Expire(k)
    PROVE  Ready'
  BY DEF Ready, TypeOK, PostReady, VisitReady, Expire

\* Every step keeps the invariant.
LEMMA ReadyStep == Ready /\ [Next]_vars => Ready'
<1> SUFFICES ASSUME Ready, [Next]_vars PROVE Ready'
  OBVIOUS
<1>1. ASSUME NEW p \in Posts, NEW f \in Submissions, SubmitInvalid(p, f) PROVE Ready'
  BY <1>1, ReadySubmitInvalid
<1>2. ASSUME NEW p \in Posts, NEW f \in Submissions, NEW k \in Keys, SubmitValid(p, f, k)
      PROVE  Ready'
  BY <1>2, ReadySubmitValid
<1>3. ASSUME NEW p \in Posts, PostStep(p) PROVE Ready'
  BY <1>3, ReadyPrepareLoggingRequest, ReadyPrepareLoggingRequestFails,
     ReadyConfirmationMissing, ReadyRegistryCreates, ReadyRegistryRefuses,
     ReadyRegistryReplyLost, ReadyPublish, ReadyPublishFails, ReadyFinishPost,
     ReadyFinishPostFails, ReadyRespondToPost
     DEF PostStep
<1>4. ASSUME NEW p \in Posts, PostWorkerDies(p) PROVE Ready'
  BY <1>4, ReadyPostWorkerDies
<1>5. ASSUME NEW v \in Visits, NEW page \in Pages \cup {"pdf"}, NEW k \in Keys,
             OpenPage(v, page, k)
      PROVE  Ready'
  BY <1>5, ReadyOpenPage
<1>6. ASSUME NEW v \in Visits, VisitStep(v) PROVE Ready'
  BY <1>6, ReadyGetResponse, ReadyResponseMissing, ReadyGetResponseFails, ReadyRenderPage,
     ReadyPreparePdfLogging, ReadyPreparePdfLoggingFails, ReadyCreatePdf,
     ReadyPdfRequestNotFound, ReadyPdfFails, ReadyFinishPdf, ReadyFinishPdfFails,
     ReadyRespondToVisit
     DEF VisitStep
<1>7. ASSUME NEW v \in Visits, VisitWorkerDies(v) PROVE Ready'
  BY <1>7, ReadyVisitWorkerDies
<1>8. ASSUME NEW k \in Keys, Expire(k) PROVE Ready'
  BY <1>8, ReadyExpire
<1>9. ASSUME UNCHANGED vars PROVE Ready'
  BY <1>9 DEF vars, Ready, TypeOK, PostReady, VisitReady
<1> QED
  BY <1>1, <1>2, <1>3, <1>4, <1>5, <1>6, <1>7, <1>8, <1>9 DEF Next

\* The inductive typing invariant holds in every reachable state.
THEOREM ReadyAlways == Spec => []Ready
  BY ReadyInit, ReadyStep, PTL DEF Spec

\* Every variable keeps its type, for any number of handlers and keys.
THEOREM TypeCorrect == Spec => []TypeOK
<1>1. Ready => TypeOK
  BY DEF Ready
<1> QED
  BY <1>1, ReadyAlways, PTL

-----------------------------------------------------------------------------
(* The reply to a POST is true about the registry. *)

\* How the state of a handler tells which requests its POST has made: none
\* before the call, the one it remembers after a call that returned, none
\* after a refusal.  Only an unexpected exception leaves it open.
HandledRight(s, made) ==
    /\ \A i, j \in made : i = j
    /\ s.pc \in {"idle", "log", "call"} => made = {}
    /\ s.pc \in {"idle", "log", "call", "publish"} => s.error = NULL
    /\ s.pc \in {"idle", "log", "call", "publish", "finish"} => s.reply = NULL
    /\ s.pc = "publish" => s.public_request_id \in made
    /\ s.pc = "finish" /\ s.error = NULL => s.public_request_id \in made
    /\ s.pc = "finish" /\ s.error # NULL => (s.error.kind = "known" => made = {})
    /\ s.reply = "form" => made = {}
    /\ s.reply \in Pages => s.public_request_id \in made

Handled == \A p \in Posts : HandledRight(post[p], RequestsOf(p))

\* Before any handler runs the registry holds nothing.
LEMMA HandledInit == Init => Handled
  BY NullIsNoObject DEF Init, Handled, HandledRight, IdlePost, RequestsOf

\* A step that creates no request concerns its own handler only.
LEMMA HandledFrame ==
    ASSUME Handled, NEW p \in Posts,
           post \in [Posts -> PostStates],
           post' = [post EXCEPT ![p] = post'[p]],
           HandledRight(post'[p], RequestsOf(p)),
           UNCHANGED registry
    PROVE  Handled'
<1>1. \A q \in Posts : RequestsOf(q)' = RequestsOf(q)
  BY DEF RequestsOf
<1> QED
  BY <1>1 DEF Handled

\* A request that is created is its POST's, and nobody else's.
LEMMA CreateRequestOf ==
    ASSUME registry \in Seq(RegistryRequests), NEW p \in Posts, CreateRequest(p)
    PROVE  /\ RequestsOf(p)' = RequestsOf(p) \cup {Len(registry')}
           /\ \A q \in Posts \ {p} : RequestsOf(q)' = RequestsOf(q)
  BY DEF CreateRequest, RequestsOf

\* Handled is kept by SubmitInvalid.
LEMMA HandledSubmitInvalid ==
    ASSUME Ready, Handled, NEW p \in Posts, NEW f \in Submissions,
           SubmitInvalid(p, f)
    PROVE  Handled'
<1>1. post \in [Posts -> PostStates] /\ post[p] \in PostStates
  BY DEF Ready, TypeOK
<1>2. HandledRight(post[p], RequestsOf(p))
  BY DEF Handled
<1>3. post' = [post EXCEPT ![p] = post'[p]]
  BY <1>1 DEF PostStates, SubmitInvalid
<1>4. HandledRight(post'[p], RequestsOf(p))
  BY <1>1, <1>2, NullIsNoObject
     DEF HandledRight, PostStates, SubmitInvalid, Pages
<1> QED
  BY <1>1, <1>3, <1>4, HandledFrame DEF SubmitInvalid

\* Handled is kept by SubmitValid.
LEMMA HandledSubmitValid ==
    ASSUME Ready, Handled, NEW p \in Posts, NEW f \in Submissions, NEW k \in Keys,
           SubmitValid(p, f, k)
    PROVE  Handled'
<1>1. post \in [Posts -> PostStates] /\ post[p] \in PostStates
  BY DEF Ready, TypeOK
<1>2. HandledRight(post[p], RequestsOf(p))
  BY DEF Handled
<1>3. post' = [post EXCEPT ![p] = post'[p]]
  BY <1>1 DEF PostStates, SubmitValid
<1>4. HandledRight(post'[p], RequestsOf(p))
  BY <1>1, <1>2, NullIsNoObject
     DEF HandledRight, PostStates, SubmitValid
<1> QED
  BY <1>1, <1>3, <1>4, HandledFrame DEF SubmitValid

\* Handled is kept by PrepareLoggingRequest.
LEMMA HandledPrepareLoggingRequest ==
    ASSUME Ready, Handled, NEW p \in Posts,
           PrepareLoggingRequest(p)
    PROVE  Handled'
<1>1. post \in [Posts -> PostStates] /\ post[p] \in PostStates
  BY DEF Ready, TypeOK
<1>2. HandledRight(post[p], RequestsOf(p))
  BY DEF Handled
<1>3. post' = [post EXCEPT ![p] = post'[p]]
  BY <1>1 DEF PostStates, PrepareLoggingRequest
<1>4. HandledRight(post'[p], RequestsOf(p))
  BY <1>1, <1>2, NullIsNoObject
     DEF HandledRight, PostStates, PrepareLoggingRequest
<1> QED
  BY <1>1, <1>3, <1>4, HandledFrame DEF PrepareLoggingRequest

\* Handled is kept by PrepareLoggingRequestFails.
LEMMA HandledPrepareLoggingRequestFails ==
    ASSUME Ready, Handled, NEW p \in Posts,
           PrepareLoggingRequestFails(p)
    PROVE  Handled'
<1>1. post \in [Posts -> PostStates] /\ post[p] \in PostStates
  BY DEF Ready, TypeOK
<1>2. HandledRight(post[p], RequestsOf(p))
  BY DEF Handled
<1>3. post' = [post EXCEPT ![p] = post'[p]]
  BY <1>1 DEF PostStates, PrepareLoggingRequestFails
<1>4. HandledRight(post'[p], RequestsOf(p))
  BY <1>1, <1>2, NullIsNoObject
     DEF HandledRight, PostStates, PrepareLoggingRequestFails, Pages
<1> QED
  BY <1>1, <1>3, <1>4, HandledFrame DEF PrepareLoggingRequestFails

\* Handled is kept by ConfirmationMissing.
LEMMA HandledConfirmationMissing ==
    ASSUME Ready, Handled, NEW p \in Posts,
           ConfirmationMissing(p)
    PROVE  Handled'
<1>1. post \in [Posts -> PostStates] /\ post[p] \in PostStates
  BY DEF Ready, TypeOK
<1>2. HandledRight(post[p], RequestsOf(p))
  BY DEF Handled
<1>3. post' = [post EXCEPT ![p] = post'[p]]
  BY <1>1 DEF PostStates, ConfirmationMissing
<1>4. HandledRight(post'[p], RequestsOf(p))
  BY <1>1, <1>2, NullIsNoObject
     DEF HandledRight, PostStates, ConfirmationMissing, Exceptions, CallFailures,
         SystemErrors, Known, Unexpected
<1> QED
  BY <1>1, <1>3, <1>4, HandledFrame DEF ConfirmationMissing

\* Handled is kept by RegistryCreates.
LEMMA HandledRegistryCreates ==
    ASSUME Ready, Handled, NEW p \in Posts, RegistryCreates(p)
    PROVE  Handled'
<1>1. post \in [Posts -> PostStates] /\ post[p] \in PostStates
  BY DEF Ready, TypeOK
<1>2. HandledRight(post[p], {}) /\ RequestsOf(p) = {}
  BY DEF Handled, HandledRight, RegistryCreates
<1>3. /\ RequestsOf(p)' = {Len(registry')}
      /\ \A q \in Posts \ {p} : RequestsOf(q)' = RequestsOf(q)
  BY <1>2, CreateRequestOf DEF Ready, TypeOK, RegistryCreates
<1>4. post' = [post EXCEPT ![p] = post'[p]]
  BY <1>1 DEF PostStates, RegistryCreates
<1>5. HandledRight(post'[p], RequestsOf(p)')
  BY <1>1, <1>2, <1>3, NullIsNoObject
     DEF HandledRight, PostStates, RegistryCreates
<1> QED
  BY <1>1, <1>3, <1>4, <1>5 DEF Handled

\* Handled is kept by RegistryRefuses.
LEMMA HandledRegistryRefuses ==
    ASSUME Ready, Handled, NEW p \in Posts, NEW e \in RegistryErrors,
           RegistryRefuses(p, e)
    PROVE  Handled'
<1>1. post \in [Posts -> PostStates] /\ post[p] \in PostStates
  BY DEF Ready, TypeOK
<1>2. HandledRight(post[p], RequestsOf(p))
  BY DEF Handled
<1>3. post' = [post EXCEPT ![p] = post'[p]]
  BY <1>1 DEF PostStates, RegistryRefuses
<1>4. HandledRight(post'[p], RequestsOf(p))
  BY <1>1, <1>2, NullIsNoObject
     DEF HandledRight, PostStates, RegistryRefuses, Exceptions, CallFailures,
         SystemErrors, Known, Unexpected
<1> QED
  BY <1>1, <1>3, <1>4, HandledFrame DEF RegistryRefuses

\* Handled is kept by RegistryReplyLost.
LEMMA HandledRegistryReplyLost ==
    ASSUME Ready, Handled, NEW p \in Posts, RegistryReplyLost(p)
    PROVE  Handled'
<1>1. post \in [Posts -> PostStates] /\ post[p] \in PostStates
  BY DEF Ready, TypeOK
<1>2. HandledRight(post[p], {}) /\ RequestsOf(p) = {}
  BY DEF Handled, HandledRight, RegistryReplyLost
<1>3. /\ RequestsOf(p)' = {Len(registry')}
      /\ \A q \in Posts \ {p} : RequestsOf(q)' = RequestsOf(q)
  BY <1>2, CreateRequestOf DEF Ready, TypeOK, RegistryReplyLost
<1>4. post' = [post EXCEPT ![p] = post'[p]]
  BY <1>1 DEF PostStates, RegistryReplyLost
<1>5. HandledRight(post'[p], RequestsOf(p)')
  BY <1>1, <1>2, <1>3, NullIsNoObject
     DEF HandledRight, PostStates, RegistryReplyLost, Exceptions, CallFailures,
         SystemErrors, Known, Unexpected
<1> QED
  BY <1>1, <1>3, <1>4, <1>5 DEF Handled

\* Handled is kept by Publish.
LEMMA HandledPublish ==
    ASSUME Ready, Handled, NEW p \in Posts,
           Publish(p)
    PROVE  Handled'
<1>1. post \in [Posts -> PostStates] /\ post[p] \in PostStates
  BY DEF Ready, TypeOK
<1>2. HandledRight(post[p], RequestsOf(p))
  BY DEF Handled
<1>3. post' = [post EXCEPT ![p] = post'[p]]
  BY <1>1 DEF PostStates, Publish
<1>4. HandledRight(post'[p], RequestsOf(p))
  BY <1>1, <1>2, NullIsNoObject
     DEF HandledRight, PostStates, Publish
<1> QED
  BY <1>1, <1>3, <1>4, HandledFrame DEF Publish

\* Handled is kept by PublishFails.
LEMMA HandledPublishFails ==
    ASSUME Ready, Handled, NEW p \in Posts,
           PublishFails(p)
    PROVE  Handled'
<1>1. post \in [Posts -> PostStates] /\ post[p] \in PostStates
  BY DEF Ready, TypeOK
<1>2. HandledRight(post[p], RequestsOf(p))
  BY DEF Handled
<1>3. post' = [post EXCEPT ![p] = post'[p]]
  BY <1>1 DEF PostStates, PublishFails
<1>4. HandledRight(post'[p], RequestsOf(p))
  BY <1>1, <1>2, NullIsNoObject
     DEF HandledRight, PostStates, PublishFails, Exceptions, CallFailures,
         SystemErrors, Known, Unexpected
<1> QED
  BY <1>1, <1>3, <1>4, HandledFrame DEF PublishFails

\* Handled is kept by FinishPost.
LEMMA HandledFinishPost ==
    ASSUME Ready, Handled, NEW p \in Posts,
           FinishPost(p)
    PROVE  Handled'
<1>1. post \in [Posts -> PostStates] /\ post[p] \in PostStates
  BY DEF Ready, TypeOK
<1>2. HandledRight(post[p], RequestsOf(p))
  BY DEF Handled
<1>3. post' = [post EXCEPT ![p] = post'[p]]
  BY <1>1 DEF PostStates, FinishPost
<1>4. HandledRight(post'[p], RequestsOf(p))
  BY <1>1, <1>2, NullIsNoObject
     DEF HandledRight, PostStates, FinishPost, PostReply, SuccessUrl, Pages
<1> QED
  BY <1>1, <1>3, <1>4, HandledFrame DEF FinishPost

\* Handled is kept by FinishPostFails.
LEMMA HandledFinishPostFails ==
    ASSUME Ready, Handled, NEW p \in Posts,
           FinishPostFails(p)
    PROVE  Handled'
<1>1. post \in [Posts -> PostStates] /\ post[p] \in PostStates
  BY DEF Ready, TypeOK
<1>2. HandledRight(post[p], RequestsOf(p))
  BY DEF Handled
<1>3. post' = [post EXCEPT ![p] = post'[p]]
  BY <1>1 DEF PostStates, FinishPostFails
<1>4. HandledRight(post'[p], RequestsOf(p))
  BY <1>1, <1>2, NullIsNoObject
     DEF HandledRight, PostStates, FinishPostFails, Pages
<1> QED
  BY <1>1, <1>3, <1>4, HandledFrame DEF FinishPostFails

\* Handled is kept by RespondToPost.
LEMMA HandledRespondToPost ==
    ASSUME Ready, Handled, NEW p \in Posts,
           RespondToPost(p)
    PROVE  Handled'
<1>1. post \in [Posts -> PostStates] /\ post[p] \in PostStates
  BY DEF Ready, TypeOK
<1>2. HandledRight(post[p], RequestsOf(p))
  BY DEF Handled
<1>3. post' = [post EXCEPT ![p] = post'[p]]
  BY <1>1 DEF PostStates, RespondToPost
<1>4. HandledRight(post'[p], RequestsOf(p))
  BY <1>1, <1>2, NullIsNoObject
     DEF HandledRight, PostStates, RespondToPost
<1> QED
  BY <1>1, <1>3, <1>4, HandledFrame DEF RespondToPost

\* Handled is kept by PostWorkerDies.
LEMMA HandledPostWorkerDies ==
    ASSUME Ready, Handled, NEW p \in Posts,
           PostWorkerDies(p)
    PROVE  Handled'
<1>1. post \in [Posts -> PostStates] /\ post[p] \in PostStates
  BY DEF Ready, TypeOK
<1>2. HandledRight(post[p], RequestsOf(p))
  BY DEF Handled
<1>3. post' = [post EXCEPT ![p] = post'[p]]
  BY <1>1 DEF PostStates, PostWorkerDies
<1>4. HandledRight(post'[p], RequestsOf(p))
  BY <1>1, <1>2, NullIsNoObject
     DEF HandledRight, PostStates, PostWorkerDies
<1> QED
  BY <1>1, <1>3, <1>4, HandledFrame DEF PostWorkerDies

\* Every step keeps what each handler knows of its own requests.
LEMMA HandledStep == Ready /\ Handled /\ [Next]_vars => Handled'
<1> SUFFICES ASSUME Ready, Handled, [Next]_vars PROVE Handled'
  OBVIOUS
<1>1. ASSUME NEW p \in Posts, NEW f \in Submissions, SubmitInvalid(p, f) PROVE Handled'
  BY <1>1, HandledSubmitInvalid
<1>2. ASSUME NEW p \in Posts, NEW f \in Submissions, NEW k \in Keys, SubmitValid(p, f, k)
      PROVE  Handled'
  BY <1>2, HandledSubmitValid
<1>3. ASSUME NEW p \in Posts, PostStep(p) PROVE Handled'
  BY <1>3, HandledPrepareLoggingRequest, HandledPrepareLoggingRequestFails,
     HandledConfirmationMissing, HandledRegistryCreates, HandledRegistryRefuses,
     HandledRegistryReplyLost, HandledPublish, HandledPublishFails, HandledFinishPost,
     HandledFinishPostFails, HandledRespondToPost
     DEF PostStep
<1>4. ASSUME NEW p \in Posts, PostWorkerDies(p) PROVE Handled'
  BY <1>4, HandledPostWorkerDies
<1>5. ASSUME UNCHANGED <<post, registry>> PROVE Handled'
  BY <1>5 DEF Handled, RequestsOf
<1>6. ASSUME NEW v \in Visits, NEW page \in Pages \cup {"pdf"}, NEW k \in Keys,
             OpenPage(v, page, k)
      PROVE  Handled'
  BY <1>5, <1>6 DEF OpenPage
<1>7. ASSUME NEW v \in Visits, VisitStep(v) PROVE Handled'
  BY <1>5, <1>7
     DEF GetResponse, ResponseMissing, GetResponseFails, RenderPage, PreparePdfLogging,
              PreparePdfLoggingFails, CreatePdf, PdfRequestNotFound, PdfFails, FinishPdf,
              FinishPdfFails, RespondToVisit, VisitStep
<1>8. ASSUME NEW v \in Visits, VisitWorkerDies(v) PROVE Handled'
  BY <1>5, <1>8 DEF VisitWorkerDies
<1>9. ASSUME NEW k \in Keys, Expire(k) PROVE Handled'
  BY <1>5, <1>9 DEF Expire
<1>10. ASSUME UNCHANGED vars PROVE Handled'
  BY <1>5, <1>10 DEF vars
<1> QED
  BY <1>1, <1>2, <1>3, <1>4, <1>6, <1>7, <1>8, <1>9, <1>10 DEF Next

\* At every point of its run a handler's state tells which requests it made.
THEOREM HandledAlways == Spec => []Handled
  BY HandledInit, HandledStep, ReadyAlways, PTL DEF Spec

\* Whatever fails and however handlers interleave, a form shown again made no
\* request, a redirect made exactly one, and no POST ever makes two.
THEOREM RepliesAreTruthful == Spec => []OutcomeTruthful
<1>1. Handled => OutcomeTruthful
  BY DEF Handled, HandledRight, OutcomeTruthful
<1> QED
  BY <1>1, HandledAlways, PTL

=============================================================================
