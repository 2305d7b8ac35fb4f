----------------------- MODULE PublicRequestsLogProofs -----------------------
(***************************************************************************)
(* Proofs about PublicRequests: what the logger's requests tell of the     *)
(* registry, for any number of handlers and keys and any faults.           *)
(***************************************************************************)
EXTENDS PublicRequestsPageProofs

\* The log request of a POST: open until "finally", then true.
PostLog(p) ==
    LET s == post[p]
        l == s.log_request
    IN  /\ s.pc \in {"idle", "log"} => l = NULL
        /\ LoggerEnabled /\ s.pc \in {"call", "publish", "finish"} => l # NULL
        /\ l # NULL => s.public_key # NULL /\ audit[l].about = LoggingProperties(s.form)
        /\ l # NULL /\ s.pc \in {"call", "publish", "finish"} => ~audit[l].closed
        /\ l # NULL /\ audit[l].closed =>
              /\ audit[l].result = "Fail" => RequestsOf(p) = {}
              /\ audit[l].result = "Ok" => audit[l].reference \in RequestsOf(p)
        /\ s.reply \in Pages => (LoggerEnabled => l # NULL) /\ (l # NULL => ClosedOk(l))

\* The log request of a PDF.
VisitLog(v) ==
    LET s == visit[v]
        l == s.log_request
    IN  /\ s.pc \in {"idle", "lookup", "render", "log"} => l = NULL
        /\ LoggerEnabled /\ s.pc \in {"call", "finish"} => l # NULL
        /\ l # NULL =>
              /\ s.public_response # NULL
              /\ audit[l].about = PdfLoggingProperties(s.public_response)
        /\ l # NULL /\ s.pc \in {"call", "finish"} => ~audit[l].closed
        /\ l # NULL /\ ClosedOk(l) =>
              audit[l].reference = s.public_response.public_request_id
        /\ s.reply = "pdf" => (LoggerEnabled => l # NULL) /\ (l # NULL => ClosedOk(l))

\* The i-th request was made under the log request of its POST.
RequestLogged(i) ==
    /\ registry[i].log_request_id = post[registry[i].submitter].log_request
    /\ LoggerEnabled => registry[i].log_request_id # NULL

\* A log request belongs to one handler.
LogsDiffer ==
    /\ \A p, q \in Posts : p # q /\ post[p].log_request # NULL =>
          post[p].log_request # post[q].log_request
    /\ \A v, w \in Visits : v # w /\ visit[v].log_request # NULL =>
          visit[v].log_request # visit[w].log_request
    /\ \A p \in Posts, v \in Visits : post[p].log_request # NULL =>
          post[p].log_request # visit[v].log_request

Owned(l) ==
    \/ \E p \in Posts : post[p].log_request = l
    \/ \E v \in Visits : visit[v].log_request = l

\* The inductive invariant, over Ready, Handled and Good.
Audited ==
    /\ \A p \in Posts : PostLog(p)
    /\ \A v \in Visits : VisitLog(v)
    /\ \A i \in DOMAIN registry : RequestLogged(i)
    /\ LogsDiffer
    /\ \A l \in DOMAIN audit : audit[l].closed => Owned(l)

-----------------------------------------------------------------------------
(* The tables agree. *)

\* What the logger is told of a form is the command made of it.
LEMMA LogDescribes ==
    ASSUME NEW f \in Submissions, IsValid(f)
    PROVE  /\ LoggingProperties(f).name = LoggedAs(RegistryCommand(f))
           /\ LoggingProperties(f).handle = RegistryCommand(f).handle
           /\ LoggingProperties(f).handleType = Subject(RegistryCommand(f))
           /\ LoggingProperties(f).customEmail = RegistryCommand(f).email
           /\ LoggingProperties(f).name \in RequestNames
<1>1. f \in FormData /\ Declared(f)
  BY DeskAssumption DEF Forms
<1>2. HandleType(f) = Subject(RegistryCommand(f))
  BY <1>1, NullIsNoObject DEF HandleType, Subject, RegistryCommand, Declared, IsValid
<1>3. f.custom_email = RegistryCommand(f).email
  <2>1. CASE f.view \in LockViews
    BY <1>1, <2>1, NullIsNoObject DEF Declared, RegistryCommand, SendTo
  <2>2. CASE f.view \in DeliveryViews
    BY <1>1, <2>2 DEF IsValid, DeliveryIsValid, FormData, SendTo, RegistryCommand
  <2> QED
    BY <1>1, <2>1, <2>2 DEF FormData, Views
<1>4. RequestName(f) \in RequestNames
  <2>1. CASE f.view \in LockViews
    <3>1. f.view \in {"block_object", "unblock_object"} /\ f.lock_type \in {"transfer", "all"}
      BY <1>1, <2>1 DEF IsValid, FormData, LockViews, LockType
    <3> QED
      BY <2>1, <3>1 DEF RequestName, RequestNames, LoggingLockType, LockViews
  <2>2. CASE f.view \in DeliveryViews
    BY <2>2 DEF RequestName, RequestNames, DeliveryViews, LockViews
  <2> QED
    BY <1>1, <2>1, <2>2 DEF FormData, Views
<1> QED
  BY <1>2, <1>3, <1>4, NamesAgree DEF LoggingProperties, RegistryCommand

-----------------------------------------------------------------------------
(* Every step keeps log requests with their handlers. *)

\* Before any handler runs there are no log requests.
LEMMA AuditedInit == Init => Audited
<1> SUFFICES ASSUME Init PROVE Audited
  OBVIOUS
<1>1. \A p \in Posts : /\ post[p].pc = "idle" /\ post[p].log_request = NULL
                       /\ post[p].reply = NULL
  BY DEF Init, IdlePost
<1>2. \A v \in Visits : /\ visit[v].pc = "idle" /\ visit[v].log_request = NULL
                        /\ visit[v].reply = NULL
  BY DEF Init, IdleVisit
<1>3. registry = <<>> /\ audit = <<>>
  BY DEF Init
<1>4. \A p \in Posts : PostLog(p)
  BY <1>1, NullIsNoObject DEF PostLog
<1>5. \A v \in Visits : VisitLog(v)
  BY <1>2, NullIsNoObject DEF VisitLog
<1> QED
  BY <1>1, <1>2, <1>3, <1>4, <1>5 DEF Audited, LogsDiffer

\* The logger's requests after a step of a handler with log request l: that
\* one may have changed, and one more may be open.
AuditGrows(l) ==
    /\ DOMAIN audit \subseteq DOMAIN audit'
    /\ \A k \in DOMAIN audit : k # l => audit'[k] = audit[k]
    /\ \A k \in DOMAIN audit' : k \notin DOMAIN audit => ~audit'[k].closed

\* What all handlers are known to hold.
Typed ==
    /\ post \in [Posts -> PostStates] /\ visit \in [Visits -> VisitStates]
    /\ registry \in Seq(RegistryRequests) /\ audit \in Seq(LogRequests)
    /\ \A p \in Posts : post[p].log_request # NULL => post[p].log_request \in DOMAIN audit
    /\ \A v \in Visits : visit[v].log_request # NULL => visit[v].log_request \in DOMAIN audit

LEMMA FindTyped == ASSUME Ready PROVE Typed
  BY DEF Ready, TypeOK, PostReady, VisitReady, Typed

\* A step of the handler of p keeps the invariant if it is right about its own
\* log request, and touches no other.
LEMMA PostLogFrame ==
    ASSUME Audited, Good, Ready, NEW p \in Posts,
           post' = [post EXCEPT ![p] = post'[p]],
           post[p].log_request # NULL => post'[p].log_request = post[p].log_request,
           post'[p].log_request \in {post[p].log_request} \cup (Nat \ DOMAIN audit),
           \/ UNCHANGED registry
                /\ (RequestsOf(p) = {} \/ post'[p].log_request = post[p].log_request)
           \/ CreateRequest(p) /\ post'[p].log_request = post[p].log_request
                /\ (LoggerEnabled => post[p].log_request # NULL),
           AuditGrows(post[p].log_request),
           PostLog(p)',
           UNCHANGED visit
    PROVE  Audited'
<1>1. Typed
  BY FindTyped
<1>2. \A q \in Posts \ {p} : /\ post'[q] = post[q] /\ RequestsOf(q)' = RequestsOf(q)
                             /\ post[q].log_request # NULL =>
                                   audit'[post[q].log_request] = audit[post[q].log_request]
  <2>1. \A q \in Posts \ {p} : post'[q] = post[q] /\ RequestsOf(q)' = RequestsOf(q)
    BY <1>1, CreateRequestOf DEF Typed, RequestsOf
  <2> QED
    BY <1>1, <2>1 DEF Typed, Audited, LogsDiffer, AuditGrows
<1>3. ASSUME NEW v \in Visits, visit[v].log_request # NULL
      PROVE  audit'[visit[v].log_request] = audit[visit[v].log_request]
  BY <1>1, <1>3, NullIsNoObject DEF Typed, Audited, LogsDiffer, AuditGrows
<1>4. \A q \in Posts : PostLog(q)'
  BY <1>2 DEF Audited, PostLog, ClosedOk
<1>5. \A v \in Visits : VisitLog(v)'
  BY <1>3 DEF Audited, VisitLog, ClosedOk
<1>6. ASSUME NEW i \in DOMAIN registry' PROVE RequestLogged(i)'
  <2>1. CASE i \in DOMAIN registry /\ registry'[i] = registry[i]
    <3>1. registry[i] \in RegistryRequests
      BY <1>1, <2>1 DEF Typed
    <3>2. registry[i].submitter \in Posts
      BY <3>1 DEF RegistryRequests
    <3>3. CASE registry[i].submitter = p
      <4>1. i \in RequestsOf(p)
        BY <2>1, <3>3 DEF RequestsOf
      <4>2. post'[p].log_request = post[p].log_request
        BY <4>1
      <4> QED
        BY <2>1, <3>3, <4>2 DEF Audited, RequestLogged
    <3>4. CASE registry[i].submitter # p
      BY <1>2, <2>1, <3>2, <3>4 DEF Audited, RequestLogged
    <3> QED
      BY <3>3, <3>4
  <2>2. CASE CreateRequest(p) /\ i \notin DOMAIN registry
    <3>1. registry'[i].submitter = p /\ registry'[i].log_request_id = post[p].log_request
      BY <1>1, <2>2 DEF Typed, CreateRequest
    <3>2. /\ post'[p].log_request = post[p].log_request
          /\ LoggerEnabled => post[p].log_request # NULL
      BY <1>1, <2>2 DEF Typed, CreateRequest
    <3> QED
      BY <3>1, <3>2 DEF RequestLogged
  <2> QED
    BY <1>1, <2>1, <2>2 DEF Typed, CreateRequest
<1>7. LogsDiffer'
  BY <1>1, <1>2 DEF Typed, Audited, LogsDiffer
<1>8. ASSUME NEW k \in DOMAIN audit', audit'[k].closed PROVE Owned(k)'
  <2>1. k \in DOMAIN audit
    BY <1>8 DEF AuditGrows
  <2>2. k = post[p].log_request \/ Owned(k)
    BY <1>8, <2>1 DEF Audited, AuditGrows
  <2> QED
    BY <1>2, <2>1, <2>2, <1>1, NullAssumption DEF Owned, Typed
<1> QED
  BY <1>4, <1>5, <1>6, <1>7, <1>8 DEF Audited


\* A step of the handler of v keeps the invariant if it is right about its own
\* log request, and touches no other.
LEMMA VisitLogFrame ==
    ASSUME Audited, Ready, NEW v \in Visits,
           visit' = [visit EXCEPT ![v] = visit'[v]],
           visit[v].log_request # NULL => visit'[v].log_request = visit[v].log_request,
           visit'[v].log_request \in {visit[v].log_request} \cup (Nat \ DOMAIN audit),
           AuditGrows(visit[v].log_request),
           VisitLog(v)',
           UNCHANGED <<post, registry>>
    PROVE  Audited'
<1>1. Typed
  BY FindTyped
<1>2. \A w \in Visits \ {v} : /\ visit'[w] = visit[w]
                              /\ visit[w].log_request # NULL =>
                                    audit'[visit[w].log_request] = audit[visit[w].log_request]
  BY <1>1 DEF Typed, Audited, LogsDiffer, AuditGrows
<1>3. ASSUME NEW p \in Posts, post[p].log_request # NULL
      PROVE  audit'[post[p].log_request] = audit[post[p].log_request]
  BY <1>1, <1>3 DEF Typed, Audited, LogsDiffer, AuditGrows
<1>4. \A w \in Visits : VisitLog(w)'
  BY <1>2 DEF Audited, VisitLog, ClosedOk
<1>5. \A p \in Posts : PostLog(p)'
  BY <1>3 DEF Audited, PostLog, ClosedOk, RequestsOf
<1>6. \A i \in DOMAIN registry' : RequestLogged(i)'
  BY DEF Audited, RequestLogged
<1>7. LogsDiffer'
  BY <1>1, <1>2 DEF Typed, Audited, LogsDiffer
<1>8. ASSUME NEW k \in DOMAIN audit', audit'[k].closed PROVE Owned(k)'
  <2>1. k \in DOMAIN audit
    BY <1>8 DEF AuditGrows
  <2>2. k = visit[v].log_request \/ Owned(k)
    BY <1>8, <2>1 DEF Audited, AuditGrows
  <2> QED
    BY <1>2, <2>1, <2>2, <1>1, NullAssumption DEF Owned, Typed
<1> QED
  BY <1>4, <1>5, <1>6, <1>7, <1>8 DEF Audited

\* A log request that is opened is the only change of the logger's requests.
LEMMA Opening ==
    ASSUME Ready, NEW about, audit' = Append(audit, OpenLogRequest(about)), NEW l
    PROVE  /\ AuditGrows(l)
           /\ Len(audit') \in Nat \ DOMAIN audit
           /\ audit'[Len(audit')] = OpenLogRequest(about)
<1>1. audit \in Seq(LogRequests)
  BY DEF Ready, TypeOK
<1>2. /\ Len(audit') = Len(audit) + 1 /\ Len(audit) \in Nat
      /\ DOMAIN audit = 1 .. Len(audit) /\ DOMAIN audit' = 1 .. Len(audit) + 1
      /\ \A k \in DOMAIN audit : audit'[k] = audit[k]
      /\ audit'[Len(audit) + 1] = OpenLogRequest(about)
  BY <1>1
<1>3. ~OpenLogRequest(about).closed
  BY DEF OpenLogRequest
<1>4. \A k \in DOMAIN audit' : k \notin DOMAIN audit => k = Len(audit) + 1
  BY <1>2
<1> QED
  BY <1>2, <1>3, <1>4 DEF AuditGrows

\* A log request that is closed is the only one that changes.
LEMMA Closing ==
    ASSUME Ready, NEW l \in DOMAIN audit, NEW id, NEW error, l # NULL,
           FinishLoggingRequest(l, id, error)
    PROVE  /\ AuditGrows(l)
           /\ audit'[l].about = audit[l].about /\ audit'[l].closed
           /\ audit'[l].result = LogResult(id, error)
           /\ audit'[l].reference = IF error = NULL THEN id ELSE NULL
<1>1. audit \in Seq(LogRequests) /\ audit[l] \in LogRequests
  BY DEF Ready, TypeOK
<1>2. PICK reference, result : /\ reference = IF error = NULL THEN id ELSE NULL
                               /\ result = LogResult(id, error)
  OBVIOUS
<1>3. audit' = [audit EXCEPT ![l].closed = TRUE, ![l].result = result,
                             ![l].properties_out = error, ![l].reference = reference]
  BY <1>2 DEF FinishLoggingRequest
<1> QED
  BY <1>1, <1>2, <1>3 DEF AuditGrows, LogRequests

LEMMA NothingGrows ==
    ASSUME UNCHANGED audit, NEW l PROVE AuditGrows(l)
  BY DEF AuditGrows

-----------------------------------------------------------------------------
(* The steps of a POST. *)

\* What the handler of p is known to hold.
PostKnown(p) ==
    /\ PostFound(p) /\ PostLog(p)
    /\ post[p].log_request # NULL => post[p].log_request \in DOMAIN audit

LEMMA KnowPost ==
    ASSUME Audited, Good, Ready, Handled, NEW p \in Posts PROVE PostKnown(p)
  BY FindPost, FindTyped DEF Audited, Typed, PostKnown

\* A step that leaves its log request as it is.
LogQuiet(p) ==
    LET s == post[p]
        t == post'[p]
    IN  /\ post' = [post EXCEPT ![p] = t]
        /\ t.log_request = s.log_request
        /\ s.public_key # NULL => t.public_key = s.public_key /\ t.form = s.form
        /\ t.pc \in {"idle", "log"} => s.log_request = NULL
        /\ t.pc \in {"call", "publish", "finish"} =>
              (s.log_request = NULL /\ ~LoggerEnabled) \/ s.pc \in {"call", "publish", "finish"}
        /\ t.reply \in Pages => t.reply = s.reply
        /\ \/ UNCHANGED <<registry, audit>>
           \/ UNCHANGED registry /\ \E about : audit' = Append(audit, OpenLogRequest(about))
           \/ CreateRequest(p) /\ UNCHANGED audit /\ s.pc = "call"
        /\ UNCHANGED visit

LEMMA AuditedQuiet ==
    ASSUME Audited, Good, Ready, Handled, NEW p \in Posts, LogQuiet(p)
    PROVE  Audited'
<1>1. PostKnown(p)
  BY KnowPost
<1>2. AuditGrows(post[p].log_request)
  BY NothingGrows, Opening DEF LogQuiet
<1>3. post[p].log_request # NULL => audit'[post[p].log_request] = audit[post[p].log_request]
  <2>1. CASE UNCHANGED audit
    BY <2>1
  <2>2. CASE \E about : audit' = Append(audit, OpenLogRequest(about))
    BY <1>1, <2>2 DEF PostKnown, Ready, TypeOK
  <2> QED
    BY <2>1, <2>2 DEF LogQuiet
<1>4. RequestsOf(p)' = RequestsOf(p) \/ post[p].pc = "call"
  BY DEF LogQuiet, RequestsOf
<1>5. PostLog(p)'
  BY <1>1, <1>3, <1>4 DEF PostKnown, PostLog, LogQuiet, ClosedOk
<1>6. CreateRequest(p) /\ post[p].pc = "call" => (LoggerEnabled => post[p].log_request # NULL)
  BY <1>1 DEF PostKnown, PostLog
<1> QED
  BY <1>1, <1>2, <1>5, <1>6, PostLogFrame DEF LogQuiet

\* Most steps of a handler are such steps.
LEMMA LogsAreQuiet ==
    ASSUME Audited, Good, Ready, Handled, NEW p \in Posts,
           \/ \E f \in Submissions : SubmitInvalid(p, f)
           \/ \E f \in Submissions, k \in Keys : SubmitValid(p, f, k)
           \/ PrepareLoggingRequestFails(p) \/ ConfirmationMissing(p)
           \/ RegistryCreates(p) \/ (\E e \in RegistryErrors : RegistryRefuses(p, e))
           \/ RegistryReplyLost(p) \/ Publish(p) \/ PublishFails(p)
           \/ (FinishPostFails(p) /\ UNCHANGED audit) \/ RespondToPost(p) \/ PostWorkerDies(p)
    PROVE  LogQuiet(p)
<1>1. PostKnown(p)
  BY KnowPost
<1>2. CASE \E f \in Submissions : SubmitInvalid(p, f)
  <2>1. PICK f : /\ post' = [post EXCEPT ![p].pc = "respond", ![p].form = f,
                                        ![p].reply = "form"]
                 /\ post[p].pc = "idle" /\ UNCHANGED <<visit, audit, registry>>
    BY <1>2 DEF SubmitInvalid
  <2> QED
    BY <1>1, <2>1
       DEF PostKnown, PostFound, PostStates, PostGood, PostLog, LogQuiet, Pages
<1>3. CASE \E f \in Submissions, k \in Keys : SubmitValid(p, f, k)
  <2>1. PICK f, k, pc :
           /\ post' = [post EXCEPT ![p].pc = pc, ![p].form = f, ![p].public_key = k]
           /\ post[p].pc = "idle" /\ UNCHANGED <<visit, audit, registry>>
           /\ pc = IF LoggerEnabled THEN "log" ELSE "call"
    BY <1>3 DEF SubmitValid
  <2> QED
    BY <1>1, <2>1 DEF PostKnown, PostFound, PostStates, PostGood, PostLog, LogQuiet
<1>4. CASE PrepareLoggingRequestFails(p)
  BY <1>1, <1>4
     DEF PrepareLoggingRequestFails, PostKnown, PostFound, PostStates, PostLog, LogQuiet, Pages
<1>5. CASE ConfirmationMissing(p)
  BY <1>1, <1>5 DEF ConfirmationMissing, PostKnown, PostFound, PostStates, LogQuiet
<1>6. CASE RegistryCreates(p)
  <2>1. PICK id : post' = [post EXCEPT ![p].pc = "publish", ![p].public_request_id = id]
    BY <1>6 DEF RegistryCreates
  <2>2. post[p].pc = "call" /\ CreateRequest(p) /\ UNCHANGED <<visit, audit>>
    BY <1>6 DEF RegistryCreates
  <2> QED
    BY <1>1, <2>1, <2>2 DEF PostKnown, PostFound, PostStates, LogQuiet
<1>7. CASE \E e \in RegistryErrors : RegistryRefuses(p, e)
  <2>1. PICK error : /\ post[p].pc = "call"
                     /\ post' = [post EXCEPT ![p].pc = "finish", ![p].error = error]
                     /\ UNCHANGED <<visit, audit, registry>>
    BY <1>7 DEF RegistryRefuses
  <2> QED
    BY <1>1, <2>1 DEF PostKnown, PostFound, PostStates, LogQuiet
<1>8. CASE RegistryReplyLost(p)
  BY <1>1, <1>8 DEF RegistryReplyLost, PostKnown, PostFound, PostStates, LogQuiet
<1>9. CASE Publish(p) \/ PublishFails(p)
  BY <1>1, <1>9 DEF Publish, PublishFails, PostKnown, PostFound, PostStates, LogQuiet
<1>10. CASE FinishPostFails(p) /\ UNCHANGED audit
  BY <1>1, <1>10 DEF FinishPostFails, PostKnown, PostFound, PostStates, LogQuiet, Pages
<1>11. CASE RespondToPost(p) \/ PostWorkerDies(p)
  BY <1>1, <1>11
     DEF RespondToPost, PostWorkerDies, PostKnown, PostFound, PostStates, LogQuiet
<1> QED
  BY <1>2, <1>3, <1>4, <1>5, <1>6, <1>7, <1>8, <1>9, <1>10, <1>11

LEMMA AuditedPrepareLoggingRequest ==
    ASSUME Audited, Good, Ready, Handled, NEW p \in Posts, PrepareLoggingRequest(p)
    PROVE  Audited'
<1>1. PostKnown(p)
  BY KnowPost
<1>2. PICK l \in Nat \ DOMAIN audit :
         /\ post' = [post EXCEPT ![p].pc = "call", ![p].log_request = l]
         /\ audit'[l] = OpenLogRequest(LoggingProperties(post[p].form))
  BY Opening DEF PrepareLoggingRequest
<1>3. AuditGrows(post[p].log_request)
  BY Opening DEF PrepareLoggingRequest
<1>4. /\ post' = [post EXCEPT ![p] = post'[p]]
      /\ post'[p] = [post[p] EXCEPT !.pc = "call", !.log_request = l]
      /\ post[p].log_request = NULL /\ RequestsOf(p) = {}
      /\ post[p].public_key # NULL /\ post[p].reply = NULL
  BY <1>1, <1>2
     DEF PrepareLoggingRequest, PostKnown, PostFound, PostStates, PostGood, PostLog,
         HandledRight
<1>5. /\ audit'[l].about = LoggingProperties(post[p].form) /\ ~audit'[l].closed
  BY <1>2 DEF OpenLogRequest
<1>6. PostLog(p)'
  BY <1>1, <1>4, <1>5, NullAssumption, NullIsNoObject
     DEF PostKnown, PostFound, PostStates, PostLog
<1> QED
  BY <1>1, <1>3, <1>4, <1>6, PostLogFrame DEF PrepareLoggingRequest, PostKnown, PostFound,
     PostStates

\* "Finally" closes a log request that is open, with what happened.
\* The log is closed, whether or not the handler learns of it.
LEMMA AuditedFinishPost ==
    ASSUME Audited, Good, Ready, Handled, NEW p \in Posts,
           FinishPost(p) \/ FinishPostFails(p),
           FinishLoggingRequest(post[p].log_request, post[p].public_request_id, post[p].error)
    PROVE  Audited'
<1>1. PostKnown(p)
  BY KnowPost
<1>2. PICK l, reply : /\ l = post[p].log_request /\ reply \in {PostReply(p), "server_error"}
                      /\ post' = [post EXCEPT ![p].pc = "respond", ![p].reply = reply]
  BY DEF FinishPost, FinishPostFails
<1>3. /\ post' = [post EXCEPT ![p] = post'[p]]
      /\ post'[p] = [post[p] EXCEPT !.pc = "respond", !.reply = reply]
      /\ post[p].pc = "finish" /\ UNCHANGED <<visit, registry>>
      /\ LoggerEnabled => l # NULL
      /\ l # NULL => /\ l \in DOMAIN audit /\ post[p].public_key # NULL
                     /\ audit[l].about = LoggingProperties(post[p].form)
      /\ post'[p].log_request = l /\ post'[p].form = post[p].form
      /\ post'[p].public_key = post[p].public_key
      /\ post'[p].pc = "respond" /\ post'[p].reply = reply
  BY <1>1, <1>2 DEF FinishPost, FinishPostFails, PostKnown, PostFound, PostStates, PostLog
<1>4. /\ reply \in Pages => post[p].error = NULL
      /\ post[p].error = NULL => /\ post[p].public_request_id \in RequestsOf(p)
                                 /\ post[p].public_request_id # NULL
      /\ post[p].error # NULL => (post[p].error.kind = "known" => RequestsOf(p) = {})
  <2>1. RequestsOf(p) \subseteq Nat
    BY DEF Ready, TypeOK, RequestsOf
  <2> QED
    BY <1>1, <1>2, <1>3, <2>1, NullAssumption
       DEF PostKnown, PostFound, HandledRight, PostReply, Pages
<1>5. RequestsOf(p)' = RequestsOf(p)
  BY <1>3 DEF RequestsOf
<1>6. CASE l = NULL
  <2>1. UNCHANGED audit
    BY <1>2, <1>6 DEF FinishLoggingRequest
  <2>2. PostLog(p)'
    BY <1>3, <1>6 DEF PostLog
  <2> QED
    BY <1>2, <1>3, <2>1, <2>2, NothingGrows, PostLogFrame
<1>7. CASE l # NULL
  <2>1. /\ AuditGrows(l)
        /\ audit'[l].about = audit[l].about /\ audit'[l].closed
        /\ audit'[l].result = LogResult(post[p].public_request_id, post[p].error)
        /\ audit'[l].reference =
              IF post[p].error = NULL THEN post[p].public_request_id ELSE NULL
    BY <1>2, <1>3, <1>7, Closing
  <2>2. /\ audit'[l].result = "Fail" => RequestsOf(p) = {}
        /\ audit'[l].result = "Ok" => audit'[l].reference \in RequestsOf(p)
        /\ reply \in Pages => audit'[l].result = "Ok"
    BY <1>4, <2>1 DEF LogResult
  <2>3. PostLog(p)'
    BY <1>3, <1>5, <1>7, <2>1, <2>2 DEF PostLog, ClosedOk
  <2> QED
    BY <1>2, <1>3, <2>1, <2>3, PostLogFrame
<1> QED
  BY <1>6, <1>7

-----------------------------------------------------------------------------
(* The steps of a GET. *)

VisitKnown(v) ==
    /\ VisitFound(v) /\ VisitLog(v)
    /\ visit[v].log_request # NULL => visit[v].log_request \in DOMAIN audit

LEMMA KnowVisit ==
    ASSUME Audited, Good, Ready, NEW v \in Visits PROVE VisitKnown(v)
  BY FindVisit, FindTyped DEF Audited, Typed, VisitKnown

\* A step that leaves its log request as it is.
VisitLogQuiet(v) ==
    LET s == visit[v]
        t == visit'[v]
    IN  /\ visit' = [visit EXCEPT ![v] = t]
        /\ t.log_request = s.log_request
        /\ s.public_response # NULL => t.public_response = s.public_response
        /\ t.pc \in {"idle", "lookup", "render", "log"} => s.log_request = NULL
        /\ t.pc \in {"call", "finish"} =>
              (s.log_request = NULL /\ ~LoggerEnabled) \/ s.pc \in {"call", "finish"}
        /\ t.reply = "pdf" => s.reply = "pdf"
        /\ UNCHANGED audit \/ \E about : audit' = Append(audit, OpenLogRequest(about))
        /\ UNCHANGED <<post, registry>>

LEMMA AuditedVisitQuiet ==
    ASSUME Audited, Good, Ready, NEW v \in Visits, VisitLogQuiet(v)
    PROVE  Audited'
<1>1. VisitKnown(v)
  BY KnowVisit
<1>2. AuditGrows(visit[v].log_request)
  BY NothingGrows, Opening DEF VisitLogQuiet
<1>3. visit[v].log_request # NULL => audit'[visit[v].log_request] = audit[visit[v].log_request]
  <2>1. CASE UNCHANGED audit
    BY <2>1
  <2>2. CASE \E about : audit' = Append(audit, OpenLogRequest(about))
    BY <1>1, <2>2 DEF VisitKnown, Ready, TypeOK
  <2> QED
    BY <2>1, <2>2 DEF VisitLogQuiet
<1>4. VisitLog(v)'
  BY <1>1, <1>3 DEF VisitKnown, VisitLog, VisitLogQuiet, ClosedOk
<1> QED
  BY <1>1, <1>2, <1>4, VisitLogFrame DEF VisitLogQuiet

LEMMA VisitLogsAreQuiet ==
    ASSUME Audited, Good, Ready, NEW v \in Visits,
           \/ \E page \in Pages \cup {"pdf"}, k \in Keys : OpenPage(v, page, k)
           \/ GetResponse(v) \/ ResponseMissing(v) \/ GetResponseFails(v) \/ RenderPage(v)
           \/ PreparePdfLoggingFails(v) \/ CreatePdf(v) \/ PdfRequestNotFound(v)
           \/ (\E e \in RegistryErrors : PdfFails(v, e))
           \/ (FinishPdfFails(v) /\ UNCHANGED audit) \/ RespondToVisit(v) \/ VisitWorkerDies(v)
    PROVE  VisitLogQuiet(v)
<1>1. VisitKnown(v)
  BY KnowVisit
<1>2. CASE \E page \in Pages \cup {"pdf"}, k \in Keys : OpenPage(v, page, k)
  <2>1. PICK page, k : /\ visit' = [visit EXCEPT ![v].pc = "lookup", ![v].page = page,
                                                  ![v].public_key = k]
                       /\ visit[v].pc = "idle" /\ UNCHANGED <<audit, post, registry>>
    BY <1>2 DEF OpenPage
  <2> QED
    BY <1>1, <2>1 DEF VisitKnown, VisitFound, VisitStates, VisitLog, VisitLogQuiet
<1>3. CASE GetResponse(v)
  <2>1. PICK response, pc :
           /\ response = cache[visit[v].public_key]
           /\ pc = IF visit[v].page \in Pages THEN "render"
                   ELSE IF LoggerEnabled THEN "log" ELSE "call"
    OBVIOUS
  <2>2. visit' = [visit EXCEPT ![v].public_response = response, ![v].pc = pc]
    BY <1>3, <2>1 DEF GetResponse
  <2>3. pc \in {"render", "log", "call"} /\ (pc = "call" => ~LoggerEnabled)
    BY <2>1
  <2> QED
    BY <1>1, <1>3, <2>2, <2>3
       DEF GetResponse, VisitKnown, VisitFound, VisitStates, VisitGood, VisitLog, VisitLogQuiet
<1>4. CASE ResponseMissing(v) \/ GetResponseFails(v)
  BY <1>1, <1>4
     DEF ResponseMissing, GetResponseFails, VisitKnown, VisitFound, VisitStates, VisitLogQuiet
<1>5. CASE RenderPage(v)
  <2>1. PICK reply \in {"page", "server_error"} :
           /\ visit' = [visit EXCEPT ![v].pc = "respond", ![v].reply = reply]
           /\ UNCHANGED <<audit, post, registry>>
    BY <1>5 DEF RenderPage
  <2> QED
    BY <1>1, <2>1 DEF VisitKnown, VisitFound, VisitStates, VisitLogQuiet
<1>6. CASE PreparePdfLoggingFails(v)
  BY <1>1, <1>6
     DEF PreparePdfLoggingFails, VisitKnown, VisitFound, VisitStates, VisitLogQuiet
<1>7. CASE CreatePdf(v)
  BY <1>1, <1>7 DEF CreatePdf, VisitKnown, VisitFound, VisitStates, VisitLogQuiet
<1>8. CASE PdfRequestNotFound(v) \/ (\E e \in RegistryErrors : PdfFails(v, e))
  <2>1. PICK error : /\ visit[v].pc = "call"
                     /\ visit' = [visit EXCEPT ![v].pc = "finish", ![v].error = error]
                     /\ UNCHANGED <<audit, post, registry>>
    BY <1>8 DEF PdfRequestNotFound, PdfFails
  <2> QED
    BY <1>1, <2>1 DEF VisitKnown, VisitFound, VisitStates, VisitLogQuiet
<1>9. CASE FinishPdfFails(v) /\ UNCHANGED audit
  BY <1>1, <1>9 DEF FinishPdfFails, VisitKnown, VisitFound, VisitStates, VisitLogQuiet
<1>10. CASE RespondToVisit(v) \/ VisitWorkerDies(v)
  BY <1>1, <1>10
     DEF RespondToVisit, VisitWorkerDies, VisitKnown, VisitFound, VisitStates, VisitLogQuiet
<1> QED
  BY <1>2, <1>3, <1>4, <1>5, <1>6, <1>7, <1>8, <1>9, <1>10

LEMMA AuditedPreparePdfLogging ==
    ASSUME Audited, Good, Ready, NEW v \in Visits, PreparePdfLogging(v)
    PROVE  Audited'
<1>1. VisitKnown(v)
  BY KnowVisit
<1>2. PICK l \in Nat \ DOMAIN audit :
         /\ visit' = [visit EXCEPT ![v].pc = "call", ![v].log_request = l]
         /\ audit'[l] = OpenLogRequest(PdfLoggingProperties(visit[v].public_response))
  BY Opening DEF PreparePdfLogging
<1>3. AuditGrows(visit[v].log_request)
  BY Opening DEF PreparePdfLogging
<1>4. /\ visit' = [visit EXCEPT ![v] = visit'[v]]
      /\ visit'[v] = [visit[v] EXCEPT !.pc = "call", !.log_request = l]
      /\ visit[v].log_request = NULL /\ visit[v].public_response # NULL
      /\ visit[v].reply = NULL
  BY <1>1, <1>2
     DEF PreparePdfLogging, VisitKnown, VisitFound, VisitStates, VisitGood, VisitLog
<1>5. /\ audit'[l].about = PdfLoggingProperties(visit[v].public_response)
      /\ ~audit'[l].closed
  BY <1>2 DEF OpenLogRequest
<1>6. VisitLog(v)'
  BY <1>1, <1>4, <1>5, NullAssumption, NullIsNoObject
     DEF VisitKnown, VisitFound, VisitStates, VisitLog, ClosedOk
<1> QED
  BY <1>1, <1>3, <1>4, <1>6, VisitLogFrame
     DEF PreparePdfLogging, VisitKnown, VisitFound, VisitStates

LEMMA AuditedFinishPdf ==
    ASSUME Audited, Good, Ready, NEW v \in Visits,
           FinishPdf(v) \/ FinishPdfFails(v),
           FinishLoggingRequest(visit[v].log_request,
                                visit[v].public_response.public_request_id, visit[v].error)
    PROVE  Audited'
<1>1. VisitKnown(v)
  BY KnowVisit
<1>2. PICK l, reply, id :
         /\ l = visit[v].log_request /\ reply \in {PdfReply(v), "server_error"}
         /\ id = visit[v].public_response.public_request_id
         /\ visit' = [visit EXCEPT ![v].pc = "respond", ![v].reply = reply]
  BY DEF FinishPdf, FinishPdfFails
<1>3. /\ visit' = [visit EXCEPT ![v] = visit'[v]]
      /\ visit[v].pc = "finish" /\ UNCHANGED <<post, registry>>
      /\ LoggerEnabled => l # NULL
      /\ l # NULL => /\ l \in DOMAIN audit /\ visit[v].public_response # NULL
                     /\ audit[l].about = PdfLoggingProperties(visit[v].public_response)
      /\ visit'[v].log_request = l /\ visit'[v].public_response = visit[v].public_response
      /\ visit'[v].pc = "respond" /\ visit'[v].reply = reply
  BY <1>1, <1>2 DEF FinishPdf, FinishPdfFails, VisitKnown, VisitFound, VisitStates, VisitLog
<1>4. /\ reply = "pdf" => visit[v].error = NULL
      /\ id # NULL
  <2>1. visit[v].public_response \in Responses
    BY <1>1, <1>3 DEF VisitKnown, VisitFound, VisitStates, VisitGood
  <2>2. id \in Nat
    BY <1>2, <2>1 DEF Responses
  <2> QED
    BY <1>2, <2>2, NullAssumption DEF PdfReply
<1>5. CASE l = NULL
  <2>1. UNCHANGED audit
    BY <1>2, <1>5 DEF FinishLoggingRequest
  <2>2. VisitLog(v)'
    BY <1>3, <1>5 DEF VisitLog
  <2> QED
    BY <1>2, <1>3, <2>1, <2>2, NothingGrows, VisitLogFrame
<1>6. CASE l # NULL
  <2>1. /\ AuditGrows(l)
        /\ audit'[l].about = audit[l].about /\ audit'[l].closed
        /\ audit'[l].result = LogResult(id, visit[v].error)
        /\ audit'[l].reference = IF visit[v].error = NULL THEN id ELSE NULL
    BY <1>2, <1>3, <1>6, Closing
  <2>2. /\ audit'[l].result = "Ok" => audit'[l].reference = id
        /\ reply = "pdf" => audit'[l].result = "Ok"
    BY <1>4, <2>1 DEF LogResult
  <2>3. VisitLog(v)'
    BY <1>2, <1>3, <1>6, <2>1, <2>2 DEF VisitLog, ClosedOk
  <2> QED
    BY <1>2, <1>3, <2>1, <2>3, VisitLogFrame
<1> QED
  BY <1>5, <1>6

-----------------------------------------------------------------------------
(* The invariant. *)

\* Every step keeps log requests with their handlers.
LEMMA AuditedStep == Audited /\ Good /\ Ready /\ Handled /\ [Next]_vars => Audited'
<1> SUFFICES ASSUME Audited, Good, Ready, Handled, [Next]_vars PROVE Audited'
  OBVIOUS
<1>1. ASSUME NEW p \in Posts, \E f \in Submissions : SubmitInvalid(p, f) PROVE Audited'
  BY <1>1, LogsAreQuiet, AuditedQuiet
<1>2. ASSUME NEW p \in Posts, \E f \in Submissions, k \in Keys : SubmitValid(p, f, k)
      PROVE  Audited'
  BY <1>2, LogsAreQuiet, AuditedQuiet
<1>3. ASSUME NEW p \in Posts, PostStep(p) \/ PostWorkerDies(p) PROVE Audited'
  <2>1. CASE FinishPost(p) \/ FinishPostFails(p)
    <3>1. \/ FinishPostFails(p) /\ UNCHANGED audit
          \/ FinishLoggingRequest(post[p].log_request, post[p].public_request_id, post[p].error)
      BY <2>1 DEF FinishPost, FinishPostFails
    <3> QED
      BY <2>1, <3>1, LogsAreQuiet, AuditedQuiet, AuditedFinishPost
  <2> QED
    BY <1>3, <2>1, LogsAreQuiet, AuditedQuiet, AuditedPrepareLoggingRequest DEF PostStep
<1>4. ASSUME NEW v \in Visits, \E page \in Pages \cup {"pdf"}, k \in Keys : OpenPage(v, page, k)
      PROVE  Audited'
  BY <1>4, VisitLogsAreQuiet, AuditedVisitQuiet
<1>5. ASSUME NEW v \in Visits, VisitStep(v) \/ VisitWorkerDies(v) PROVE Audited'
  <2>1. CASE FinishPdf(v) \/ FinishPdfFails(v)
    <3>1. \/ FinishPdfFails(v) /\ UNCHANGED audit
          \/ FinishLoggingRequest(visit[v].log_request,
                                  visit[v].public_response.public_request_id, visit[v].error)
      BY <2>1 DEF FinishPdf, FinishPdfFails
    <3> QED
      BY <2>1, <3>1, VisitLogsAreQuiet, AuditedVisitQuiet, AuditedFinishPdf
  <2> QED
    BY <1>5, <2>1, VisitLogsAreQuiet, AuditedVisitQuiet, AuditedPreparePdfLogging DEF VisitStep
<1>6. ASSUME UNCHANGED <<post, visit, registry, audit>> PROVE Audited'
  BY <1>6 DEF Audited, PostLog, VisitLog, RequestLogged, LogsDiffer, Owned, ClosedOk, RequestsOf
<1>7. ASSUME NEW k \in Keys, Expire(k) PROVE Audited'
  BY <1>6, <1>7 DEF Expire
<1>8. CASE UNCHANGED vars
  BY <1>6, <1>8 DEF vars
<1> QED
  BY <1>1, <1>2, <1>3, <1>4, <1>5, <1>7, <1>8 DEF Next

LEMMA AuditedAlways == Spec => []Audited
  BY AuditedInit, AuditedStep, GoodAlways, ReadyAlways, HandledAlways, PTL DEF Spec

-----------------------------------------------------------------------------
(* What the logs tell. *)

LEMMA Submitted ==
    ASSUME Ready, NEW i \in DOMAIN registry PROVE registry[i].submitter \in Posts
<1>1. registry[i] \in RegistryRequests
  BY DEF Ready, TypeOK
<1> QED
  BY <1>1 DEF RegistryRequests

\* Two handlers share no log request, so the requests made under that of a
\* POST are the requests of the POST.
LEMMA MadeUnder ==
    ASSUME Audited, Ready, NEW p \in Posts, post[p].log_request # NULL
    PROVE  {i \in DOMAIN registry : registry[i].log_request_id = post[p].log_request}
              = RequestsOf(p)
<1>1. \A i \in DOMAIN registry :
         /\ registry[i].submitter \in Posts
         /\ registry[i].log_request_id = post[registry[i].submitter].log_request
  BY Submitted DEF Audited, RequestLogged
<1>2. \A q \in Posts : q # p => post[q].log_request # post[p].log_request
  BY DEF Audited, LogsDiffer
<1> QED
  BY <1>1, <1>2 DEF RequestsOf

\* Every request in the registry has a log request of its own, opened before
\* with the same kind of request, object and e-mail: what lies between the
\* opening and the call, and who runs in between, does not matter.
THEOREM RequestsAreLogged == Spec => []LogDescribesRequest
<1>1. ASSUME Audited, Good, Ready, Handled, LoggerEnabled, NEW i \in DOMAIN registry
      PROVE  LET command == registry[i].command
                 l == registry[i].log_request_id
             IN  /\ l \in DOMAIN audit
                 /\ audit[l].about.name = LoggedAs(command)
                 /\ audit[l].about.handle = command.handle
                 /\ audit[l].about.handleType = Subject(command)
                 /\ audit[l].about.customEmail = command.email
                 /\ \A j \in DOMAIN registry \ {i} : registry[j].log_request_id # l
  <2>1. Typed
    BY <1>1, FindTyped
  <2>2. PICK p \in Posts : p = registry[i].submitter /\ i \in RequestsOf(p)
    BY <1>1, Submitted DEF RequestsOf
  <2>3. /\ registry[i].log_request_id = post[p].log_request
        /\ post[p].log_request # NULL /\ post[p].log_request \in DOMAIN audit
        /\ audit[post[p].log_request].about = LoggingProperties(post[p].form)
    BY <1>1, <2>1, <2>2 DEF Typed, Audited, RequestLogged, PostLog
  <2>4. /\ registry[i].command = RegistryCommand(post[p].form)
        /\ post[p].form \in Submissions /\ IsValid(post[p].form)
    BY <1>1, <2>2 DEF Good, RequestGood, PostGood
  <2>5. \A j \in RequestsOf(p) : j = i
    BY <1>1, <2>2 DEF Handled, HandledRight
  <2>6. \A j \in DOMAIN registry \ {i} : registry[j].log_request_id # post[p].log_request
    BY <1>1, <2>3, <2>5, MadeUnder
  <2> QED
    BY <2>3, <2>4, <2>6, LogDescribes
<1>2. Audited /\ Good /\ Ready /\ Handled => LogDescribesRequest
  BY <1>1 DEF LogDescribesRequest
<1> QED
  BY <1>2, AuditedAlways, GoodAlways, ReadyAlways, HandledAlways, PTL

\* A closed log tells the truth about the registry, whichever handler closed
\* it and whatever failed.
THEOREM LogsAreTruthful == Spec => []AuditTruthful
<1>1. ASSUME Audited, Good, Ready, Handled, NEW l \in DOMAIN audit, audit[l].closed
      PROVE  LET made == {i \in DOMAIN registry : registry[i].log_request_id = l}
             IN  /\ audit[l].result = "Fail" => made = {}
                 /\ audit[l].result = "Ok" =>
                       IF audit[l].about.name = "NotarizedLetterPdf"
                       THEN /\ audit[l].reference \in DOMAIN registry
                            /\ audit[l].about.handle =
                                  registry[audit[l].reference].command.handle
                       ELSE made = {audit[l].reference}
  <2>1. Typed
    BY <1>1, FindTyped
  <2>2. l # NULL
    BY <2>1, NullAssumption DEF Typed
  <2> DEFINE made == {i \in DOMAIN registry : registry[i].log_request_id = l}
  <2>3. ASSUME NEW p \in Posts, post[p].log_request = l
        PROVE  /\ made = RequestsOf(p)
               /\ audit[l].result = "Fail" => made = {}
               /\ audit[l].result = "Ok" => made = {audit[l].reference}
               /\ audit[l].about.name # "NotarizedLetterPdf"
    <3>1. made = RequestsOf(p)
      BY <1>1, <2>2, <2>3, MadeUnder
    <3>2. /\ audit[l].about = LoggingProperties(post[p].form)
          /\ audit[l].result = "Fail" => RequestsOf(p) = {}
          /\ audit[l].result = "Ok" => audit[l].reference \in RequestsOf(p)
          /\ post[p].form \in Submissions /\ IsValid(post[p].form)
      BY <1>1, <2>2, <2>3 DEF Audited, PostLog, Good, PostGood
    <3>3. \A i, j \in RequestsOf(p) : i = j
      BY <1>1 DEF Handled, HandledRight
    <3>4. audit[l].about.name # "NotarizedLetterPdf"
      BY <3>2, LogDescribes DEF RequestNames
    <3> QED
      BY <3>1, <3>2, <3>3, <3>4
  <2>4. ASSUME NEW v \in Visits, visit[v].log_request = l
        PROVE  /\ made = {}
               /\ audit[l].about.name = "NotarizedLetterPdf"
               /\ audit[l].result = "Ok" =>
                     /\ audit[l].reference \in DOMAIN registry
                     /\ audit[l].about.handle =
                           registry[audit[l].reference].command.handle
    <3>1. \A p \in Posts : post[p].log_request # l
      BY <1>1, <2>2, <2>4 DEF Audited, LogsDiffer
    <3>2. made = {}
      BY <1>1, <3>1, Submitted DEF Audited, RequestLogged
    <3>3. /\ visit[v].public_response # NULL
          /\ audit[l].about = PdfLoggingProperties(visit[v].public_response)
          /\ audit[l].result = "Ok" =>
                audit[l].reference = visit[v].public_response.public_request_id
      BY <1>1, <2>2, <2>4 DEF Audited, VisitLog, ClosedOk
    <3>4. PICK q \in Posts :
             /\ post[q].public_request_id # NULL
             /\ visit[v].public_response =
                   PublicResponse(post[q].form, post[q].public_request_id)
      BY <1>1, <3>3 DEF Good, VisitGood, Published
    <3>5. /\ post[q].public_request_id \in DOMAIN registry
          /\ registry[post[q].public_request_id].submitter = q
      BY <1>1, <3>4 DEF Good, PostGood, RequestsOf
    <3>6. registry[post[q].public_request_id].command = RegistryCommand(post[q].form)
      BY <1>1, <3>5 DEF Good, RequestGood
    <3>7. /\ visit[v].public_response.public_request_id = post[q].public_request_id
          /\ visit[v].public_response.handle = post[q].form.handle
      BY <3>4 DEF PublicResponse
    <3>8. registry[post[q].public_request_id].command.handle = post[q].form.handle
      BY <3>6 DEF RegistryCommand
    <3>9. /\ audit[l].about.name = "NotarizedLetterPdf"
          /\ audit[l].about.handle = visit[v].public_response.handle
      BY <3>3 DEF PdfLoggingProperties
    <3> QED
      BY <3>2, <3>3, <3>5, <3>7, <3>8, <3>9
  <2> QED
    BY <1>1, <2>3, <2>4 DEF Audited, Owned
<1>2. Audited /\ Good /\ Ready /\ Handled => AuditTruthful
  BY <1>1 DEF AuditTruthful
<1> QED
  BY <1>2, AuditedAlways, GoodAlways, ReadyAlways, HandledAlways, PTL

\* With a logger, whoever is redirected to a page or served a PDF is in the
\* logs: the log was closed "Ok" before, with a reference to the request.
THEOREM SuccessesAreAudited == Spec => []SuccessIsAudited
<1>1. ASSUME Audited, LoggerEnabled, NEW p \in Posts, post[p].reply \in Pages
      PROVE  /\ ClosedOk(post[p].log_request)
             /\ audit[post[p].log_request].reference \in RequestsOf(p)
  BY <1>1 DEF Audited, PostLog, ClosedOk
<1>2. ASSUME Audited, LoggerEnabled, NEW v \in Visits, visit[v].reply = "pdf"
      PROVE  /\ ClosedOk(visit[v].log_request)
             /\ audit[visit[v].log_request].reference =
                   visit[v].public_response.public_request_id
  BY <1>2 DEF Audited, VisitLog, ClosedOk
<1>3. Audited => SuccessIsAudited
  BY <1>1, <1>2 DEF SuccessIsAudited
<1> QED
  BY <1>3, AuditedAlways, PTL

\* A step leaves what is closed as it is: only "finally" changes a log
\* request, and it changes the one its handler opened and nobody closed.
LEMMA ClosedStays ==
    ASSUME Audited, Good, Ready, Handled, Next, NEW l \in DOMAIN audit, audit[l].closed
    PROVE  audit'[l] = audit[l]
<1>1. ASSUME NEW k, AuditGrows(k), k = NULL \/ (k \in DOMAIN audit /\ ~audit[k].closed)
      PROVE  audit'[l] = audit[l]
  <2>1. l # NULL
    BY NullAssumption, FindTyped DEF Typed
  <2> QED
    BY <1>1, <2>1 DEF AuditGrows
<1>2. ASSUME NEW p \in Posts, FinishPost(p) \/ FinishPostFails(p) PROVE audit'[l] = audit[l]
  <2>1. /\ PostKnown(p) /\ post[p].pc = "finish"
        /\ \/ UNCHANGED audit
           \/ FinishLoggingRequest(post[p].log_request, post[p].public_request_id, post[p].error)
    BY <1>2, KnowPost DEF FinishPost, FinishPostFails
  <2>2. CASE UNCHANGED audit \/ post[p].log_request = NULL
    BY <2>1, <2>2 DEF FinishLoggingRequest
  <2>3. CASE ~UNCHANGED audit /\ post[p].log_request # NULL
    BY <1>1, <2>1, <2>3, Closing DEF PostKnown, PostLog
  <2> QED
    BY <2>2, <2>3
<1>3. ASSUME NEW v \in Visits, FinishPdf(v) \/ FinishPdfFails(v) PROVE audit'[l] = audit[l]
  <2>1. /\ VisitKnown(v) /\ visit[v].pc = "finish"
        /\ \/ UNCHANGED audit
           \/ FinishLoggingRequest(visit[v].log_request,
                                   visit[v].public_response.public_request_id, visit[v].error)
    BY <1>3, KnowVisit DEF FinishPdf, FinishPdfFails
  <2>2. CASE UNCHANGED audit \/ visit[v].log_request = NULL
    BY <2>1, <2>2 DEF FinishLoggingRequest
  <2>3. CASE ~UNCHANGED audit /\ visit[v].log_request # NULL
    BY <1>1, <2>1, <2>3, Closing DEF VisitKnown, VisitLog
  <2> QED
    BY <2>2, <2>3
<1>4. ASSUME NEW about, audit' = Append(audit, OpenLogRequest(about)) PROVE audit'[l] = audit[l]
  BY <1>1, <1>4, Opening
<1>5. ASSUME NEW p \in Posts, LogQuiet(p) \/ PrepareLoggingRequest(p) PROVE audit'[l] = audit[l]
  BY <1>4, <1>5 DEF LogQuiet, PrepareLoggingRequest
<1>6. ASSUME NEW v \in Visits, VisitLogQuiet(v) \/ PreparePdfLogging(v)
      PROVE  audit'[l] = audit[l]
  BY <1>4, <1>6 DEF VisitLogQuiet, PreparePdfLogging
<1>7. ASSUME NEW p \in Posts, \/ \E f \in Submissions : SubmitInvalid(p, f)
                              \/ \E f \in Submissions, k \in Keys : SubmitValid(p, f, k)
                              \/ PostStep(p) \/ PostWorkerDies(p)
      PROVE  audit'[l] = audit[l]
  BY <1>2, <1>5, <1>7, LogsAreQuiet DEF PostStep
<1>8. ASSUME NEW v \in Visits,
             \/ \E page \in Pages \cup {"pdf"}, k \in Keys : OpenPage(v, page, k)
             \/ VisitStep(v) \/ VisitWorkerDies(v)
      PROVE  audit'[l] = audit[l]
  BY <1>3, <1>6, <1>8, VisitLogsAreQuiet DEF VisitStep
<1>9. ASSUME NEW k \in Keys, Expire(k) PROVE audit'[l] = audit[l]
  BY <1>9 DEF Expire
<1> QED
  BY <1>7, <1>8, <1>9 DEF Next

\* What is closed never changes again, whoever else runs.
THEOREM ClosedLogsAreFinal == Spec => ClosedLogIsFinal
<1>1. /\ Audited /\ Good /\ Ready /\ Handled /\ [Next]_vars
      => [\A l \in DOMAIN audit : audit[l].closed => audit'[l] = audit[l]]_vars
  BY ClosedStays
<1> QED
  BY <1>1, AuditedAlways, GoodAlways, ReadyAlways, HandledAlways, PTL
     DEF Spec, ClosedLogIsFinal

=============================================================================
