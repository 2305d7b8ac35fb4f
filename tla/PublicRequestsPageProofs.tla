---------------------- MODULE PublicRequestsPageProofs ----------------------
(***************************************************************************)
(* Proofs about PublicRequests: what is published under a key, what the    *)
(* pages make of it, and that the handlers keep the promises of            *)
(* PublicRequestDesk, for any number of handlers and keys and any faults.  *)
(***************************************************************************)
EXTENDS PublicRequestsProofs

\* What a POST has drawn, posted and got, as far as others can come to see it.
PostGood(p) ==
    LET s == post[p]
    IN  /\ s.pc = "idle" => s.public_key = NULL
        /\ s.pc \in {"log", "call", "publish", "finish"} => s.public_key # NULL
        /\ s.pc \in {"idle", "log", "call"} => s.public_request_id = NULL
        /\ s.public_key # NULL => s.form \in Submissions /\ IsValid(s.form)
        /\ s.public_request_id # NULL =>
              s.public_key # NULL /\ s.public_request_id \in RequestsOf(p)
        /\ s.reply \in Pages => s.public_key # NULL /\ s.reply = SuccessUrl(s.form)

\* The i-th request is the command of the form of the POST that made it.
RequestGood(i) ==
    LET s == post[registry[i].submitter]
    IN  /\ s.public_key # NULL
        /\ ~ConfirmationIsMissing(s.form)
        /\ registry[i].command = RegistryCommand(s.form)

\* The response r was published under k, by the POST that drew k.
Published(k, r) ==
    \E p \in Posts :
        /\ post[p].public_key = k
        /\ post[p].public_request_id # NULL
        /\ r = PublicResponse(post[p].form, post[p].public_request_id)

\* What a visitor holds was published under the visitor's key.
VisitGood(v) ==
    LET s == visit[v]
    IN  /\ s.pc \in {"idle", "lookup"} => s.public_response = NULL
        /\ s.pc \in {"idle", "lookup", "render", "log", "call", "finish"} => s.reply = NULL
        /\ s.pc = "render" => s.page \in Pages
        /\ s.pc \in {"log", "call", "finish"} => s.page = "pdf"
        /\ s.pc \in {"render", "log", "call", "finish"} => s.public_response # NULL
        /\ s.public_response # NULL =>
              s.public_key \in Keys /\ Published(s.public_key, s.public_response)
        /\ s.reply \in {"page", "pdf"} => s.public_response # NULL
        /\ s.page \in Pages /\ s.public_response # NULL /\ s.reply # NULL =>
              s.reply = IF Renders(s.page, s.public_response) THEN "page" ELSE "server_error"

KeysDiffer ==
    \A p, q \in Posts :
        p # q /\ post[p].public_key # NULL => post[p].public_key # post[q].public_key

\* The inductive invariant, over Ready and Handled.
Good ==
    /\ \A p \in Posts : PostGood(p)
    /\ \A i \in DOMAIN registry : RequestGood(i)
    /\ \A k \in Keys : cache[k] # NULL => Published(k, cache[k])
    /\ \A v \in Visits : VisitGood(v)
    /\ KeysDiffer

-----------------------------------------------------------------------------
(* The tables that interpret a form agree. *)

\* Logger and registry are told of the same kind of request.
LEMMA NamesAgree ==
    ASSUME NEW f \in Submissions, IsValid(f)
    PROVE  LoggedAs(RegistryCommand(f)) = RequestName(f)
<1>1. f \in FormData /\ Declared(f)
  BY DeskAssumption DEF Forms
<1> DEFINE c == RegistryCommand(f)
<1>2. CASE f.view \in LockViews
  <2>1. /\ f.view \in {"block_object", "unblock_object"} /\ f.lock_type \in {"transfer", "all"}
        /\ c.operation = "create_block_unblock_request"
        /\ c.lock = LockRequestType[f.view][f.lock_type]
        /\ RequestName(f) = LoggingLockType[f.view][f.lock_type]
    BY <1>1, <1>2, NullIsNoObject
       DEF IsValid, FormData, LockViews, LockType, RegistryCommand, Operation, RequestName
  <2> HIDE DEF c
  <2>2. /\ f.view = "block_object" /\ f.lock_type = "transfer" =>
              c.lock = "block_transfer" /\ RequestName(f) = "BlockTransfer"
        /\ f.view = "block_object" /\ f.lock_type = "all" =>
              c.lock = "block_transfer_and_update" /\ RequestName(f) = "BlockChanges"
        /\ f.view = "unblock_object" /\ f.lock_type = "transfer" =>
              c.lock = "unblock_transfer" /\ RequestName(f) = "UnblockTransfer"
        /\ f.view = "unblock_object" /\ f.lock_type = "all" =>
              c.lock = "unblock_transfer_and_update" /\ RequestName(f) = "UnblockChanges"
    BY <2>1 DEF LockRequestType, LoggingLockType
  <2>3. /\ c.lock = "block_transfer" => LoggedAs(c) = "BlockTransfer"
        /\ c.lock = "block_transfer_and_update" => LoggedAs(c) = "BlockChanges"
        /\ c.lock = "unblock_transfer" => LoggedAs(c) = "UnblockTransfer"
        /\ c.lock = "unblock_transfer_and_update" => LoggedAs(c) = "UnblockChanges"
    BY <2>1 DEF LoggedAs
  <2> QED
    BY <2>1, <2>2, <2>3 DEF c
<1>3. CASE f.view \in DeliveryViews
  <2>1. /\ f.view \in {"send_password", "personal_info"}
        /\ c.operation = Operation(f) /\ c.lock = NULL
    BY <1>3 DEF RegistryCommand, DeliveryViews, LockViews
  <2> HIDE DEF c
  <2>2. CASE f.view = "send_password"
    <3>1. /\ c.operation \in {"create_authinfo_request_registry_email",
                              "create_authinfo_request_non_registry_email"}
          /\ RequestName(f) = "AuthInfo"
      BY <2>1, <2>2 DEF Operation, RequestName, LockViews
    <3> QED
      BY <2>1, <3>1, NullIsNoObject DEF LoggedAs, c
  <2>3. CASE f.view = "personal_info"
    <3>1. /\ c.operation \in {"create_personal_info_request_registry_email",
                              "create_personal_info_request_non_registry_email"}
          /\ RequestName(f) = "PersonalInfo"
      BY <2>1, <2>3 DEF Operation, RequestName, LockViews
    <3> QED
      BY <2>1, <3>1, NullIsNoObject DEF LoggedAs, c
  <2> QED
    BY <2>1, <2>2, <2>3
<1> QED
  BY <1>1, <1>2, <1>3 DEF FormData, Views

\* The response published for a form describes the command made of it.
LEMMA ResponseDescribes ==
    ASSUME NEW f \in Submissions, IsValid(f), NEW id
    PROVE  Describes(PublicResponse(f, id), RegistryCommand(f))
<1>1. f \in FormData /\ Declared(f)
  BY DeskAssumption DEF Forms
<1>2. CASE f.view \in LockViews
  <2>1. /\ f.view \in {"block_object", "unblock_object"} /\ f.lock_type \in {"transfer", "all"}
        /\ f.object_type # NULL /\ f.send_to # "custom_email"
    BY <1>1, <1>2, NullIsNoObject DEF IsValid, Declared, FormData, LockViews, LockType, SendTo
  <2> DEFINE c == RegistryCommand(f)
             r == PublicResponse(f, id)
  <2>2. /\ c.operation = "create_block_unblock_request" /\ c.object_type = f.object_type
        /\ c.handle = f.handle /\ c.confirmed_by = f.confirmation_method /\ c.email = NULL
        /\ c.lock = LockRequestType[f.view][f.lock_type]
    BY <2>1 DEF RegistryCommand, Operation, NeedsConfirmation, LockViews
  <2>3. /\ r.class = "BlockResponse" /\ r.object_type = f.object_type
        /\ r.request_type = LoggingLockType[f.view][f.lock_type]
        /\ r.handle = f.handle /\ r.custom_email = NULL
        /\ r.action = IF f.view = "block_object" THEN "block" ELSE "unblock"
        /\ r.lock_type = f.lock_type /\ r.confirmation_method = f.confirmation_method
    BY <2>1 DEF PublicResponse, ResponseClass, HandleType, RequestName, LockViews, DeliveryViews
  <2> HIDE DEF c, r
  <2>4. LoggedAs(c) = r.request_type
    BY <2>1, <2>3, NamesAgree DEF c, r, PublicResponse
  <2>5. /\ f.view = "block_object" /\ f.lock_type = "transfer" =>
              c.lock = "block_transfer" /\ r.request_type = "BlockTransfer"
        /\ f.view = "block_object" /\ f.lock_type = "all" =>
              c.lock = "block_transfer_and_update" /\ r.request_type = "BlockChanges"
        /\ f.view = "unblock_object" /\ f.lock_type = "transfer" =>
              c.lock = "unblock_transfer" /\ r.request_type = "UnblockTransfer"
        /\ f.view = "unblock_object" /\ f.lock_type = "all" =>
              c.lock = "unblock_transfer_and_update" /\ r.request_type = "UnblockChanges"
    BY <2>1, <2>2, <2>3 DEF LoggingLockType, LockRequestType
  <2>6. Subject(c) = f.object_type
    BY <2>1, <2>2 DEF Subject
  <2>7. r.request_type \notin {"AuthInfo", "PersonalInfo"}
    BY <2>1, <2>5
  <2> QED
    BY <2>1, <2>2, <2>3, <2>4, <2>5, <2>6, <2>7 DEF Describes, c, r
<1>3. CASE f.view \in DeliveryViews
  <2> DEFINE c == RegistryCommand(f)
             r == PublicResponse(f, id)
  <2>1. /\ f.view \in {"send_password", "personal_info"} /\ f.lock_type = NULL
        /\ f.view = "send_password" => f.object_type # NULL
        /\ f.view = "personal_info" => f.object_type = NULL
    BY <1>1, <1>3 DEF IsValid, Declared, DeliveryViews
  <2>2. /\ c.operation = Operation(f) /\ c.object_type = f.object_type
        /\ c.handle = f.handle
        /\ c.confirmed_by # NULL => c.confirmed_by = f.confirmation_method
        /\ c.email = IF f.send_to = "custom_email" THEN f.custom_email ELSE NULL
        /\ c.lock = NULL
    BY <2>1 DEF RegistryCommand, LockViews
  <2>3. /\ r.class = ResponseClass(f) /\ r.object_type = HandleType(f)
        /\ r.request_type = RequestName(f) /\ r.handle = f.handle
        /\ r.custom_email = IF f.send_to = "custom_email" THEN f.custom_email ELSE NULL
        /\ r.confirmation_method = f.confirmation_method
    BY DEF PublicResponse
  <2> HIDE DEF c, r
  <2>4. NULL \notin {"block_transfer", "block_transfer_and_update", "unblock_transfer",
                     "unblock_transfer_and_update"}
    BY NullIsNoObject
  <2>5. LoggedAs(c) = RequestName(f)
    BY NamesAgree DEF c
  <2>6. Subject(c) = HandleType(f)
    BY <2>1, <2>2 DEF Subject, HandleType
  <2>7. r.class = CASE LoggedAs(c) = "AuthInfo" -> "SendPasswordResponse"
                    [] LoggedAs(c) = "PersonalInfo" -> "PersonalInfoResponse"
                    [] LoggedAs(c) \notin {"AuthInfo", "PersonalInfo"} -> "BlockResponse"
    BY <2>1, <2>3, <2>5 DEF ResponseClass, RequestName, LockViews
  <2> QED
    BY <2>2, <2>3, <2>4, <2>5, <2>6, <2>7 DEF Describes, c, r
<1> QED
  BY <1>1, <1>2, <1>3 DEF FormData, Views

\* The page a form leads to presumes what its response says, and has the texts.
LEMMA PageFits ==
    ASSUME NEW f \in Submissions, IsValid(f), ~ConfirmationIsMissing(f), NEW id
    PROVE  /\ Presumes(SuccessUrl(f), PublicResponse(f, id))
           /\ Renders(SuccessUrl(f), PublicResponse(f, id))
<1>1. f \in FormData /\ Declared(f)
  BY DeskAssumption DEF Forms
<1> DEFINE r == PublicResponse(f, id)
<1>2. CASE f.view \in LockViews
  <2>1. /\ f.view \in {"block_object", "unblock_object"} /\ f.lock_type \in {"transfer", "all"}
        /\ f.send_to # "email_in_registry" /\ f.confirmation_method \in ConfirmationMethod
    BY <1>1, <1>2, NullIsNoObject
       DEF IsValid, Declared, FormData, LockViews, LockType, SendTo, ConfirmationIsMissing,
           NeedsConfirmation
  <2>2. /\ r.class = "BlockResponse"
        /\ r.action = IF f.view = "block_object" THEN "block" ELSE "unblock"
        /\ r.lock_type = f.lock_type /\ r.confirmation_method = f.confirmation_method
    BY <2>1 DEF PublicResponse, ResponseClass, LockViews, DeliveryViews
  <2> HIDE DEF r
  <2>3. SuccessUrl(f) = IF f.confirmation_method = "signed_email"
                        THEN "custom_email" ELSE "notarized_letter"
    BY <2>1 DEF SuccessUrl
  <2>4. TitleKey(r) \in {"block", "unblock"} /\ ContentKey(r) \in TextContent
    <3>1. CASE f.view = "block_object"
      BY <2>1, <2>2, <3>1 DEF TitleKey, ContentKey, LockContentKey, TextContent
    <3>2. CASE f.view = "unblock_object"
      BY <2>1, <2>2, <3>2 DEF TitleKey, ContentKey, LockContentKey, TextContent
    <3> QED
      BY <2>1, <3>1, <3>2
  <2> QED
    BY <2>1, <2>2, <2>3, <2>4
       DEF Presumes, Renders, TextTitle, TextSubject, ConfirmationMethod, r
<1>3. CASE f.view \in DeliveryViews
  <2>1. /\ f.view \in {"send_password", "personal_info"}
        /\ f.send_to \in {"email_in_registry", "custom_email"}
        /\ f.confirmation_method \in ConfirmationMethod \cup {NULL}
        /\ f.send_to = "custom_email" =>
              f.custom_email # NULL /\ f.confirmation_method \in ConfirmationMethod
    BY <1>1, <1>3
       DEF IsValid, DeliveryIsValid, FormData, SendTo, DeliveryViews, ConfirmationIsMissing,
           NeedsConfirmation
  <2>2. /\ r.class = IF f.view = "send_password"
                     THEN "SendPasswordResponse" ELSE "PersonalInfoResponse"
        /\ r.custom_email = IF f.send_to = "custom_email" THEN f.custom_email ELSE NULL
        /\ r.confirmation_method = f.confirmation_method
    BY <2>1 DEF PublicResponse, ResponseClass, LockViews
  <2> HIDE DEF r
  <2>3. /\ f.send_to = "email_in_registry" => SuccessUrl(f) = "email_in_registry"
        /\ f.send_to = "custom_email" =>
              SuccessUrl(f) = IF f.confirmation_method = "signed_email"
                              THEN "custom_email" ELSE "notarized_letter"
    BY <2>1 DEF SuccessUrl
  <2>4. TitleKey(r) \in {"send_password", "personal_info"} /\ ContentKey(r) = TitleKey(r)
    BY <2>1, <2>2 DEF TitleKey, ContentKey
  <2> QED
    BY <2>1, <2>2, <2>3, <2>4
       DEF Presumes, Renders, TextTitle, TextSubject, TextContent, ConfirmationMethod, r
<1> QED
  BY <1>1, <1>2, <1>3 DEF FormData, Views

-----------------------------------------------------------------------------
(* What is published stays true. *)

\* Before any handler runs nothing is drawn, requested or published.
LEMMA GoodInit == Init => Good
<1> SUFFICES ASSUME Init PROVE Good
  OBVIOUS
<1>1. \A p \in Posts : /\ post[p].pc = "idle" /\ post[p].public_key = NULL
                       /\ post[p].public_request_id = NULL /\ post[p].reply = NULL
  BY DEF Init, IdlePost
<1>2. \A v \in Visits : /\ visit[v].pc = "idle" /\ visit[v].public_response = NULL
                        /\ visit[v].reply = NULL
  BY DEF Init, IdleVisit
<1>3. \A p \in Posts : PostGood(p)
  BY <1>1, NullIsNoObject DEF PostGood
<1>4. \A v \in Visits : VisitGood(v)
  BY <1>2, NullIsNoObject DEF VisitGood
<1> QED
  BY <1>1, <1>3, <1>4 DEF Good, KeysDiffer, Init

\* A step may add to the registry and to what a POST has drawn and got, and
\* takes nothing of it back.
Grows ==
    /\ \A p \in Posts :
          /\ post[p].public_key # NULL =>
                post'[p].public_key = post[p].public_key /\ post'[p].form = post[p].form
          /\ post[p].public_request_id # NULL =>
                post'[p].public_request_id = post[p].public_request_id
    /\ DOMAIN registry \subseteq DOMAIN registry'
    /\ \A i \in DOMAIN registry : registry'[i] = registry[i]

\* What was published keeps its author.
LEMMA PublishedStays ==
    ASSUME \A p \in Posts : PostGood(p), Grows, NULL \notin Keys,
           NEW k \in Keys, NEW r, Published(k, r)
    PROVE  Published(k, r)'
<1>1. PICK p \in Posts : /\ post[p].public_key = k
                         /\ post[p].public_request_id # NULL
                         /\ r = PublicResponse(post[p].form, post[p].public_request_id)
  BY DEF Published
<1>2. /\ post'[p].public_key = k /\ post'[p].form = post[p].form
      /\ post'[p].public_request_id = post[p].public_request_id
  BY <1>1 DEF Grows
<1> QED
  BY <1>1, <1>2 DEF Published

\* A step that only adds keeps the invariant if it is right about what it adds.
LEMMA GoodFrame ==
    ASSUME Good, TypeOK, Grows,
           \A p \in Posts : PostGood(p)',
           KeysDiffer',
           \A i \in DOMAIN registry' : i \notin DOMAIN registry => RequestGood(i)',
           \A k \in Keys : cache'[k] \in {cache[k], NULL} \/ Published(k, cache[k])',
           \A v \in Visits : visit'[v] = visit[v] \/ VisitGood(v)'
    PROVE  Good'
<1>1. ASSUME NEW i \in DOMAIN registry' PROVE RequestGood(i)'
  <2> SUFFICES ASSUME i \in DOMAIN registry PROVE RequestGood(i)'
    OBVIOUS
  <2>1. registry[i] \in RegistryRequests
    BY DEF TypeOK
  <2>2. registry'[i] = registry[i] /\ registry[i].submitter \in Posts
    BY <2>1 DEF Grows, RegistryRequests
  <2> QED
    BY <2>2 DEF Good, RequestGood, Grows
<1>2. ASSUME NEW k \in Keys, cache'[k] # NULL PROVE Published(k, cache[k])'
  <2> SUFFICES ASSUME cache'[k] = cache[k] PROVE Published(k, cache[k])'
    BY <1>2
  <2>1. PICK r : r = cache[k] /\ Published(k, r)
    BY <1>2 DEF Good
  <2>2. Published(k, r)'
    BY <2>1, PublishedStays, NullIsNoObject DEF Good
  <2> QED
    BY <2>1, <2>2
<1>3. ASSUME NEW v \in Visits PROVE VisitGood(v)'
  <2> SUFFICES ASSUME visit'[v] = visit[v] PROVE VisitGood(v)'
    OBVIOUS
  <2>1. VisitGood(v)
    BY DEF Good
  <2>2. ASSUME visit[v].public_response # NULL
        PROVE  Published(visit[v].public_key, visit[v].public_response)'
    <3>1. PICK k, r : /\ k \in Keys /\ k = visit[v].public_key
                     /\ r = visit[v].public_response /\ Published(k, r)
      BY <2>1, <2>2 DEF VisitGood
    <3>2. Published(k, r)'
      BY <3>1, PublishedStays, NullIsNoObject DEF Good
    <3> QED
      BY <3>1, <3>2
  <2> QED
    BY <2>1, <2>2 DEF VisitGood
<1> QED
  BY <1>1, <1>2, <1>3 DEF Good

\* A step of the handler of p keeps the invariant if it is right about its own
\* POST and about what it adds.
LEMMA GoodPostFrame ==
    ASSUME Good, Ready, NEW p \in Posts,
           post' = [post EXCEPT ![p] = post'[p]],
           post[p].public_key # NULL =>
              post'[p].public_key = post[p].public_key /\ post'[p].form = post[p].form,
           post[p].public_request_id # NULL =>
              post'[p].public_request_id = post[p].public_request_id,
           post'[p].public_key \in {post[p].public_key} \cup (Keys \ DrawnKeys),
           \/ UNCHANGED registry
           \/ CreateRequest(p) /\ RequestGood(Len(registry))',
           PostGood(p)',
           \A k \in Keys : cache'[k] = cache[k] \/ Published(k, cache[k])',
           UNCHANGED visit
    PROVE  Good'
<1>1. post \in [Posts -> PostStates] /\ registry \in Seq(RegistryRequests)
  BY DEF Ready, TypeOK
<1>2. /\ DOMAIN registry \subseteq DOMAIN registry'
      /\ \A i \in DOMAIN registry : registry'[i] = registry[i]
      /\ \A i \in DOMAIN registry' : i \notin DOMAIN registry => RequestGood(i)'
      /\ \A q \in Posts \ {p} : RequestsOf(q)' = RequestsOf(q)
  <2>1. CASE UNCHANGED registry
    BY <2>1 DEF RequestsOf
  <2>2. CASE CreateRequest(p) /\ RequestGood(Len(registry))'
    <3>1. DOMAIN registry' = DOMAIN registry \cup {Len(registry')}
      BY <1>1, <2>2 DEF CreateRequest
    <3>2. \A i \in DOMAIN registry' : i \notin DOMAIN registry => i = Len(registry')
      BY <3>1
    <3>3. PICK n : n = Len(registry') /\ RequestGood(n)'
      BY <2>2
    <3>4. \A i \in DOMAIN registry' : i \notin DOMAIN registry => RequestGood(i)'
      BY <3>2, <3>3
    <3>5. \A i \in DOMAIN registry : registry'[i] = registry[i]
      BY <1>1, <2>2 DEF CreateRequest
    <3> QED
      BY <1>1, <2>2, <3>1, <3>4, <3>5, CreateRequestOf
  <2> QED
    BY <2>1, <2>2
<1>3. \A q \in Posts \ {p} : post'[q] = post[q]
  BY <1>1
<1>4. Grows
  BY <1>2, <1>3 DEF Grows
<1>5. \A q \in Posts : PostGood(q)'
  BY <1>2, <1>3 DEF Good, PostGood
<1>6. KeysDiffer'
  BY <1>1, <1>3, NullIsNoObject DEF Good, KeysDiffer, DrawnKeys
<1>7. TypeOK
  BY DEF Ready
<1> QED
  BY <1>2, <1>4, <1>5, <1>6, <1>7, GoodFrame

\* What a handler is known to hold.
PostFound(p) ==
    /\ post \in [Posts -> PostStates] /\ post[p] \in PostStates
    /\ PostReady(post[p], DOMAIN audit)
    /\ HandledRight(post[p], RequestsOf(p))
    /\ PostGood(p)

LEMMA FindPost ==
    ASSUME Good, Ready, Handled, NEW p \in Posts PROVE PostFound(p)
  BY DEF Good, Ready, TypeOK, Handled, PostFound

\* A step that nobody else sees: the handler goes on with what it has.
Quiet(p) ==
    LET s == post[p]
        t == post'[p]
    IN  /\ post' = [post EXCEPT ![p] = t]
        /\ t.public_key = s.public_key /\ t.form = s.form
        /\ t.public_request_id = s.public_request_id
        /\ t.pc # "idle"
        /\ t.pc \in {"log", "call", "publish", "finish"} => s.public_key # NULL
        /\ t.pc \in {"log", "call"} => s.public_request_id = NULL
        /\ t.reply \in Pages => s.public_key # NULL /\ t.reply = SuccessUrl(s.form)
        /\ UNCHANGED <<visit, cache, registry>>

LEMMA GoodQuiet ==
    ASSUME Good, Ready, Handled, NEW p \in Posts, Quiet(p)
    PROVE  Good'
<1>1. PostFound(p)
  BY FindPost
<1>2. RequestsOf(p)' = RequestsOf(p)
  BY DEF Quiet, RequestsOf
<1>3. PostGood(p)'
  BY <1>1, <1>2 DEF PostFound, PostGood, Quiet
<1> QED
  BY <1>3, GoodPostFrame DEF Quiet

\* Most steps of a handler are such steps.
LEMMA StepsAreQuiet ==
    ASSUME Good, Ready, Handled, NEW p \in Posts,
           \/ PrepareLoggingRequest(p) \/ PrepareLoggingRequestFails(p)
           \/ ConfirmationMissing(p) \/ (\E e \in RegistryErrors : RegistryRefuses(p, e))
           \/ FinishPost(p) \/ FinishPostFails(p)
           \/ RespondToPost(p) \/ PostWorkerDies(p)
    PROVE  Quiet(p)
<1>1. PostFound(p)
  BY FindPost
<1>2. CASE PrepareLoggingRequest(p)
  BY <1>1, <1>2, NullIsNoObject
     DEF PrepareLoggingRequest, PostFound, PostStates, PostGood, HandledRight, Quiet
<1>3. CASE PrepareLoggingRequestFails(p)
  BY <1>1, <1>3, NullIsNoObject
     DEF PrepareLoggingRequestFails, PostFound, PostStates, PostGood, Quiet, Pages
<1>4. CASE ConfirmationMissing(p)
  BY <1>1, <1>4, NullIsNoObject
     DEF ConfirmationMissing, PostFound, PostStates, PostGood, HandledRight, Quiet
<1>5. CASE \E e \in RegistryErrors : RegistryRefuses(p, e)
  <2>1. PICK error : /\ post[p].pc = "call"
                     /\ post' = [post EXCEPT ![p].pc = "finish", ![p].error = error]
                     /\ UNCHANGED <<visit, cache, registry>>
    BY <1>5 DEF RegistryRefuses
  <2> QED
    BY <1>1, <2>1, NullIsNoObject DEF PostFound, PostStates, PostGood, HandledRight, Quiet
<1>6. CASE FinishPost(p)
  <2>1. PostReply(p) \in Pages => PostReply(p) = SuccessUrl(post[p].form)
    BY DEF PostReply, Pages
  <2> QED
    BY <1>1, <1>6, <2>1 DEF FinishPost, PostFound, PostStates, PostGood, Quiet
<1>7. CASE FinishPostFails(p)
  BY <1>1, <1>7 DEF FinishPostFails, PostFound, PostStates, PostGood, Quiet, Pages
<1>8. CASE RespondToPost(p)
  BY <1>1, <1>8 DEF RespondToPost, PostFound, PostStates, PostGood, Quiet
<1>9. CASE PostWorkerDies(p)
  BY <1>1, <1>9 DEF PostWorkerDies, PostFound, PostStates, PostGood, Quiet
<1> QED
  BY <1>2, <1>3, <1>4, <1>5, <1>6, <1>7, <1>8, <1>9

LEMMA GoodSubmitInvalid ==
    ASSUME Good, Ready, Handled, NEW p \in Posts, NEW f \in Submissions, SubmitInvalid(p, f)
    PROVE  Good'
<1>1. PostFound(p)
  BY FindPost
<1>2. /\ post[p].public_key = NULL /\ post[p].public_request_id = NULL
      /\ post' = [post EXCEPT ![p] = post'[p]]
      /\ post'[p] = [post[p] EXCEPT !.pc = "respond", !.form = f, !.reply = "form"]
  BY <1>1 DEF PostFound, PostGood, PostStates, SubmitInvalid
<1>3. PostGood(p)'
  BY <1>1, <1>2 DEF PostFound, PostStates, PostGood, Pages
<1> QED
  BY <1>1, <1>2, <1>3, GoodPostFrame DEF SubmitInvalid, PostFound, PostStates

LEMMA GoodSubmitValid ==
    ASSUME Good, Ready, Handled, NEW p \in Posts, NEW f \in Submissions, NEW k \in Keys,
           SubmitValid(p, f, k)
    PROVE  Good'
<1>1. PostFound(p)
  BY FindPost
<1>2. /\ post[p].public_key = NULL /\ post[p].public_request_id = NULL /\ post[p].reply = NULL
      /\ post' = [post EXCEPT ![p] = post'[p]]
      /\ post'[p] = [post[p] EXCEPT !.pc = IF LoggerEnabled THEN "log" ELSE "call",
                                    !.form = f, !.public_key = k]
  BY <1>1 DEF PostFound, PostGood, HandledRight, PostStates, SubmitValid
<1>3. /\ post'[p].public_key = k /\ post'[p].form = f
      /\ post'[p].public_request_id = NULL /\ post'[p].reply = NULL
      /\ post'[p].pc \in {"log", "call"}
  BY <1>1, <1>2 DEF PostFound, PostStates
<1>4. PostGood(p)'
  BY <1>3, NullIsNoObject DEF PostGood, SubmitValid
<1> QED
  BY <1>1, <1>2, <1>3, <1>4, GoodPostFrame DEF SubmitValid

\* A request is created of the form its POST keeps.
LEMMA CreatesGood ==
    ASSUME Good, Ready, Handled, NEW p \in Posts,
           RegistryCreates(p) \/ RegistryReplyLost(p)
    PROVE  /\ CreateRequest(p) /\ RequestGood(Len(registry))'
           /\ RequestsOf(p)' = RequestsOf(p) \cup {Len(registry')}
           /\ Len(registry') \in Nat
<1>1. PostFound(p)
  BY FindPost
<1>2. /\ post[p].pc = "call" /\ CreateRequest(p) /\ ~ConfirmationIsMissing(post[p].form)
      /\ post'[p].form = post[p].form /\ post'[p].public_key = post[p].public_key
      /\ post[p].public_key # NULL
  BY <1>1 DEF RegistryCreates, RegistryReplyLost, PostFound, PostStates, PostGood
<1>3. registry \in Seq(RegistryRequests)
  BY DEF Ready, TypeOK
<1>4. PICK n : n = Len(registry')
  OBVIOUS
<1>5. /\ n \in Nat /\ registry'[n].submitter = p
      /\ registry'[n].command = RegistryCommand(post[p].form)
  BY <1>2, <1>3, <1>4 DEF CreateRequest
<1>6. RequestGood(n)'
  BY <1>2, <1>5 DEF RequestGood
<1> QED
  BY <1>2, <1>3, <1>4, <1>5, <1>6, CreateRequestOf

LEMMA GoodRegistryCreates ==
    ASSUME Good, Ready, Handled, NEW p \in Posts, RegistryCreates(p)
    PROVE  Good'
<1>1. PostFound(p)
  BY FindPost
<1>2. PICK n \in Nat : /\ n = Len(registry')
                       /\ post' = [post EXCEPT ![p].pc = "publish", ![p].public_request_id = n]
                       /\ RequestsOf(p)' = RequestsOf(p) \cup {n}
  BY CreatesGood DEF RegistryCreates
<1>3. /\ post' = [post EXCEPT ![p] = post'[p]]
      /\ post'[p] = [post[p] EXCEPT !.pc = "publish", !.public_request_id = n]
      /\ post[p].pc = "call" /\ post[p].public_request_id = NULL /\ post[p].reply = NULL
      /\ post[p].public_key # NULL
  BY <1>1, <1>2 DEF PostFound, PostGood, HandledRight, PostStates, RegistryCreates
<1>4. PostGood(p)'
  BY <1>1, <1>2, <1>3, NullIsNoObject DEF PostFound, PostStates, PostGood
<1> QED
  BY <1>1, <1>3, <1>4, CreatesGood, GoodPostFrame DEF RegistryCreates, PostFound, PostStates

LEMMA GoodRegistryReplyLost ==
    ASSUME Good, Ready, Handled, NEW p \in Posts, RegistryReplyLost(p)
    PROVE  Good'
<1>1. PostFound(p)
  BY FindPost
<1>2. /\ post' = [post EXCEPT ![p] = post'[p]]
      /\ post'[p] = [post[p] EXCEPT !.pc = "finish", !.error = Unexpected("COMM_FAILURE")]
      /\ post[p].pc = "call" /\ post[p].public_request_id = NULL /\ post[p].reply = NULL
      /\ post[p].public_key # NULL
  BY <1>1 DEF PostFound, PostGood, HandledRight, PostStates, RegistryReplyLost
<1>3. PostGood(p)'
  BY <1>1, <1>2, NullIsNoObject DEF PostFound, PostStates, PostGood
<1> QED
  BY <1>1, <1>2, <1>3, CreatesGood, GoodPostFrame
     DEF RegistryReplyLost, PostFound, PostStates

LEMMA GoodPublish ==
    ASSUME Good, Ready, Handled, NEW p \in Posts, Publish(p) \/ PublishFails(p)
    PROVE  Good'
<1>1. PostFound(p)
  BY FindPost
<1>2. /\ post[p].pc = "publish" /\ post[p].public_request_id # NULL /\ post[p].reply = NULL
      /\ post[p].public_key \in Keys
  BY <1>1, NullAssumption DEF PostFound, PostReady, HandledRight, Publish, PublishFails
<1>3. /\ post' = [post EXCEPT ![p] = post'[p]]
      /\ post'[p].pc = "finish" /\ post'[p].public_key = post[p].public_key
      /\ post'[p].form = post[p].form /\ post'[p].reply = post[p].reply
      /\ post'[p].public_request_id = post[p].public_request_id
  <2>1. CASE Publish(p)
    BY <1>1, <2>1 DEF PostFound, PostStates, Publish
  <2>2. CASE PublishFails(p)
    BY <1>1, <2>2 DEF PostFound, PostStates, PublishFails
  <2> QED
    BY <2>1, <2>2
<1>4. RequestsOf(p)' = RequestsOf(p)
  BY DEF Publish, PublishFails, RequestsOf
<1>5. PostGood(p)'
  BY <1>1, <1>2, <1>4, <1>3, NullIsNoObject DEF PostFound, PostGood
<1>6. ASSUME NEW k \in Keys PROVE cache'[k] = cache[k] \/ Published(k, cache[k])'
  <2>1. cache \in [Keys -> Responses \cup {NULL}]
    BY DEF Ready, TypeOK
  <2>2. CASE k # post[p].public_key
    BY <2>1, <2>2 DEF Publish, PublishFails, StoreResponse
  <2>3. CASE k = post[p].public_key
    <3>1. cache'[k] \in {cache[k], PublicResponse(post[p].form, post[p].public_request_id)}
      BY <1>2, <2>1, <2>3 DEF Publish, PublishFails, StoreResponse
    <3>2. /\ post'[p].public_key = k /\ post'[p].form = post[p].form
          /\ post'[p].public_request_id = post[p].public_request_id
      BY <1>3, <2>3
    <3> QED
      BY <1>2, <3>1, <3>2 DEF Published
  <2> QED
    BY <2>2, <2>3
<1> QED
  BY <1>2, <1>5, <1>6, <1>3, GoodPostFrame DEF Publish, PublishFails

\* A step of the handler of v keeps the invariant if it is right about its
\* own visit.
LEMMA GoodVisitFrame ==
    ASSUME Good, Ready, NEW v \in Visits,
           visit' = [visit EXCEPT ![v] = visit'[v]],
           VisitGood(v)',
           UNCHANGED <<post, registry, cache>>
    PROVE  Good'
<1>1. visit \in [Visits -> VisitStates] /\ TypeOK
  BY DEF Ready, TypeOK
<1>2. Grows
  BY DEF Grows
<1>3. \A p \in Posts : PostGood(p)'
  BY DEF Good, PostGood, RequestsOf
<1>4. KeysDiffer'
  BY DEF Good, KeysDiffer
<1>5. \A w \in Visits : visit'[w] = visit[w] \/ VisitGood(w)'
  BY <1>1
<1> QED
  BY <1>1, <1>2, <1>3, <1>4, <1>5, GoodFrame

VisitFound(v) ==
    /\ visit \in [Visits -> VisitStates] /\ visit[v] \in VisitStates
    /\ VisitReady(visit[v], DOMAIN audit)
    /\ VisitGood(v)

LEMMA FindVisit ==
    ASSUME Good, Ready, NEW v \in Visits PROVE VisitFound(v)
  BY DEF Good, Ready, TypeOK, VisitFound

\* A step that goes on with what the view found.
VisitQuiet(v) ==
    LET s == visit[v]
        t == visit'[v]
    IN  /\ visit' = [visit EXCEPT ![v] = t]
        /\ t.public_key = s.public_key /\ t.page = s.page
        /\ t.public_response = s.public_response
        /\ t.pc \notin {"idle", "lookup", "render"}
        /\ t.pc \in {"log", "call", "finish"} =>
              s.page = "pdf" /\ s.public_response # NULL /\ t.reply = NULL
        /\ t.reply \in {"page", "pdf"} => s.public_response # NULL
        /\ s.page \in Pages /\ s.public_response # NULL /\ t.reply # NULL =>
              t.reply = IF Renders(s.page, s.public_response) THEN "page" ELSE "server_error"
        /\ UNCHANGED <<post, cache, registry>>

LEMMA GoodVisitQuiet ==
    ASSUME Good, Ready, NEW v \in Visits, VisitQuiet(v)
    PROVE  Good'
<1>1. VisitFound(v)
  BY FindVisit
<1>2. visit[v].public_response # NULL =>
         Published(visit[v].public_key, visit[v].public_response)'
  BY <1>1 DEF VisitFound, VisitGood, VisitQuiet, Published
<1>3. VisitGood(v)'
  BY <1>1, <1>2 DEF VisitFound, VisitGood, VisitQuiet, Published
<1> QED
  BY <1>3, GoodVisitFrame DEF VisitQuiet

LEMMA VisitsAreQuiet ==
    ASSUME Good, Ready, NEW v \in Visits,
           \/ ResponseMissing(v) \/ GetResponseFails(v) \/ RenderPage(v)
           \/ PreparePdfLogging(v) \/ PreparePdfLoggingFails(v) \/ CreatePdf(v)
           \/ PdfRequestNotFound(v) \/ (\E e \in RegistryErrors : PdfFails(v, e))
           \/ FinishPdf(v) \/ FinishPdfFails(v)
           \/ RespondToVisit(v) \/ VisitWorkerDies(v)
    PROVE  VisitQuiet(v)
<1>1. VisitFound(v)
  BY FindVisit
<1>2. CASE ResponseMissing(v) \/ GetResponseFails(v)
  BY <1>1, <1>2
     DEF ResponseMissing, GetResponseFails, VisitFound, VisitStates, VisitGood, VisitQuiet
<1>3. CASE RenderPage(v)
  BY <1>1, <1>3 DEF RenderPage, VisitFound, VisitStates, VisitGood, VisitQuiet
<1>4. CASE PreparePdfLogging(v)
  BY <1>1, <1>4, NullIsNoObject
     DEF PreparePdfLogging, VisitFound, VisitStates, VisitGood, VisitQuiet, Pages
<1>5. CASE PreparePdfLoggingFails(v) \/ FinishPdfFails(v)
  BY <1>1, <1>5
     DEF PreparePdfLoggingFails, FinishPdfFails, VisitFound, VisitStates, VisitGood,
         VisitQuiet, Pages
<1>6. CASE CreatePdf(v)
  BY <1>1, <1>6 DEF CreatePdf, VisitFound, VisitStates, VisitGood, VisitQuiet, Pages
<1>7. CASE PdfRequestNotFound(v) \/ (\E e \in RegistryErrors : PdfFails(v, e))
  <2>1. PICK error : /\ visit[v].pc = "call"
                     /\ visit' = [visit EXCEPT ![v].pc = "finish", ![v].error = error]
                     /\ UNCHANGED <<post, cache, registry>>
    BY <1>7 DEF PdfRequestNotFound, PdfFails
  <2> QED
    BY <1>1, <2>1 DEF VisitFound, VisitStates, VisitGood, VisitQuiet, Pages
<1>8. CASE FinishPdf(v)
  <2>1. PICK reply : /\ visit[v].pc = "finish"
                     /\ visit' = [visit EXCEPT ![v].pc = "respond", ![v].reply = reply]
                     /\ UNCHANGED <<post, cache, registry>>
    BY <1>8 DEF FinishPdf
  <2> QED
    BY <1>1, <2>1 DEF VisitFound, VisitStates, VisitGood, VisitQuiet, Pages
<1>9. CASE RespondToVisit(v) \/ VisitWorkerDies(v)
  BY <1>1, <1>9
     DEF RespondToVisit, VisitWorkerDies, VisitFound, VisitStates, VisitGood, VisitQuiet
<1> QED
  BY <1>2, <1>3, <1>4, <1>5, <1>6, <1>7, <1>8, <1>9

LEMMA GoodOpenPage ==
    ASSUME Good, Ready, NEW v \in Visits, NEW page, NEW k, OpenPage(v, page, k)
    PROVE  Good'
<1>1. VisitFound(v)
  BY FindVisit
<1>2. /\ visit' = [visit EXCEPT ![v] = visit'[v]]
      /\ visit'[v].pc = "lookup" /\ visit'[v].public_response = NULL /\ visit'[v].reply = NULL
  BY <1>1 DEF VisitFound, VisitStates, VisitGood, OpenPage
<1>3. VisitGood(v)'
  BY <1>2, NullIsNoObject DEF VisitGood
<1> QED
  BY <1>2, <1>3, GoodVisitFrame DEF OpenPage

LEMMA GoodGetResponse ==
    ASSUME Good, Ready, NEW v \in Visits, GetResponse(v)
    PROVE  Good'
<1>1. VisitFound(v)
  BY FindVisit
<1>2. PICK k, r : k \in Keys /\ k = visit[v].public_key /\ r = cache[k] /\ r # NULL
  BY <1>1 DEF GetResponse, VisitFound, VisitReady
<1>3. /\ visit' = [visit EXCEPT ![v] = visit'[v]]
      /\ visit'[v].public_key = k /\ visit'[v].public_response = r
      /\ visit'[v].page = visit[v].page /\ visit'[v].reply = NULL
      /\ visit'[v].pc \in {"render", "log", "call"}
      /\ visit'[v].pc = "render" <=> visit[v].page \in Pages
  BY <1>1, <1>2 DEF GetResponse, VisitFound, VisitStates, VisitGood
<1>4. Published(k, r)'
  BY <1>2 DEF GetResponse, Good, Published
<1>5. visit[v].page \in Pages \cup {"pdf"}
  BY <1>1 DEF GetResponse, VisitFound, VisitReady
<1>6. VisitGood(v)'
  BY <1>2, <1>3, <1>4, <1>5, NullIsNoObject DEF VisitGood, Published
<1> QED
  BY <1>3, <1>6, GoodVisitFrame DEF GetResponse

LEMMA GoodExpire ==
    ASSUME Good, Ready, NEW k \in Keys, Expire(k)
    PROVE  Good'
<1>1. Grows
  BY DEF Grows, Expire
<1>2. \A p \in Posts : PostGood(p)'
  BY DEF Good, PostGood, RequestsOf, Expire
<1>3. \A l \in Keys : cache'[l] \in {cache[l], NULL}
  BY DEF Ready, TypeOK, Expire
<1> QED
  BY <1>1, <1>2, <1>3, GoodFrame DEF Good, KeysDiffer, Ready, Expire

\* Every step keeps the invariant.
LEMMA GoodStep == Good /\ Ready /\ Handled /\ [Next]_vars => Good'
<1> SUFFICES ASSUME Good, Ready, Handled, [Next]_vars PROVE Good'
  OBVIOUS
<1>1. ASSUME NEW p \in Posts, NEW f \in Submissions, SubmitInvalid(p, f) PROVE Good'
  BY <1>1, GoodSubmitInvalid
<1>2. ASSUME NEW p \in Posts, NEW f \in Submissions, NEW k \in Keys, SubmitValid(p, f, k)
      PROVE  Good'
  BY <1>2, GoodSubmitValid
<1>3. ASSUME NEW p \in Posts, PostStep(p) \/ PostWorkerDies(p) PROVE Good'
  BY <1>3, StepsAreQuiet, GoodQuiet, GoodRegistryCreates, GoodRegistryReplyLost, GoodPublish
     DEF PostStep
<1>4. ASSUME NEW v \in Visits, NEW page, NEW k, OpenPage(v, page, k) PROVE Good'
  BY <1>4, GoodOpenPage
<1>5. ASSUME NEW v \in Visits, VisitStep(v) \/ VisitWorkerDies(v) PROVE Good'
  BY <1>5, VisitsAreQuiet, GoodVisitQuiet, GoodGetResponse DEF VisitStep
<1>6. ASSUME NEW k \in Keys, Expire(k) PROVE Good'
  BY <1>6, GoodExpire
<1>7. CASE UNCHANGED vars
  BY <1>7 DEF vars, Good, PostGood, RequestGood, Published, VisitGood, KeysDiffer, RequestsOf
<1> QED
  BY <1>1, <1>2, <1>3, <1>4, <1>5, <1>6, <1>7 DEF Next

LEMMA GoodAlways == Spec => []Good
  BY GoodInit, GoodStep, ReadyAlways, HandledAlways, PTL DEF Spec

\* What a key leads to is the request of the POST that drew the key, in the
\* cache and in the hands of every visitor: right id, object, e-mail and lock,
\* for any number of handlers and whatever the cache forgets.
THEOREM KeysLeadToOwnRequests == Spec => []ResponsesDescribeRequests
<1>1. ASSUME Good, Ready, NEW k \in Keys, NEW r, Found(k, r),
             NEW p \in Posts, post[p].public_key = k
      PROVE  /\ r.public_request_id \in RequestsOf(p)
             /\ Describes(r, registry[r.public_request_id].command)
  <2>1. Published(k, r)
    BY <1>1 DEF Good, VisitGood, Found
  <2>2. PICK q \in Posts : /\ post[q].public_key = k /\ post[q].public_request_id # NULL
                           /\ r = PublicResponse(post[q].form, post[q].public_request_id)
    BY <2>1 DEF Published
  <2>3. p = q
    BY <1>1, <2>2, NullIsNoObject DEF Good, KeysDiffer
  <2>4. /\ r.public_request_id = post[p].public_request_id
        /\ post[p].public_request_id \in RequestsOf(p)
        /\ post[p].form \in Submissions /\ IsValid(post[p].form)
    BY <1>1, <2>2, <2>3, NullIsNoObject DEF Good, PostGood, PublicResponse
  <2>5. registry[r.public_request_id].command = RegistryCommand(post[p].form)
    BY <1>1, <2>4 DEF Good, RequestGood, RequestsOf
  <2> QED
    BY <2>2, <2>3, <2>4, <2>5, ResponseDescribes
<1>2. Good /\ Ready => ResponsesDescribeRequests
  BY <1>1 DEF ResponsesDescribeRequests
<1> QED
  BY <1>2, GoodAlways, ReadyAlways, PTL

\* A browser that follows its redirect and finds the response is served a
\* page that fits it, for every form the views accept.
THEOREM RedirectsLeadToPages == Spec => []RedirectFitsResponse
<1>1. ASSUME Good, NEW p \in Posts, NEW v \in Visits,
             post[p].reply \in Pages, visit[v].page = post[p].reply,
             visit[v].public_key = post[p].public_key, visit[v].public_response # NULL
      PROVE  /\ Presumes(visit[v].page, visit[v].public_response)
             /\ visit[v].reply # "server_error"
  <2>1. /\ post[p].public_key # NULL /\ post[p].reply = SuccessUrl(post[p].form)
        /\ post[p].form \in Submissions /\ IsValid(post[p].form)
    BY <1>1 DEF Good, PostGood
  <2>2. PICK q \in Posts :
           /\ post[q].public_key = visit[v].public_key /\ post[q].public_request_id # NULL
           /\ visit[v].public_response =
                 PublicResponse(post[q].form, post[q].public_request_id)
    BY <1>1 DEF Good, VisitGood, Published
  <2>3. p = q
    BY <1>1, <2>1, <2>2 DEF Good, KeysDiffer
  <2>4. ~ConfirmationIsMissing(post[p].form)
    <3>1. post[p].public_request_id \in RequestsOf(p)
      BY <1>1, <2>2, <2>3 DEF Good, PostGood
    <3> QED
      BY <1>1, <3>1 DEF Good, RequestGood, RequestsOf
  <2>5. /\ Presumes(visit[v].page, visit[v].public_response)
        /\ Renders(visit[v].page, visit[v].public_response)
    BY <1>1, <2>1, <2>2, <2>3, <2>4, PageFits
  <2>6. visit[v].reply # NULL => visit[v].reply = "page"
    BY <1>1, <2>5 DEF Good, VisitGood
  <2> QED
    BY <2>5, <2>6, NullIsNoObject
<1>2. Good => RedirectFitsResponse
  BY <1>1 DEF RedirectFitsResponse
<1> QED
  BY <1>2, GoodAlways, PTL

\* A page that found its response is served from it, whatever the cache does
\* meanwhile.
THEOREM HitsAreServed == Spec => []HitIsServed
<1>1. Good => HitIsServed
  BY DEF Good, VisitGood, HitIsServed
<1> QED
  BY <1>1, GoodAlways, PTL

-----------------------------------------------------------------------------
(* The refinement of PublicRequestDesk.  An answered GET has a page or a PDF. *)

Answers == {"page", "pdf"}

-----------------------------------------------------------------------------
(* What the desk sees of a handler. *)

LEMMA Outcomes ==
    ASSUME NEW p \in Posts, post[p].reply \in Pages \cup {"form", "server_error", NULL}
    PROVE  /\ post[p].reply = NULL <=> Outcome(p) = "open"
           /\ post[p].reply = "form" => Outcome(p) = "refused"
           /\ post[p].reply = "server_error" => Outcome(p) = "failed"
           /\ post[p].reply \in Pages => Outcome(p) = "accepted"
  BY NullIsNoObject DEF Outcome, Pages

\* The desk sees the command of the form of a POST that made its request.
LEMMA RequestKnown ==
    ASSUME Good, NEW p \in Posts, RequestsOf(p) # {}
    PROVE  Request(p) = RegistryCommand(post[p].form) /\ Request(p) \in Commands
<1>1. PICK i : i = (CHOOSE j \in RequestsOf(p) : TRUE)
  OBVIOUS
<1>2. i \in DOMAIN registry /\ registry[i].submitter = p
  BY <1>1 DEF RequestsOf
<1>3. registry[i].command = RegistryCommand(post[p].form) /\ post[p].public_key # NULL
  BY <1>2 DEF Good, RequestGood
<1>4. post[p].form \in Submissions /\ IsValid(post[p].form)
  BY <1>3 DEF Good, PostGood
<1> QED
  BY <1>1, <1>3, <1>4 DEF Request, Commands

\* A step of one form at the desk.
LEMMA DeskStep ==
    ASSUME NEW p \in Posts,
           \A q \in Posts \ {p} : Outcome(q)' = Outcome(q) /\ Request(q)' = Request(q),
           Shown' = Shown,
           \/ /\ Outcome(p)' = Outcome(p)
              /\ \/ Request(p)' = Request(p)
                 \/ Outcome(p) = "open" /\ Request(p) = NULL /\ Request(p)' \in Commands
           \/ /\ Request(p)' = Request(p) /\ Outcome(p) = "open"
              /\ \/ Outcome(p)' = "refused" /\ Request(p) = NULL
                 \/ Outcome(p)' = "accepted" /\ Request(p) # NULL
                 \/ Outcome(p)' = "failed"
    PROVE  [Desk!Next]_(Desk!vars)
<1> DEFINE outcome == [q \in Posts |-> Outcome(q)]
           request == [q \in Posts |-> Request(q)]
<1>1. PICK o, c : o = Outcome(p)' /\ c = Request(p)'
  OBVIOUS
<1>2. /\ outcome' = [outcome EXCEPT ![p] = o]
      /\ request' = [request EXCEPT ![p] = c]
      /\ outcome[p] = Outcome(p) /\ request[p] = Request(p)
  BY <1>1
<1>3. /\ o = Outcome(p) => outcome' = outcome
      /\ c = Request(p) => request' = request
  BY <1>2
<1> HIDE DEF outcome, request
<1>4. CASE o = Outcome(p) /\ c = Request(p)
  BY <1>3, <1>4 DEF Desk!vars, outcome, request
<1>5. CASE o = Outcome(p) /\ Outcome(p) = "open" /\ Request(p) = NULL /\ c \in Commands
  <2>1. Desk!Register(p, c)
    BY <1>2, <1>3, <1>5 DEF Desk!Register, outcome, request
  <2> QED
    BY <1>5, <2>1 DEF Desk!Next
<1>6. CASE c = Request(p) /\ Outcome(p) = "open" /\ o = "refused" /\ Request(p) = NULL
  <2>1. Desk!Refuse(p)
    BY <1>2, <1>3, <1>6 DEF Desk!Refuse, outcome, request
  <2> QED
    BY <2>1 DEF Desk!Next
<1>7. CASE c = Request(p) /\ Outcome(p) = "open" /\ o = "accepted" /\ Request(p) # NULL
  <2>1. Desk!Accept(p)
    BY <1>2, <1>3, <1>7 DEF Desk!Accept, outcome, request
  <2> QED
    BY <2>1 DEF Desk!Next
<1>8. CASE c = Request(p) /\ Outcome(p) = "open" /\ o = "failed"
  <2>1. Desk!Fail(p)
    BY <1>2, <1>3, <1>8 DEF Desk!Fail, outcome, request
  <2> QED
    BY <2>1 DEF Desk!Next
<1> QED
  BY <1>1, <1>4, <1>5, <1>6, <1>7, <1>8

-----------------------------------------------------------------------------
(* The steps of a POST. *)

\* What a step of the handler of p may do, as far as the desk can see.
PostMove(p) ==
    LET s == post[p]
        t == post'[p]
    IN  /\ post' = [post EXCEPT ![p] = t]
        /\ UNCHANGED visit
        /\ \/ UNCHANGED registry /\ t.reply = s.reply /\ t.public_key = s.public_key
           \/ /\ UNCHANGED registry /\ t.reply = s.reply
              /\ s.public_key = NULL /\ t.public_key \in Keys \ DrawnKeys
           \/ /\ CreateRequest(p) /\ RequestsOf(p) = {}
              /\ s.form \in Submissions /\ IsValid(s.form)
              /\ s.reply = NULL /\ t.reply = NULL /\ t.public_key = s.public_key
           \/ /\ UNCHANGED registry /\ s.reply = NULL /\ t.public_key = s.public_key
              /\ \/ t.reply = "form" /\ RequestsOf(p) = {}
                 \/ t.reply \in Pages /\ RequestsOf(p) # {}
                 \/ t.reply = "server_error"

LEMMA PostsMove ==
    ASSUME Good, Ready, Handled, NEW p \in Posts,
           \/ \E f \in Submissions : SubmitInvalid(p, f)
           \/ \E f \in Submissions, k \in Keys : SubmitValid(p, f, k)
           \/ PostStep(p) \/ PostWorkerDies(p)
    PROVE  PostMove(p)
<1>1. PostFound(p)
  BY FindPost
<1>2. CASE \E f \in Submissions : SubmitInvalid(p, f)
  <2>1. PICK f : /\ post' = [post EXCEPT ![p].pc = "respond", ![p].form = f,
                                        ![p].reply = "form"]
                 /\ post[p].pc = "idle" /\ UNCHANGED <<visit, registry>>
    BY <1>2 DEF SubmitInvalid
  <2> QED
    BY <1>1, <2>1 DEF PostFound, PostStates, HandledRight, PostMove
<1>3. CASE \E f \in Submissions, k \in Keys : SubmitValid(p, f, k)
  <2>1. PICK f, k, pc :
           /\ post' = [post EXCEPT ![p].pc = pc, ![p].form = f, ![p].public_key = k]
           /\ post[p].pc = "idle" /\ UNCHANGED <<visit, registry>>
           /\ k \in Keys \ DrawnKeys
    BY <1>3 DEF SubmitValid
  <2> QED
    BY <1>1, <2>1 DEF PostFound, PostStates, PostGood, PostMove
<1>4. CASE PrepareLoggingRequest(p)
  <2>1. PICK l : /\ post' = [post EXCEPT ![p].pc = "call", ![p].log_request = l]
                 /\ UNCHANGED <<visit, registry>>
    BY <1>4 DEF PrepareLoggingRequest
  <2> QED
    BY <1>1, <2>1 DEF PostFound, PostStates, PostMove
<1>5. CASE PrepareLoggingRequestFails(p) \/ FinishPostFails(p)
  BY <1>1, <1>5
     DEF PrepareLoggingRequestFails, FinishPostFails, PostFound, PostStates, HandledRight,
         PostMove
<1>6. CASE ConfirmationMissing(p) \/ PublishFails(p) \/ Publish(p)
  BY <1>1, <1>6
     DEF ConfirmationMissing, PublishFails, Publish, PostFound, PostStates, PostMove
<1>7. CASE RegistryCreates(p)
  <2>1. PICK id : /\ post' = [post EXCEPT ![p].pc = "publish", ![p].public_request_id = id]
                  /\ post[p].pc = "call" /\ CreateRequest(p) /\ UNCHANGED visit
    BY <1>7 DEF RegistryCreates
  <2> QED
    BY <1>1, <2>1 DEF PostFound, PostStates, PostGood, HandledRight, PostMove
<1>8. CASE RegistryReplyLost(p)
  BY <1>1, <1>8
     DEF RegistryReplyLost, PostFound, PostStates, PostGood, HandledRight, PostMove
<1>9. CASE \E e \in RegistryErrors : RegistryRefuses(p, e)
  <2>1. PICK error : /\ post' = [post EXCEPT ![p].pc = "finish", ![p].error = error]
                     /\ UNCHANGED <<visit, registry>>
    BY <1>9 DEF RegistryRefuses
  <2> QED
    BY <1>1, <2>1 DEF PostFound, PostStates, PostMove
<1>10. CASE FinishPost(p)
  <2>1. PICK reply : /\ reply = PostReply(p)
                     /\ post' = [post EXCEPT ![p].pc = "respond", ![p].reply = reply]
                     /\ post[p].pc = "finish" /\ UNCHANGED <<visit, registry>>
    BY <1>10 DEF FinishPost
  <2>2. \/ reply = "form" /\ RequestsOf(p) = {}
        \/ reply \in Pages /\ RequestsOf(p) # {}
        \/ reply = "server_error"
    BY <1>1, <2>1
       DEF PostReply, PostFound, HandledRight, SuccessUrl, Pages
  <2> QED
    BY <1>1, <2>1, <2>2 DEF PostFound, PostStates, HandledRight, PostMove
<1>11. CASE RespondToPost(p) \/ PostWorkerDies(p)
  BY <1>1, <1>11 DEF RespondToPost, PostWorkerDies, PostFound, PostStates, PostMove
<1> QED
  BY <1>2, <1>3, <1>4, <1>5, <1>6, <1>7, <1>8, <1>9, <1>10, <1>11 DEF PostStep

\* Nobody has been answered under a key that nobody has drawn.
LEMMA AnsweredKeys ==
    ASSUME Good, NEW v \in Visits, visit[v].reply \in Answers
    PROVE  \E q \in Posts : /\ post[q].public_key = visit[v].public_key
                            /\ RequestsOf(q) # {}
                            /\ visit[v].public_key \in Keys
  BY DEF Good, VisitGood, Published, PostGood, Answers

LEMMA PostsRefine ==
    ASSUME Good, Ready, Handled, NEW p \in Posts, PostMove(p)
    PROVE  [Desk!Next]_(Desk!vars)
<1>1. /\ PostFound(p) /\ registry \in Seq(RegistryRequests)
      /\ post[p].reply \in Pages \cup {"form", "server_error", NULL}
  BY FindPost DEF PostFound, PostStates, Ready, TypeOK
<1>2. \A q \in Posts \ {p} : post'[q] = post[q]
  BY <1>1 DEF PostFound, PostMove
<1>3. \A q \in Posts \ {p} : Outcome(q)' = Outcome(q)
  BY <1>2 DEF Outcome
<1>4. \A q \in Posts \ {p} : Request(q)' = Request(q)
  <2>1. CASE UNCHANGED registry
    BY <2>1 DEF Request, RequestsOf
  <2>2. CASE CreateRequest(p)
    <3>1. ASSUME NEW q \in Posts \ {p} PROVE Request(q)' = Request(q)
      <4>1. RequestsOf(q)' = RequestsOf(q)
        BY <1>1, <2>2, CreateRequestOf
      <4>2. PICK i : i = (CHOOSE j \in RequestsOf(q) : TRUE)
        OBVIOUS
      <4>3. RequestsOf(q) # {} => i \in DOMAIN registry
        BY <4>2 DEF RequestsOf
      <4>4. RequestsOf(q) # {} => registry'[i] = registry[i]
        BY <1>1, <2>2, <4>3 DEF CreateRequest
      <4> QED
        BY <4>1, <4>2, <4>4 DEF Request
    <3> QED
      BY <3>1
  <2> QED
    BY <2>1, <2>2 DEF PostMove
<1>5. Shown' = Shown
  <2>1. ASSUME NEW v \in Visits, visit[v].reply \in Answers
        PROVE  post'[p].public_key = visit[v].public_key
                  <=> post[p].public_key = visit[v].public_key
    BY <2>1, AnsweredKeys, NullIsNoObject DEF PostMove, DrawnKeys
  <2>2. \A q \in Posts, v \in Visits : visit[v].reply \in Answers =>
           (post'[q].public_key = visit[v].public_key
              <=> post[q].public_key = visit[v].public_key)
    BY <1>2, <2>1
  <2>3. UNCHANGED visit
    BY DEF PostMove
  <2> QED
    BY <2>2, <2>3 DEF Shown, Answers
<1>6. CASE UNCHANGED registry /\ post'[p].reply = post[p].reply
  <2>1. Outcome(p)' = Outcome(p) /\ Request(p)' = Request(p)
    BY <1>6 DEF Outcome, Request, RequestsOf
  <2> QED
    BY <1>3, <1>4, <1>5, <2>1, DeskStep
<1>7. CASE /\ CreateRequest(p) /\ RequestsOf(p) = {}
           /\ post[p].form \in Submissions /\ IsValid(post[p].form)
           /\ post[p].reply = NULL /\ post'[p].reply = NULL
  <2>1. Outcome(p)' = Outcome(p) /\ Outcome(p) = "open" /\ Request(p) = NULL
    BY <1>1, <1>7, Outcomes DEF Outcome, Request
  <2>2. PICK n : n = Len(registry')
    OBVIOUS
  <2>3. /\ RequestsOf(p)' = {n}
        /\ registry'[n].command = RegistryCommand(post[p].form)
    BY <1>1, <1>7, <2>2, CreateRequestOf DEF CreateRequest
  <2>4. Request(p)' \in Commands
    BY <1>7, <2>3 DEF Request, Commands
  <2> QED
    BY <1>3, <1>4, <1>5, <2>1, <2>4, DeskStep
<1>8. CASE /\ UNCHANGED registry /\ post[p].reply = NULL
           /\ \/ post'[p].reply = "form" /\ RequestsOf(p) = {}
              \/ post'[p].reply \in Pages /\ RequestsOf(p) # {}
              \/ post'[p].reply = "server_error"
  <2>1. Outcome(p) = "open" /\ Request(p)' = Request(p)
    BY <1>1, <1>8, Outcomes DEF Request, RequestsOf
  <2>2. RequestsOf(p) = {} => Request(p) = NULL
    BY DEF Request
  <2>3. RequestsOf(p) # {} => Request(p) # NULL
    BY RequestKnown, NullIsNoCommand
  <2>4. /\ post'[p].reply = "form" => Outcome(p)' = "refused"
        /\ post'[p].reply = "server_error" => Outcome(p)' = "failed"
        /\ post'[p].reply \in Pages => Outcome(p)' = "accepted"
    BY NullIsNoObject DEF Outcome, Pages
  <2> QED
    BY <1>3, <1>4, <1>5, <1>8, <2>1, <2>2, <2>3, <2>4, DeskStep
<1> QED
  BY <1>6, <1>7, <1>8 DEF PostMove

-----------------------------------------------------------------------------
(* The steps of a GET. *)

\* What a step of the handler of v may do, as far as the desk can see.
VisitMove(v) ==
    LET s == visit[v]
        t == visit'[v]
    IN  /\ visit' = [visit EXCEPT ![v] = t]
        /\ UNCHANGED <<post, registry>>
        /\ \/ t.public_key = s.public_key /\ t.reply = s.reply
           \/ s.reply \notin Answers /\ t.reply \notin Answers
           \/ /\ s.reply \notin Answers /\ t.reply \in Answers
              /\ t.public_key = s.public_key /\ s.public_response # NULL

LEMMA VisitsMove ==
    ASSUME Good, Ready, NEW v \in Visits,
           \/ \E page \in Pages \cup {"pdf"}, k \in Keys : OpenPage(v, page, k)
           \/ VisitStep(v) \/ VisitWorkerDies(v)
    PROVE  VisitMove(v)
<1>1. VisitFound(v)
  BY FindVisit
<1>2. CASE \E page \in Pages \cup {"pdf"}, k \in Keys : OpenPage(v, page, k)
  <2>1. PICK page, k : /\ visit' = [visit EXCEPT ![v].pc = "lookup", ![v].page = page,
                                                  ![v].public_key = k]
                       /\ visit[v].pc = "idle" /\ UNCHANGED <<post, registry>>
    BY <1>2 DEF OpenPage
  <2> QED
    BY <1>1, <2>1, NullIsNoObject DEF VisitFound, VisitStates, VisitGood, VisitMove, Answers
<1>3. CASE GetResponse(v)
  <2>1. PICK response, pc :
           /\ response = cache[visit[v].public_key]
           /\ pc = IF visit[v].page \in Pages THEN "render"
                   ELSE IF LoggerEnabled THEN "log" ELSE "call"
    OBVIOUS
  <2>2. visit' = [visit EXCEPT ![v].public_response = response, ![v].pc = pc]
    BY <1>3, <2>1 DEF GetResponse
  <2> QED
    BY <1>1, <1>3, <2>2 DEF GetResponse, VisitFound, VisitStates, VisitMove
<1>4. CASE ResponseMissing(v) \/ GetResponseFails(v) \/ PreparePdfLoggingFails(v)
              \/ FinishPdfFails(v)
  BY <1>1, <1>4, NullIsNoObject
     DEF ResponseMissing, GetResponseFails, PreparePdfLoggingFails, FinishPdfFails,
         VisitFound, VisitStates, VisitGood, VisitMove, Answers
<1>5. CASE RenderPage(v) \/ FinishPdf(v)
  <2>1. PICK reply : /\ visit' = [visit EXCEPT ![v].pc = "respond", ![v].reply = reply]
                     /\ visit[v].pc \in {"render", "finish"} /\ UNCHANGED <<post, registry>>
    BY <1>5 DEF RenderPage, FinishPdf
  <2> QED
    BY <1>1, <2>1, NullIsNoObject DEF VisitFound, VisitStates, VisitGood, VisitMove, Answers
<1>6. CASE PreparePdfLogging(v)
  <2>1. PICK l : /\ visit' = [visit EXCEPT ![v].pc = "call", ![v].log_request = l]
                 /\ UNCHANGED <<post, registry>>
    BY <1>6 DEF PreparePdfLogging
  <2> QED
    BY <1>1, <2>1 DEF VisitFound, VisitStates, VisitMove
<1>7. CASE CreatePdf(v) \/ RespondToVisit(v) \/ VisitWorkerDies(v)
  BY <1>1, <1>7
     DEF CreatePdf, RespondToVisit, VisitWorkerDies, VisitFound, VisitStates, VisitMove
<1>8. CASE PdfRequestNotFound(v) \/ (\E e \in RegistryErrors : PdfFails(v, e))
  <2>1. PICK error : /\ visit' = [visit EXCEPT ![v].pc = "finish", ![v].error = error]
                     /\ UNCHANGED <<post, registry>>
    BY <1>8 DEF PdfRequestNotFound, PdfFails
  <2> QED
    BY <1>1, <2>1 DEF VisitFound, VisitStates, VisitMove
<1> QED
  BY <1>2, <1>3, <1>4, <1>5, <1>6, <1>7, <1>8 DEF VisitStep

\* The desk's variables, when no POST moves.
LEMMA PostsRest ==
    ASSUME UNCHANGED <<post, registry>>
    PROVE  \A q \in Posts : Outcome(q)' = Outcome(q) /\ Request(q)' = Request(q)
  BY DEF Outcome, Request, RequestsOf

LEMMA VisitsRefine ==
    ASSUME Good, Ready, NEW v \in Visits, VisitMove(v)
    PROVE  [Desk!Next]_(Desk!vars)
<1>1. VisitFound(v) /\ UNCHANGED <<post, registry>>
  BY FindVisit DEF VisitMove
<1>2. \A w \in Visits \ {v} : visit'[w] = visit[w]
  BY <1>1 DEF VisitFound, VisitMove
<1>3. \A q \in Posts : Outcome(q)' = Outcome(q) /\ Request(q)' = Request(q)
  BY <1>1, PostsRest
<1>4. CASE \/ visit'[v].public_key = visit[v].public_key /\ visit'[v].reply = visit[v].reply
           \/ visit[v].reply \notin Answers /\ visit'[v].reply \notin Answers
  <2>1. Shown' = Shown
    BY <1>1, <1>2, <1>4 DEF Shown, Answers
  <2> QED
    BY <1>3, <2>1 DEF Desk!vars
<1>5. CASE /\ visit[v].reply \notin Answers /\ visit'[v].reply \in Answers
           /\ visit'[v].public_key = visit[v].public_key
           /\ visit[v].public_response # NULL
  <2>1. PICK q \in Posts : /\ post[q].public_key = visit[v].public_key
                           /\ RequestsOf(q) # {} /\ post[q].public_key # NULL
    BY <1>1, <1>5 DEF VisitFound, VisitGood, Published, Good, PostGood
  <2>2. \A p \in Posts : post[p].public_key = visit[v].public_key => p = q
    BY <2>1 DEF Good, KeysDiffer
  <2>3. Shown' = Shown \cup {q}
    BY <1>1, <1>2, <1>5, <2>1, <2>2 DEF Shown, Answers
  <2>4. Request(q) # NULL
    BY <2>1, RequestKnown, NullIsNoCommand
  <2>5. Desk!Show(q)
    BY <1>3, <2>3, <2>4 DEF Desk!Show
  <2> QED
    BY <2>5 DEF Desk!Next
<1> QED
  BY <1>4, <1>5 DEF VisitMove

-----------------------------------------------------------------------------
(* The refinement. *)

LEMMA DeskInit == Init => Desk!Init
<1> SUFFICES ASSUME Init PROVE Desk!Init
  OBVIOUS
<1>1. \A p \in Posts : post[p].reply = NULL
  BY DEF Init, IdlePost
<1>2. \A p \in Posts : Outcome(p) = "open" /\ Request(p) = NULL
  BY <1>1, NullIsNoObject DEF Outcome, Request, RequestsOf, Init
<1>3. Shown = {}
  BY NullIsNoObject DEF Shown, Init, IdleVisit
<1> QED
  BY <1>2, <1>3 DEF Desk!Init

LEMMA DeskNext == Good /\ Ready /\ Handled /\ [Next]_vars => [Desk!Next]_(Desk!vars)
<1> SUFFICES ASSUME Good, Ready, Handled, [Next]_vars PROVE [Desk!Next]_(Desk!vars)
  OBVIOUS
<1>1. ASSUME NEW p \in Posts, \/ \E f \in Submissions : SubmitInvalid(p, f)
                              \/ \E f \in Submissions, k \in Keys : SubmitValid(p, f, k)
                              \/ PostStep(p) \/ PostWorkerDies(p)
      PROVE  [Desk!Next]_(Desk!vars)
  BY <1>1, PostsMove, PostsRefine
<1>2. ASSUME NEW v \in Visits,
             \/ \E page \in Pages \cup {"pdf"}, k \in Keys : OpenPage(v, page, k)
             \/ VisitStep(v) \/ VisitWorkerDies(v)
      PROVE  [Desk!Next]_(Desk!vars)
  BY <1>2, VisitsMove, VisitsRefine
<1>3. ASSUME UNCHANGED <<post, visit, registry>> PROVE [Desk!Next]_(Desk!vars)
  <2>1. Shown' = Shown
    BY <1>3 DEF Shown
  <2> QED
    BY <1>3, <2>1, PostsRest DEF Desk!vars
<1>4. ASSUME NEW k \in Keys, Expire(k) PROVE [Desk!Next]_(Desk!vars)
  BY <1>3, <1>4 DEF Expire
<1>5. CASE UNCHANGED vars
  BY <1>3, <1>5 DEF vars
<1> QED
  BY <1>1, <1>2, <1>4, <1>5 DEF Next

\* However handlers interleave and whatever fails, the public request pages
\* keep the promises of the desk: a form reaches the registry at most once,
\* the answer is not wrong about it, and visitors see only what was made.
THEOREM RequestsImplementDesk == Spec => ImplementsDesk
  BY DeskInit, DeskNext, GoodAlways, ReadyAlways, HandledAlways, PTL
     DEF Spec, ImplementsDesk, Desk!Spec

=============================================================================
