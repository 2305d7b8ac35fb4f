------------------------- MODULE PublicRequestForms -------------------------
(***************************************************************************)
(* The four public request forms of webwhois - send password (AuthInfo),   *)
(* personal info, block object, unblock object - as pure operators: which  *)
(* posted data the forms accept, what the views tell the logger, which     *)
(* registry command they issue, which response they publish and which page *)
(* they redirect to.                                                       *)
(***************************************************************************)
EXTENDS Naturals

CONSTANTS
    Handles,    \* handles of registry objects a browser can enter
    Emails,     \* e-mail addresses a browser can enter
    NULL        \* Python's None, and a value a field's own validator refused

\* None is told apart from every value it can stand beside.
ASSUME NullAssumption ==
    /\ NULL \notin Nat
    /\ NULL \notin Handles
    /\ NULL \notin Emails
    /\ NULL \notin STRING

-----------------------------------------------------------------------------
(* The fields. *)

ObjectType == {"domain", "contact", "nsset", "keyset"}
ConfirmationMethod == {"signed_email", "notarized_letter", "government"}
SendTo == {"email_in_registry", "custom_email"}
LockType == {"transfer", "all"}

DeliveryViews == {"send_password", "personal_info"}
LockViews == {"block_object", "unblock_object"}
Views == DeliveryViews \cup LockViews

\* What the fields made of a POST.  NULL in a required field means the field
\* was missing or refused; in "confirmation_method", that none was selected;
\* in "custom_email", that it was left empty.  A field the form of "view"
\* does not have is NULL.
FormData ==
    [view                : Views,
     object_type         : ObjectType \cup {NULL},
     handle              : Handles \cup {NULL},
     send_to             : SendTo \cup {NULL},
     custom_email        : Emails \cup {NULL},
     confirmation_method : ConfirmationMethod \cup {NULL},
     lock_type           : LockType \cup {NULL}]

\* Only the fields the form declares are read from the POST.
Declared(f) ==
    /\ f.view = "personal_info" => f.object_type = NULL
    /\ f.view \in DeliveryViews => f.lock_type = NULL
    /\ f.view \in LockViews => f.send_to = NULL /\ f.custom_email = NULL

Forms == {f \in FormData : Declared(f)}

-----------------------------------------------------------------------------
(* Validation. *)

\* DeliveryField.validate
DeliveryIsValid(f) ==
    /\ f.send_to # NULL
    /\ f.send_to = "email_in_registry" => f.custom_email = NULL
    /\ f.send_to = "custom_email" => f.custom_email # NULL

\* SendPasswordForm.clean
LetterGoesToCustomEmail(f) ==
    f.confirmation_method \in ConfirmationMethod \ {"signed_email"}
        => f.send_to = "custom_email"

\* form.is_valid()
IsValid(f) ==
    /\ f.handle # NULL
    /\ f.view # "personal_info" => f.object_type # NULL
    /\ f.view \in DeliveryViews => DeliveryIsValid(f) /\ LetterGoesToCustomEmail(f)
    /\ f.view \in LockViews => f.lock_type # NULL

-----------------------------------------------------------------------------
(* What a valid form makes the views do. *)

LoggingLockType ==
    [block_object   |-> [transfer |-> "BlockTransfer", all |-> "BlockChanges"],
     unblock_object |-> [transfer |-> "UnblockTransfer", all |-> "UnblockChanges"]]

RequestNames ==
    {"AuthInfo", "PersonalInfo",
     "BlockTransfer", "BlockChanges", "UnblockTransfer", "UnblockChanges"}

RequestName(f) ==
    CASE f.view = "send_password" -> "AuthInfo"
      [] f.view = "personal_info" -> "PersonalInfo"
      [] f.view \in LockViews -> LoggingLockType[f.view][f.lock_type]

\* The type of the object: the personal info form is about contacts only.
HandleType(f) == IF f.view = "personal_info" THEN "contact" ELSE f.object_type

\* _get_logging_request_name_and_properties
LoggingProperties(f) ==
    [name          |-> RequestName(f),
     handle        |-> f.handle,
     handleType    |-> HandleType(f),
     sendTo        |-> f.send_to,
     confirmMethod |-> f.confirmation_method,
     customEmail   |-> f.custom_email]

\* Mutant: the unblock view asks for the block of a transfer.
LockRequestTypeMixedUp ==
    [block_object   |-> [transfer |-> "block_transfer",
                         all      |-> "block_transfer_and_update"],
     unblock_object |-> [transfer |-> "block_transfer",
                         all      |-> "unblock_transfer_and_update"]]

\* _get_lock_type
LockRequestType ==
    [block_object   |-> [transfer |-> "block_transfer",
                         all      |-> "block_transfer_and_update"],
     unblock_object |-> [transfer |-> "unblock_transfer",
                         all      |-> "unblock_transfer_and_update"]]

\* The command looks its confirmation method up in CONFIRMATION_METHOD_IDL_MAP,
\* which has no entry for None: evaluating the argument raises KeyError.
NeedsConfirmation(f) == f.view \in LockViews \/ f.send_to = "custom_email"
ConfirmationIsMissing(f) == NeedsConfirmation(f) /\ f.confirmation_method = NULL

Operation(f) ==
    CASE f.view \in LockViews -> "create_block_unblock_request"
      [] f.view = "send_password" /\ f.send_to = "custom_email" ->
            "create_authinfo_request_non_registry_email"
      [] f.view = "send_password" /\ f.send_to # "custom_email" ->
            "create_authinfo_request_registry_email"
      [] f.view = "personal_info" /\ f.send_to = "custom_email" ->
            "create_personal_info_request_non_registry_email"
      [] f.view = "personal_info" /\ f.send_to # "custom_email" ->
            "create_personal_info_request_registry_email"

\* The call _call_registry_command makes: a parameter the operation does not
\* have is NULL.
RegistryCommand(f) ==
    [operation    |-> Operation(f),
     object_type  |-> f.object_type,
     handle       |-> f.handle,
     confirmed_by |-> IF NeedsConfirmation(f) THEN f.confirmation_method ELSE NULL,
     email        |-> IF f.send_to = "custom_email" THEN f.custom_email ELSE NULL,
     lock         |-> IF f.view \in LockViews
                      THEN LockRequestType[f.view][f.lock_type] ELSE NULL]

\* The registry exceptions each view shows as an error of the form.
KnownErrors(f) ==
    CASE f.view = "send_password" ->
            {"OBJECT_NOT_FOUND", "OBJECT_TRANSFER_PROHIBITED", "INVALID_EMAIL"}
      [] f.view = "personal_info" -> {"OBJECT_NOT_FOUND", "INVALID_EMAIL"}
      [] f.view \in LockViews ->
            {"OBJECT_NOT_FOUND", "OBJECT_ALREADY_BLOCKED", "OBJECT_NOT_BLOCKED",
             "HAS_DIFFERENT_BLOCK", "OPERATION_PROHIBITED"}

ResponseClass(f) ==
    CASE f.view = "send_password" -> "SendPasswordResponse"
      [] f.view = "personal_info" -> "PersonalInfoResponse"
      [] f.view \in LockViews -> "BlockResponse"

\* Mutant: the object type is taken from the form, which of personal info has none.
PublicResponseOfFormType(f, public_request_id) ==
    [class               |-> ResponseClass(f),
     object_type         |-> f.object_type,
     public_request_id   |-> public_request_id,
     request_type        |-> RequestName(f),
     handle              |-> f.handle,
     custom_email        |-> f.custom_email,
     action              |-> NULL,
     lock_type           |-> f.lock_type,
     confirmation_method |-> f.confirmation_method]

\* get_public_response of the form views: the object that is cached.
PublicResponse(f, public_request_id) ==
    [class               |-> ResponseClass(f),
     object_type         |-> HandleType(f),
     public_request_id   |-> public_request_id,
     request_type        |-> RequestName(f),
     handle              |-> f.handle,
     custom_email        |-> IF f.send_to = "custom_email" THEN f.custom_email ELSE NULL,
     action              |-> CASE f.view = "block_object" -> "block"
                               [] f.view = "unblock_object" -> "unblock"
                               [] f.view \in DeliveryViews -> NULL,
     lock_type           |-> f.lock_type,
     confirmation_method |-> f.confirmation_method]

\* Mutant: the page is chosen by the confirmation method alone.
SuccessUrlByMethod(f) ==
    CASE f.confirmation_method = NULL -> "email_in_registry"
      [] f.confirmation_method = "signed_email" -> "custom_email"
      [] f.confirmation_method \in {"notarized_letter", "government"} -> "notarized_letter"

\* get_success_url of the form views: the page the browser is sent to.
SuccessUrl(f) ==
    CASE f.send_to = "email_in_registry" -> "email_in_registry"
      [] f.send_to # "email_in_registry" /\ f.confirmation_method = "signed_email" ->
            "custom_email"
      [] f.send_to # "email_in_registry" /\ f.confirmation_method # "signed_email" ->
            "notarized_letter"

-----------------------------------------------------------------------------
(* The response pages. *)

Pages == {"email_in_registry", "custom_email", "notarized_letter"}

\* The tables of texts the pages for custom e-mails and letters look up.  The
\* rows by object type are complete in each.
TextTitle == {"send_password", "personal_info", "block_transfer", "block", "unblock"}
TextSubject == {"send_password", "personal_info", "block", "unblock"}
TextContent ==
    {"send_password", "personal_info", "block_transfer", "block_all",
     "unblock_transfer", "unblock_all"}

\* The row of a title or a subject.
TitleKey(response) ==
    CASE response.class = "SendPasswordResponse" -> "send_password"
      [] response.class = "PersonalInfoResponse" -> "personal_info"
      [] response.class = "BlockResponse" -> response.action

\* The row of a content: '%s_%s' % (action, lock_type) for a lock.
LockContentKey ==
    [block   |-> [transfer |-> "block_transfer", all |-> "block_all"],
     unblock |-> [transfer |-> "unblock_transfer", all |-> "unblock_all"]]

ContentKey(response) ==
    IF response.class = "BlockResponse"
    THEN LockContentKey[response.action][response.lock_type]
    ELSE TitleKey(response)

\* get_context_data of the page finds its texts for the response, instead of
\* stopping at a missing row or at the assertion of EmailInRegistryView.
Renders(page, response) ==
    CASE page = "email_in_registry" -> response.class # "BlockResponse"
      [] page = "notarized_letter" -> TitleKey(response) \in TextTitle
      [] page = "custom_email" ->
            /\ TitleKey(response) \in TextTitle \cap TextSubject
            /\ ContentKey(response) \in TextContent

\* _get_logging_request_name_and_properties of ServeNotarizedLetterView
PdfLoggingProperties(response) ==
    [name         |-> "NotarizedLetterPdf",
     handle       |-> response.handle,
     objectType   |-> response.object_type,
     documentType |-> response.request_type,
     customEmail  |-> response.custom_email]

=============================================================================
