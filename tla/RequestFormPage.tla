--------------------------- MODULE RequestFormPage ---------------------------
(***************************************************************************)
(* A page with a public request form, in a browser.  The user fills it in; *)
(* webwhois.js, where the browser runs it, empties and disables the inputs *)
(* that do not go with the chosen delivery and refuses to send an          *)
(* incomplete form; the server validates what is sent and shows the form   *)
(* again or redirects.  The script and the form were written apart and     *)
(* must agree.                                                             *)
(***************************************************************************)
EXTENDS PublicRequestForms

VARIABLES
    page,   \* the inputs of the page as the browser shows them
    reply   \* what the server answered last, until the user does something

vars == <<page, reply>>

\* Text in the e-mail input that EmailField refuses.
Refused == "not an address"

\* Text in the handle input that is longer than the field takes.
TooLong == "more than 255 characters"

\* An empty input shows none of the options.
ASSUME NullIsNoOption ==
    NULL \notin {Refused, TooLong, "form"} \cup ObjectType \cup SendTo \cup LockType
                   \cup ConfirmationMethod

ASSUME HandlesAreShort == TooLong \notin Handles

\* What the user can leave in the handle input: a text, NULL where there is
\* none, with or without blanks around it.
HandleInputs == [text : Handles \cup {TooLong, NULL}, blanks : BOOLEAN]

Empty == [text |-> NULL, blanks |-> FALSE]

PageStates ==
    [view            : Views,
     script          : BOOLEAN,                    \* webwhois.js runs here
     object_type     : ObjectType \cup {NULL},
     handle          : HandleInputs,
     send_to         : SendTo \cup {NULL},         \* send_to_0, the radio
     email           : Emails \cup {Refused, NULL},  \* send_to_1
     email_disabled  : BOOLEAN,                    \* and not "required"
     method          : ConfirmationMethod,
     method_disabled : BOOLEAN,
     lock_type       : LockType \cup {NULL}]

TypeOK ==
    /\ page \in PageStates
    /\ reply \in Pages \cup {"form", "server_error", "incomplete", NULL}

Delivery(g) == g.view \in DeliveryViews
InRegistry(g) == g.send_to = "email_in_registry"

-----------------------------------------------------------------------------
(* The script. *)

\* The inputs an e-mail in the registry does without.
Closed(g) == [g EXCEPT !.email = NULL, !.email_disabled = TRUE, !.method_disabled = TRUE]

\* $(document).ready
Ready(g) ==
    IF ~g.script \/ ~Delivery(g) THEN g
    ELSE IF InRegistry(g) THEN Closed(g)
    ELSE [g EXCEPT !.email_disabled = FALSE]

\* Mutant: the confirmation method is disabled as it was left.
ClickedKeepsMethod(g) ==
    IF ~g.script THEN g
    ELSE IF InRegistry(g) THEN Closed(g)
    ELSE [g EXCEPT !.email_disabled = FALSE, !.method_disabled = FALSE]

\* Mutant: a custom e-mail does not enable the confirmation method.
ClickedKeepsDisabled(g) ==
    IF ~g.script THEN g
    ELSE IF InRegistry(g) THEN [Closed(g) EXCEPT !.method = "signed_email"]
    ELSE [g EXCEPT !.email_disabled = FALSE]

\* The click handler of the radio, which has just been checked.
Clicked(g) ==
    IF ~g.script THEN g
    ELSE IF InRegistry(g) THEN [Closed(g) EXCEPT !.method = "signed_email"]
    ELSE [g EXCEPT !.email_disabled = FALSE, !.method_disabled = FALSE]

\* The change handler of the confirmation method.
MethodChanged(g) ==
    IF g.script /\ Delivery(g) /\ g.method = "notarized_letter"
    THEN [g EXCEPT !.send_to = "custom_email", !.email_disabled = FALSE]
    ELSE g

\* Mutant: the e-mail input is not looked at.
RequiresHandle(g) == g.handle # Empty

\* The submit handler lets the form go: no "required" input is empty.  Blanks
\* are not nothing, and the length of the handle is not looked at.
IsComplete(g) ==
    /\ g.handle # Empty
    /\ Delivery(g) /\ ~g.email_disabled => g.email # NULL

-----------------------------------------------------------------------------
(* The server. *)

\* get_initial and the initial values of the fields: where the URL names no
\* value, the browser selects the first option.  A personal info form reads
\* nothing from the URL.
Initial(view, script, handle, object_type, send_to, lock_type) ==
    [view            |-> view,
     script          |-> script,
     object_type     |-> IF view = "personal_info" THEN NULL ELSE object_type,
     handle          |-> IF view = "personal_info" THEN Empty ELSE handle,
     send_to         |-> CASE view = "send_password" -> send_to
                           [] view = "personal_info" -> "email_in_registry"
                           [] view \in LockViews -> NULL,
     email           |-> NULL,
     email_disabled  |-> FALSE,
     method          |-> "signed_email",
     method_disabled |-> FALSE,
     lock_type       |-> IF view \in LockViews THEN lock_type ELSE NULL]

\* What a CharField of at most 255 characters makes of a text: blanks around it
\* are stripped before the rest is looked at.
CleanedHandle(input) == IF input.text = TooLong THEN NULL ELSE input.text

\* What the fields make of the inputs sent: a disabled one is not, and an
\* e-mail refused by its field takes the whole of "send_to" with it.
Posted(g) ==
    [view                |-> g.view,
     object_type         |-> g.object_type,
     handle              |-> CleanedHandle(g.handle),
     send_to             |-> IF g.email = Refused THEN NULL ELSE g.send_to,
     custom_email        |-> IF g.email = Refused THEN NULL ELSE g.email,
     confirmation_method |-> IF g.method_disabled THEN NULL ELSE g.method,
     lock_type           |-> g.lock_type]

\* What the view replies: the outcome of the registry's call is open.
Replies(f) ==
    IF ~IsValid(f) THEN {"form"}
    ELSE IF ConfirmationIsMissing(f) THEN {"server_error"}
    ELSE {"form", "server_error", SuccessUrl(f)}

\* Mutant: the method that was not sent is shown as none.
ShownAgainBlank(g) ==
    [g EXCEPT !.email = IF g.email_disabled THEN NULL ELSE g.email,
              !.email_disabled = FALSE,
              !.method = IF g.method_disabled THEN NULL ELSE g.method,
              !.method_disabled = FALSE]

\* The bound form shown again: what was sent, its blanks included, nothing
\* disabled, and the first confirmation method if none was sent.
ShownAgain(g) ==
    [g EXCEPT !.email = IF g.email_disabled THEN NULL ELSE g.email,
              !.email_disabled = FALSE,
              !.method = IF g.method_disabled THEN "signed_email" ELSE g.method,
              !.method_disabled = FALSE]

-----------------------------------------------------------------------------
(* The user.  From an answer of the server the browser can go back to the   *)
(* page it was sent from, so every action is open whatever the reply was.   *)
(* Nothing depends on the object type and the lock type: they stay as the   *)
(* page first showed them, any of their values.                             *)

Init ==
    /\ reply = NULL
    /\ \E view \in Views, script \in BOOLEAN, handle \in HandleInputs,
          object_type \in ObjectType, send_to \in SendTo, lock_type \in LockType :
          page = Ready(Initial(view, script, handle, object_type, send_to, lock_type))

ClickSendTo(choice) ==
    /\ Delivery(page)
    /\ page' = Clicked([page EXCEPT !.send_to = choice])
    /\ reply' = NULL

TypeEmail(email) ==
    /\ Delivery(page) /\ ~page.email_disabled
    /\ page' = [page EXCEPT !.email = email]
    /\ reply' = NULL

ChooseMethod(method) ==
    /\ ~page.method_disabled
    /\ method # page.method
    /\ page' = MethodChanged([page EXCEPT !.method = method])
    /\ reply' = NULL

TypeHandle(handle) ==
    /\ page' = [page EXCEPT !.handle = handle]
    /\ reply' = NULL

\* The page is loaded again; the browser puts back the inputs' values before
\* the script starts, and some browsers also what was disabled.
Reload ==
    /\ \E kept \in BOOLEAN :
          page' = Ready([page EXCEPT !.email_disabled = kept /\ @,
                                     !.method_disabled = kept /\ @])
    /\ reply' = NULL

\* The script refuses to send the form.
SendRefused ==
    /\ page.script /\ ~IsComplete(page)
    /\ reply' = "incomplete"
    /\ UNCHANGED page

Send ==
    /\ page.script => IsComplete(page)
    /\ reply' \in Replies(Posted(page))
    /\ page' = IF reply' = "form" THEN Ready(ShownAgain(page)) ELSE page

Next ==
    \/ \E choice \in SendTo : ClickSendTo(choice)
    \/ \E email \in Emails \cup {Refused, NULL} : TypeEmail(email)
    \/ \E method \in ConfirmationMethod : ChooseMethod(method)
    \/ \E handle \in HandleInputs : TypeHandle(handle)
    \/ Reload
    \/ SendRefused
    \/ Send

Spec == Init /\ [][Next]_vars

-----------------------------------------------------------------------------
(* Properties. *)

\* Where the script runs, the inputs follow the radio whatever the user does
\* and however often the page comes back: for an e-mail in the registry both
\* are disabled, the address empty and the method back at the default; for a
\* custom e-mail both are open (webwhois.js keeps this in four handlers).
InputsFollowChoice ==
    page.script /\ Delivery(page) =>
        /\ page.email_disabled <=> InRegistry(page)
        /\ page.method_disabled <=> InRegistry(page)
        /\ InRegistry(page) => page.email = NULL /\ page.method = "signed_email"

\* A field takes the text the user left in it, whatever the other inputs hold.
TextsAreAccepted(g) == CleanedHandle(g.handle) # NULL /\ g.email # Refused

\* What the script lets through, the form refuses only for the text of one
\* input, which the script does not look at - a handle that is blank or too
\* long, an address that is none - and then always: nobody is sent back for a
\* combination of inputs the script left on the page (the submit handler of
\* webwhois.js against DeliveryField.validate and SendPasswordForm.clean).
PostIsAccepted ==
    page.script /\ IsComplete(page) => (IsValid(Posted(page)) <=> TextsAreAccepted(page))

\* No page the site serves, with or without the script, can send a valid form
\* without the confirmation method the command needs: the KeyError of
\* CONFIRMATION_METHOD_IDL_MAP is left to other clients.
ConfirmationIsGiven ==
    IsValid(Posted(page)) => ~ConfirmationIsMissing(Posted(page))

\* A form shown again, because it was not valid or the registry refused, has
\* every input as the user left it, though disabled inputs are not sent
\* (form_invalid renders what was posted, then the script runs anew).
ChoicesSurvive == [][reply' = "form" => page' = page]_vars

=============================================================================
