-------------------------- MODULE MCPublicRequests --------------------------
(* Small instances of PublicRequests for TLC. *)
EXTENDS PublicRequests, TLC

HandlersAndKeys == Permutations(Posts) \cup Permutations(Visits) \cup Permutations(Keys)

\* Everything a browser can post, with one handle and one address.
AllForms == Forms

Blank ==
    [view |-> "send_password", object_type |-> "domain",
     handle |-> CHOOSE h \in Handles : TRUE,
     send_to |-> "email_in_registry", custom_email |-> NULL,
     confirmation_method |-> NULL, lock_type |-> NULL]

BlockDomain ==
    [Blank EXCEPT !.view = "block_object", !.send_to = NULL, !.lock_type = "all",
                  !.confirmation_method = "notarized_letter"]

InfoToCustomEmail ==
    [Blank EXCEPT !.view = "personal_info", !.object_type = NULL,
                  !.send_to = "custom_email",
                  !.custom_email = CHOOSE e \in Emails : TRUE,
                  !.confirmation_method = "signed_email"]

\* A lock without a confirmation method: accepted by the form.
UnblockUnconfirmed ==
    [BlockDomain EXCEPT !.view = "unblock_object", !.confirmation_method = NULL]

\* Two forms of different views, classes and pages.
TwoForms == {InfoToCustomEmail, BlockDomain}

\* Bound: no two POSTs send the same form.
FormsDiffer == \A p, q \in Posts : p # q /\ post[p].form # NULL => post[p].form # post[q].form

\* A form of each page, one of them stopped before the call.
OddForms == {Blank, BlockDomain, UnblockUnconfirmed}

AllErrors ==
    {"OBJECT_NOT_FOUND", "OBJECT_TRANSFER_PROHIBITED", "INVALID_EMAIL",
     "OBJECT_ALREADY_BLOCKED", "OBJECT_NOT_BLOCKED", "HAS_DIFFERENT_BLOCK",
     "OPERATION_PROHIBITED", "INTERNAL_SERVER_ERROR"}

\* One error every view knows, one none does.
TwoErrors == {"OBJECT_NOT_FOUND", "INTERNAL_SERVER_ERROR"}

=============================================================================
