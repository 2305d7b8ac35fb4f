-------------------------- MODULE PublicRequestDesk --------------------------
(***************************************************************************)
(* What the public request pages promise, whatever happens inside: a form  *)
(* is handed to the registry at most once; it is refused only if it was    *)
(* not, accepted only if it was, and a failed one may be either; and what  *)
(* was handed over is shown to visitors, never anything else.              *)
(***************************************************************************)
CONSTANTS
    Posts,      \* the forms handed in
    Commands,   \* what the registry can be asked for
    NULL        \* nothing was asked for

VARIABLES
    outcome,    \* how each form was answered
    request,    \* the command the registry took for each form, or NULL
    shown       \* the forms whose request some visitor has been shown

vars == <<outcome, request, shown>>

Outcomes == {"open", "refused", "accepted", "failed"}

Init ==
    /\ outcome = [p \in Posts |-> "open"]
    /\ request = [p \in Posts |-> NULL]
    /\ shown = {}

Register(p, command) ==
    /\ outcome[p] = "open"
    /\ request[p] = NULL
    /\ request' = [request EXCEPT ![p] = command]
    /\ UNCHANGED <<outcome, shown>>

Refuse(p) ==
    /\ outcome[p] = "open"
    /\ request[p] = NULL
    /\ outcome' = [outcome EXCEPT ![p] = "refused"]
    /\ UNCHANGED <<request, shown>>

Accept(p) ==
    /\ outcome[p] = "open"
    /\ request[p] # NULL
    /\ outcome' = [outcome EXCEPT ![p] = "accepted"]
    /\ UNCHANGED <<request, shown>>

Fail(p) ==
    /\ outcome[p] = "open"
    /\ outcome' = [outcome EXCEPT ![p] = "failed"]
    /\ UNCHANGED <<request, shown>>

\* A visitor may be shown the request before its form is answered: the
\* response is published first.
Show(p) ==
    /\ request[p] # NULL
    /\ shown' = shown \cup {p}
    /\ UNCHANGED <<outcome, request>>

Next ==
    \E p \in Posts :
        \/ \E command \in Commands : Register(p, command)
        \/ Refuse(p) \/ Accept(p) \/ Fail(p) \/ Show(p)

Spec == Init /\ [][Next]_vars

=============================================================================
