----------------------------- MODULE CorbaClients -----------------------------
(***************************************************************************)
(* The CORBA clients of one web server process: each is a SimpleLazyObject *)
(* which the threads of the process share.  The thread that first uses it  *)
(* resolves the object of the service and stores the reference, for good;  *)
(* a failure is raised and not stored.  Services go down, come back, and   *)
(* may come back as an object the stored reference does not lead to.       *)
(***************************************************************************)
EXTENDS Naturals

CONSTANTS
    Services,     \* the services the process uses
    MaxOutages,   \* how often services go down, altogether
    NULL

ASSUME OutagesAssumption == MaxOutages \in Nat /\ NULL \notin Nat

VARIABLES
    up,           \* the services that answer
    generation,   \* which object each service is, counted from 0
    client,       \* the object each lazy client refers to, NULL while unset
    outages       \* the outages so far

corba == <<up, generation, client, outages>>

ClientsTypeOK ==
    /\ up \in SUBSET Services
    /\ generation \in [Services -> 0 .. MaxOutages]
    /\ client \in [Services -> 0 .. MaxOutages \cup {NULL}]
    /\ outages \in 0 .. MaxOutages

ClientsInit ==
    /\ up \in SUBSET Services
    /\ generation = [s \in Services |-> 0]
    /\ client = [s \in Services |-> NULL]
    /\ outages = 0

\* A call of the service would reach it.
Reachable(s) == s \in up /\ client[s] \in {NULL, generation[s]}

\* The service is down, or its client was set up for an object since replaced.
Unavailable(s) == s \notin up \/ (client[s] # NULL /\ client[s] < generation[s])

GoesDown(s) ==
    /\ s \in up /\ outages < MaxOutages
    /\ up' = up \ {s} /\ outages' = outages + 1
    /\ UNCHANGED <<generation, client>>

\* The service is back, as the same object or as another one.
ComesUp(s) ==
    /\ s \notin up
    /\ up' = up \cup {s}
    /\ \/ generation' = generation
       \/ outages > 0 /\ generation' = [generation EXCEPT ![s] = outages]
    /\ UNCHANGED <<client, outages>>

\* _setup of the lazy object stores what a thread has resolved, even if
\* another thread did so meanwhile.
Store(s, resolved) ==
    /\ client' = [client EXCEPT ![s] = resolved]
    /\ UNCHANGED <<up, generation, outages>>

=============================================================================
