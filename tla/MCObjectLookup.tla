--------------------------- MODULE MCObjectLookup ---------------------------
(* Small instances of ObjectLookup for TLC. *)
EXTENDS ObjectLookup, TLC

LookupsOnly == Permutations(Lookups)

\* Where an instance has two handles.
First == CHOOSE h \in Handles : TRUE
Second == CHOOSE h \in Handles : h # First

Plain == [statuses |-> {}, contacts |-> <<>>, registrars |-> <<>>, nsset |-> NULL, keyset |-> NULL]

\* A set of name servers or keys with its technical contact and registrar.
SetOf(h) == [Plain EXCEPT !.contacts = <<h>>, !.registrars = <<h>>]

\* Every kind accepts every handle, which is a name in a zone as well.
InZone == [h \in Handles |-> [accepted_by |-> Kinds \ {"domain"}, domain |-> "in_zone"]]

\* The other handles are no names in a zone, and only some kinds accept them.
OneInZone ==
    [h \in Handles |->
        IF h = First THEN InZone[h]
        ELSE [accepted_by |-> {"contact", "registrar"},
              domain      |-> IF h = Second THEN "ODD_LABELS" ELSE "UNMANAGED_ZONE"]]

NoStatuses == [kind \in TableKinds |-> {}]
Empty == [objects |-> [o \in Objects |-> NULL], described |-> NoStatuses]
Holding(objects) == [Empty EXCEPT !.objects = objects @@ Empty.objects]

-----------------------------------------------------------------------------
(* Searches: under the first handle any kind may come and go, under the    *)
(* others only contacts.                                                   *)

AnyKind ==
    [o \in Objects |->
        IF o[2] # First THEN IF o[1] = "contact" THEN {Plain} ELSE {}
        ELSE CASE o[1] \in {"contact", "registrar"} -> {Plain}
               [] o[1] \in {"nsset", "keyset"} -> {SetOf(First)}
               [] o[1] = "domain" -> {SetOf(First), OBJECT_DELETE_CANDIDATE}]

NothingOrAll ==
    {Empty,
     Holding([o \in {"contact", "registrar"} \X {First} |-> Plain]),
     Holding([o \in Kinds \X {First} |-> CHOOSE r \in AnyKind[o] : r # OBJECT_DELETE_CANDIDATE])}

-----------------------------------------------------------------------------
(* Pages: a domain, its nsset and keyset and their contacts change hands. *)

ADomain ==
    [Plain EXCEPT !.statuses = {"serverBlocked"}, !.contacts = <<First, Second>>,
                  !.registrars = <<First>>, !.nsset = First, !.keyset = Second]

ANsset == [Plain EXCEPT !.contacts = <<First>>, !.registrars = <<Second>>]
AKeyset == [Plain EXCEPT !.contacts = <<Second, First>>, !.registrars = <<First>>]

\* What can be loaded from a page: all of it may be changed, moved or deleted.
PageRecords ==
    [o \in Objects |->
        CASE o = <<"domain", First>> ->
                {ADomain, [ADomain EXCEPT !.nsset = Second, !.keyset = NULL],
                 [ADomain EXCEPT !.contacts = <<Second>>, !.statuses = {"deleteCandidate"}],
                 OBJECT_DELETE_CANDIDATE}
          [] o[1] = "nsset" -> {ANsset, [ANsset EXCEPT !.statuses = {"deleteCandidate"}]}
          [] o = <<"keyset", Second>> -> {AKeyset, [AKeyset EXCEPT !.contacts = <<Second>>]}
          [] o[1] = "contact" -> {[Plain EXCEPT !.registrars = <<Second>>]}
          [] o[1] = "registrar" -> {Plain}
          [] OTHER -> {}]

AllPages ==
    {[Holding([o \in Objects |->
            CASE o = <<"domain", First>> -> ADomain
              [] o[1] = "nsset" -> ANsset
              [] o = <<"keyset", Second>> -> AKeyset
              [] o[1] = "contact" -> [Plain EXCEPT !.registrars = <<Second>>]
              [] o[1] = "registrar" -> Plain
              [] OTHER -> NULL])
      EXCEPT !.described = [NoStatuses EXCEPT !["domain"] = Statuses,
                                             !["nsset"] = {"deleteCandidate"}]]}

-----------------------------------------------------------------------------
(* Tables: contacts and nssets whose states the registry learns to describe. *)

InStates(o, sets) == {[Plain EXCEPT !.statuses = statuses] : statuses \in sets}

TableRecords ==
    [o \in Objects |-> IF o[1] \in {"contact", "nsset"} THEN InStates(o, SUBSET Statuses) ELSE {}]

FewStatuses ==
    {[Holding([o \in {"contact", "nsset"} \X Handles |-> Plain])
      EXCEPT !.described = [NoStatuses EXCEPT !["contact"] = {s}]] : s \in Statuses}

=============================================================================
